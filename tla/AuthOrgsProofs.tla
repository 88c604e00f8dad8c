----------------------------- MODULE AuthOrgsProofs -----------------------------
(***************************************************************************)
(* Proofs about AuthOrgs for every set of users and of concurrent requests  *)
(* and every bound: OrgsInv is inductive, so the owner check and the        *)
(* invitations do what they do without an overlap, however requests follow  *)
(* each other.                                                              *)
(***************************************************************************)
EXTENDS AuthOrgs, TLAPS, FiniteSetTheorems, SequenceTheorems

(* Who counts more than one owner finds an owner other than the target.     *)
LEMMA AnotherOwner ==
  ASSUME NEW u, ~(Cardinality(Owners) <= 1)
  PROVE  \E o \in Owners : o # u
<1> SUFFICES ASSUME Owners \subseteq {u} PROVE FALSE
  OBVIOUS
<1>1. IsFiniteSet({u}) /\ Cardinality({u}) = 1
  BY FS_Singleton
<1>2. Cardinality(Owners) <= 1 /\ Cardinality(Owners) \in Nat
  BY <1>1, FS_Subset, FS_CardinalityType
<1> QED BY <1>2

(* What Append does to the invitations.                                     *)
LEMMA InvitationAppended ==
  ASSUME NEW row \in Invite, invite \in Seq(Invite), invite' = Append(invite, row)
  PROVE  /\ invite' \in Seq(Invite) /\ Len(invite') = Len(invite) + 1
         /\ DOMAIN invite \subseteq DOMAIN invite'
         /\ \A i \in DOMAIN invite : invite'[i] = invite[i]
         /\ \A i \in DOMAIN invite' : i \notin DOMAIN invite => invite'[i] = row
  BY AppendProperties

(* What an UPDATE does to the invitations.                                  *)
LEMMA InvitationsUpdated ==
  ASSUME invite \in Seq(Invite), DOMAIN invite' = DOMAIN invite,
         invite' = [i \in DOMAIN invite |-> invite'[i]],
         \A i \in DOMAIN invite : invite'[i] \in Invite
  PROVE  invite' \in Seq(Invite) /\ Len(invite') = Len(invite)
<1>1. Len(invite) \in Nat /\ DOMAIN invite = 1 .. Len(invite)
  BY LenProperties
<1>2. invite' \in [1 .. Len(invite) -> Invite]
  BY <1>1
<1> QED BY <1>1, <1>2, IsASeq, LenProperties

(* A request that arrives.                                                  *)
LEMMA Begun ==
  ASSUME TypeOK, NEW r \in Requests, NEW at, NEW actor, NEW target, NEW role, NEW row,
         Begin(r, at, actor, target, role, row)
  PROVE  /\ req[r].at = "idle" /\ arrived' \in 0 .. MaxArrivals
         /\ req' = [req EXCEPT ![r] = [at |-> at, actor |-> actor, target |-> target,
                                       role |-> role, row |-> row]]
  BY OrgConstants DEF TypeOK, Begin, Arrival

(* A step that moves the request r and leaves the tables alone keeps        *)
(* OrgsInv when what r carries now fits its new place.                      *)
LEMMA RequestMoves ==
  ASSUME OrgsInv, NEW r \in Requests, NEW q \in Request, req' = [req EXCEPT ![r] = q],
         UNCHANGED <<known, org, member, invite, overlap>>,
         arrived' \in 0 .. MaxArrivals, cut' \in BOOLEAN, cut => cut',
         Fits(q), overlap \/ LeavesOwner(q), overlap \/ cut \/ FindsMember(q),
         req[r].at = "use_invitation" => cut'
  PROVE  OrgsInv'
<1>1. TypeOK'
  BY DEF OrgsInv, TypeOK
<1>2. req \in [Requests -> Request]
  BY DEF OrgsInv, TypeOK
<1>3. UsedMeansJoined' /\ OwnerLostOnlyByOverlap' /\ InvitationJoinsOnce'
  BY DEF OrgsInv, UsedMeansJoined, OwnerLostOnlyByOverlap, HasOwner, Owners, InvitationJoinsOnce
<1>4. RequestsFit'
  BY <1>2 DEF OrgsInv, RequestsFit, Fits
<1>5. DecisionsHold'
  BY <1>2 DEF OrgsInv, DecisionsHold, LeavesOwner, Owners
<1>6. JoinedStay'
  <2> SUFFICES ASSUME ~overlap, ~cut'
               PROVE  /\ \A i \in DOMAIN invite : invite[i].joins > 0 /\ ~invite[i].used =>
                            /\ member[invite[i].u] # None
                            /\ \E p \in Requests : req'[p].at = "use_invitation" /\ req'[p].row = i
                      /\ \A p \in Requests : FindsMember(req'[p])
    BY DEF JoinedStay, FindsMember
  <2>1. \A p \in Requests : FindsMember(req'[p])
    BY <1>2 DEF OrgsInv, JoinedStay
  <2>2. \A p \in Requests : req[p].at = "use_invitation" => req'[p] = req[p]
    BY <1>2
  <2> QED BY <2>1, <2>2 DEF OrgsInv, JoinedStay
<1> QED BY <1>1, <1>3, <1>4, <1>5, <1>6 DEF OrgsInv

(* A request that is over asks for nothing.                                 *)
LEMMA IdleFits == Idle \in Request /\ Fits(Idle) /\ LeavesOwner(Idle) /\ FindsMember(Idle)
  BY DEF Idle, Request, Fits, LeavesOwner, FindsMember, Accepting, None

(* A request that goes on carries the same.                                 *)
LEMMA GoneOn ==
  ASSUME TypeOK, NEW r \in Requests, NEW at, Goto(r, at)
  PROVE  LET q == [req[r] EXCEPT !.at = at]
         IN  /\ req' = [req EXCEPT ![r] = q]
             /\ q.at = at /\ q.actor = req[r].actor /\ q.target = req[r].target
             /\ q.role = req[r].role /\ q.row = req[r].row
             /\ at \in {"create_invitation", "count_demoted", "count_removed"} \cup Decided
                  => q \in Request
  BY DEF TypeOK, Goto, Request

(* The steps of a request that only read.                                   *)
LEMMA ReadsKeepOrgsInv ==
  ASSUME OrgsInv, NEW r \in Requests,
         \/ Drop(r) \/ FindTarget(r) \/ FindMember(r) \/ CountOwners(r) \/ FindEmail(r)
         \/ \E u \in Users : RequireOwner(r, u) \/ RequireAdmin(r, u)
         \/ \E i \in DOMAIN invite : FindInvitation(r, i)
  PROVE  OrgsInv'
<1> TypeOK /\ arrived \in 0 .. MaxArrivals /\ cut \in BOOLEAN /\ Fits(req[r])
  BY DEF OrgsInv, TypeOK, RequestsFit
(* It ends, or it goes on to a place where what it carries fits.            *)
<1>1. ASSUME Ends(r), UNCHANGED <<known, org, member, invite, arrived, overlap>>,
             cut' \in BOOLEAN, cut => cut', req[r].at = "use_invitation" => cut'
      PROVE  OrgsInv'
  <2>1. /\ req' = [req EXCEPT ![r] = Idle] /\ arrived' \in 0 .. MaxArrivals
        /\ UNCHANGED <<known, org, member, invite, overlap>>
    BY <1>1 DEF Ends
  <2> QED BY <1>1, <2>1, IdleFits, RequestMoves
<1>2. ASSUME NEW at, at \in {"count_demoted", "count_removed", "update_role",
                             "delete_member", "join"}, Goto(r, at),
             UNCHANGED <<known, org, member, invite, arrived, overlap, cut>>,
             req[r].at # "use_invitation",
             Fits([req[r] EXCEPT !.at = at]), LeavesOwner([req[r] EXCEPT !.at = at]),
             overlap \/ cut \/ FindsMember([req[r] EXCEPT !.at = at])
      PROVE  OrgsInv'
  <2>1. /\ req' = [req EXCEPT ![r] = [req[r] EXCEPT !.at = at]]
        /\ [req[r] EXCEPT !.at = at] \in Request
    BY <1>2, GoneOn DEF Decided
  <2> QED BY <1>2, <2>1, RequestMoves
(* It arrives.                                                              *)
<1>3. ASSUME NEW at, NEW actor \in Users \cup {None}, NEW target \in Users \cup {None},
             NEW role \in Roles \cup {None}, NEW row \in Nat,
             Begin(r, at, actor, target, role, row),
             UNCHANGED <<known, org, member, invite, overlap, cut>>,
             at \in {"delete_org", "find_target", "find_member", "create_invitation", "find_email"},
             LET q == [at |-> at, actor |-> actor, target |-> target, role |-> role, row |-> row]
             IN  Fits(q) /\ (overlap \/ cut \/ FindsMember(q))
      PROVE  OrgsInv'
  <2> DEFINE q == [at |-> at, actor |-> actor, target |-> target, role |-> role, row |-> row]
  <2>1. q \in Request /\ LeavesOwner(q)
    BY <1>3 DEF Request, LeavesOwner, Decided
  <2>2. /\ req[r].at = "idle" /\ arrived' \in 0 .. MaxArrivals
        /\ req' = [req EXCEPT ![r] = q]
    BY <1>3, Begun
  <2>3. Fits(q) /\ (overlap \/ cut \/ FindsMember(q))
    BY <1>3
  <2> HIDE DEF q
  <2> QED BY <1>3, <2>1, <2>2, <2>3, RequestMoves
<1>4. CASE Drop(r)
  BY <1>1, <1>4 DEF Drop
<1>5. CASE FindTarget(r)
  <2>1. CASE member[req[r].target] = None
    BY <1>1, <1>5, <2>1 DEF FindTarget
  <2>2. ASSUME NEW at, at = IF member[req[r].target] = "owner" /\ req[r].role # "owner"
                            THEN "count_demoted" ELSE "update_role", Goto(r, at),
               req[r].at = "find_target"
        PROVE  /\ Fits([req[r] EXCEPT !.at = at]) /\ LeavesOwner([req[r] EXCEPT !.at = at])
               /\ FindsMember([req[r] EXCEPT !.at = at])
    BY <2>2, GoneOn DEF Fits, LeavesOwner, FindsMember, Accepting
  <2> QED BY <1>2, <1>5, <2>1, <2>2 DEF FindTarget
<1>6. CASE FindMember(r)
  <2>1. CASE member[req[r].target] = None
    BY <1>1, <1>6, <2>1 DEF FindMember
  <2>2. ASSUME NEW at, at = IF member[req[r].target] = "owner" THEN "count_removed"
                            ELSE "delete_member", Goto(r, at),
               req[r].at = "find_member"
        PROVE  /\ Fits([req[r] EXCEPT !.at = at]) /\ LeavesOwner([req[r] EXCEPT !.at = at])
               /\ FindsMember([req[r] EXCEPT !.at = at])
    BY <2>2, GoneOn DEF Fits, LeavesOwner, FindsMember, Accepting
  <2> QED BY <1>2, <1>6, <2>1, <2>2 DEF FindMember
<1>7. CASE CountOwners(r)
  <2>1. CASE Cardinality(Owners) <= 1
    BY <1>1, <1>7, <2>1 DEF CountOwners
  <2>2. ASSUME NEW at, at = IF req[r].at = "count_demoted" THEN "update_role" ELSE "delete_member",
               Goto(r, at), req[r].at \in {"count_demoted", "count_removed"},
               ~(Cardinality(Owners) <= 1)
        PROVE  /\ Fits([req[r] EXCEPT !.at = at]) /\ LeavesOwner([req[r] EXCEPT !.at = at])
               /\ FindsMember([req[r] EXCEPT !.at = at])
    <3>1. \E o \in Owners : o # req[r].target
      BY <2>2, AnotherOwner
    <3> QED BY <2>2, <3>1, GoneOn DEF Fits, LeavesOwner, FindsMember, Accepting
  <2> QED BY <1>2, <1>7, <2>1, <2>2 DEF CountOwners
<1>8. CASE FindEmail(r)
  <2>1. CASE req[r].target \notin known
    BY <1>1, <1>8, <2>1 DEF FindEmail
  <2>2. ASSUME Goto(r, "join"), req[r].at = "find_email"
        PROVE  /\ Fits([req[r] EXCEPT !.at = "join"]) /\ LeavesOwner([req[r] EXCEPT !.at = "join"])
               /\ overlap \/ cut \/ FindsMember([req[r] EXCEPT !.at = "join"])
    <3>1. overlap \/ cut \/ FindsMember(req[r])
      BY DEF OrgsInv, JoinedStay
    <3> QED BY <2>2, <3>1, GoneOn DEF Fits, LeavesOwner, FindsMember, Accepting
  <2> QED BY <1>2, <1>8, <2>1, <2>2 DEF FindEmail
<1>9. ASSUME NEW u \in Users, RequireOwner(r, u)
      PROVE  OrgsInv'
  BY <1>3, <1>9 DEF RequireOwner, Fits, FindsMember, Accepting, Roles
<1>10. ASSUME NEW u \in Users, RequireAdmin(r, u)
       PROVE  OrgsInv'
  BY <1>3, <1>10 DEF RequireAdmin, Fits, FindsMember, Accepting
<1>11. ASSUME NEW i \in DOMAIN invite, FindInvitation(r, i)
       PROVE  OrgsInv'
  <2>1. invite[i] \in Invite /\ i \in Nat /\ org = Founded
    BY ElementOfSeq, LenProperties DEF OrgsInv, TypeOK
  <2>2. overlap \/ cut \/ (invite[i].joins > 0 => member[invite[i].u] # None)
    BY <1>11 DEF OrgsInv, JoinedStay, FindInvitation
  <2> QED BY <1>3, <1>11, <2>1, <2>2 DEF FindInvitation, Fits, FindsMember, Accepting, Invite
<1> QED BY <1>4, <1>5, <1>6, <1>7, <1>8, <1>9, <1>10, <1>11

(* The steps that write memberships.                                        *)
LEMMA WritesKeepOrgsInv ==
  ASSUME OrgsInv, NEW r \in Requests,
         JoinAsOwner(r) \/ UpdateMembershipRole(r) \/ DeleteMembership(r) \/ Join(r)
  PROVE  OrgsInv'
<1> TypeOK /\ req \in [Requests -> Request] /\ Fits(req[r]) /\ overlap \in BOOLEAN /\ cut \in BOOLEAN
  BY DEF OrgsInv, TypeOK, RequestsFit
<1> DEFINE u == req[r].target
(* Without an overlap nobody else was at a place where a write would hurt.  *)
<1>1. Writes(r) => /\ overlap' \in BOOLEAN
                   /\ ~overlap' => /\ ~overlap
                                   /\ \A q \in Requests \ {r} : req[q].at \notin Decided
  BY DEF Writes
<1>2. CASE JoinAsOwner(r) \/ UpdateMembershipRole(r) \/ DeleteMembership(r)
  <2>1. /\ Writes(r) /\ req' = [req EXCEPT ![r] = Idle] /\ req[r].at # "use_invitation"
        /\ UNCHANGED <<known, invite, arrived, cut>>
    BY <1>2 DEF JoinAsOwner, UpdateMembershipRole, DeleteMembership, Ends
  <2>2. /\ org' \in {org, Founded} /\ (org' # org => org = Founded - 1)
        /\ member' \in [Users -> Roles \cup {None}]
        /\ org' # Founded => \A x \in Users : member'[x] = None
    BY <1>2 DEF JoinAsOwner, UpdateMembershipRole, DeleteMembership, Fits, TypeOK, Roles,
       Founded, Absent, Deleted
  <2>3. TypeOK'
    BY <1>1, <2>1, <2>2, IdleFits DEF TypeOK, Founded, Absent, Deleted
  <2>4. UsedMeansJoined' /\ InvitationJoinsOnce'
    BY <1>1, <2>1 DEF OrgsInv, UsedMeansJoined, InvitationJoinsOnce
  <2>5. RequestsFit'
    <3>1. \A q \in Requests : Fits(req[q]) /\ (q # r => req'[q] = req[q])
      BY <2>1 DEF OrgsInv, RequestsFit
    <3> QED BY <2>1, <2>2, <3>1 DEF RequestsFit, Fits, Accepting, Idle, Founded, Deleted
  <2>6. OwnerLostOnlyByOverlap'
    <3> SUFFICES ASSUME ~overlap', org' = Founded PROVE Owners' # {}
      BY DEF OwnerLostOnlyByOverlap, HasOwner
    <3>1. CASE JoinAsOwner(r)
      BY <3>1 DEF JoinAsOwner, Fits, Owners, TypeOK
    <3>2. CASE UpdateMembershipRole(r) \/ DeleteMembership(r)
      <4>1. LeavesOwner(req[r]) /\ Owners # {} /\ u \in Users
        BY <1>1, <2>1, <3>2 DEF OrgsInv, DecisionsHold, OwnerLostOnlyByOverlap, HasOwner, Fits,
           UpdateMembershipRole, DeleteMembership
      <4>2. /\ req[r].at \in {"update_role", "delete_member"}
            /\ \A x \in Users : x # u => member'[x] = member[x]
            /\ req[r].role = "owner" => member'[u] = member[u] \/ member'[u] = "owner"
        BY <3>2, <4>1 DEF UpdateMembershipRole, DeleteMembership, Fits, TypeOK, None
      <4> QED BY <4>1, <4>2 DEF LeavesOwner, Owners
    <3> QED BY <1>2, <3>1, <3>2
  <2>7. DecisionsHold' /\ JoinedStay'
    <3> SUFFICES ASSUME ~overlap'
                 PROVE  /\ \A q \in Requests : LeavesOwner(req[q])'
                        /\ cut' \/ JoinedStay'
      BY DEF DecisionsHold, JoinedStay
    <3>1. \A q \in Requests : req'[q].at \notin Decided /\ req[q].at # "use_invitation"
      BY <1>1, <2>1 DEF Idle, Decided
    <3>2. cut' \/ \A i \in DOMAIN invite : invite[i].joins > 0 => invite[i].used
      BY <1>1, <2>1, <3>1 DEF OrgsInv, JoinedStay
    <3> QED BY <2>1, <3>1, <3>2 DEF LeavesOwner, JoinedStay, FindsMember, Decided
  <2> QED BY <2>3, <2>4, <2>5, <2>6, <2>7 DEF OrgsInv
<1>3. CASE Join(r) /\ ~(org = Founded /\ member[u] = None)
  BY <1>3, IdleFits, RequestMoves DEF Join, Ends, TypeOK
<1>4. CASE Join(r) /\ org = Founded /\ member[u] = None
  <2> DEFINE n == req[r].row
             row == [invite[n] EXCEPT !.joins = @ + 1]
             q == [req[r] EXCEPT !.at = "use_invitation"]
  <2>1. /\ req[r].at = "join" /\ Writes(r) /\ req' = [req EXCEPT ![r] = q]
        /\ member' = [member EXCEPT ![u] = req[r].role]
        /\ invite' = [invite EXCEPT ![n] = row]
        /\ UNCHANGED <<known, org, arrived, cut>>
    BY <1>4 DEF Join, Goto
  <2>2. /\ u \in Users /\ req[r].role \in Roles /\ n \in DOMAIN invite /\ invite[n].u = u
        /\ invite[n] \in Invite /\ invite \in Seq(Invite)
    BY <1>4, <2>1, ElementOfSeq, LenProperties DEF Fits, Accepting, TypeOK
  <2>3. /\ row \in Invite /\ row.u = u /\ row.used = invite[n].used
        /\ row.joins = invite[n].joins + 1 /\ invite[n].joins \in Nat
    BY <2>2 DEF Invite
  <2>4. /\ q \in Request /\ q.at = "use_invitation" /\ q.target = u /\ q.role = req[r].role
        /\ q.row = n
    BY <2>1 DEF Request, Decided
  <2> HIDE DEF u, n, row, q
  <2>5. /\ DOMAIN invite' = DOMAIN invite
        /\ \A i \in DOMAIN invite : invite'[i] = IF i = n THEN row ELSE invite[i]
        /\ invite' \in Seq(Invite) /\ Len(invite') = Len(invite)
    <3>1. DOMAIN invite = 1 .. Len(invite) /\ Len(invite) \in Nat
      BY <2>2, LenProperties
    <3> QED BY <2>1, <2>2, <2>3, <3>1, ExceptSeq
  <2>6. /\ \A x \in Users : member'[x] = IF x = u THEN req[r].role ELSE member[x]
        /\ \A p \in Requests : req'[p] = IF p = r THEN q ELSE req[p]
        /\ req[r].role # None
    BY <2>1, <2>2 DEF TypeOK, Roles, None
  <2>7. TypeOK'
    BY <1>1, <1>4, <2>1, <2>2, <2>4, <2>5 DEF TypeOK
  <2>8. UsedMeansJoined'
    BY <2>3, <2>5 DEF OrgsInv, UsedMeansJoined
  <2>9. RequestsFit'
    <3>1. \A p \in Requests : Fits(req[p])
      BY DEF OrgsInv, RequestsFit
    <3>2. Fits(req[r])'
      BY <1>4, <2>1, <2>2, <2>3, <2>4, <2>5, <2>6 DEF Fits, Accepting
    <3>3. ASSUME NEW p \in Requests, p # r PROVE Fits(req[p])'
      <4>1. req'[p] = req[p] /\ org' = org
        BY <2>1, <2>6, <3>3
      <4>2. \A i \in DOMAIN invite : /\ invite'[i].u = invite[i].u
                                     /\ invite[i].joins > 0 => invite'[i].joins > 0
        BY <2>2, <2>3, <2>5
      <4> QED BY <2>5, <3>1, <4>1, <4>2 DEF Fits, Accepting
    <3> QED BY <2>6, <3>2, <3>3 DEF RequestsFit
  <2>10. OwnerLostOnlyByOverlap'
    BY <1>1, <1>4, <2>1, <2>2, <2>6 DEF OrgsInv, OwnerLostOnlyByOverlap, HasOwner, Owners, None
  <2>11. ASSUME ~overlap'
         PROVE  /\ \A p \in Requests : LeavesOwner(req[p])'
                /\ cut' \/ \A i \in DOMAIN invite' : invite'[i].joins <= 1
                /\ cut' \/ JoinedStay'
    <3>1. /\ ~overlap /\ \A p \in Requests : p # r => req[p].at \notin Decided
      BY <1>1, <2>1, <2>11
    <3>2. \A p \in Requests : LeavesOwner(req[p])'
      BY <2>4, <2>6, <3>1 DEF LeavesOwner, Decided
    <3>3. cut' \/ (/\ \A i \in DOMAIN invite : invite[i].joins <= 1
                  /\ ~(invite[n].joins > 0))
      <4>1. cut \/ \A i \in DOMAIN invite : invite[i].joins <= 1
        BY <3>1 DEF OrgsInv, InvitationJoinsOnce
      <4>2. cut \/ FindsMember(req[r])
        <5>1. cut \/ \A p \in Requests : FindsMember(req[p])
          BY <3>1 DEF OrgsInv, JoinedStay
        <5> QED BY <5>1
      <4> QED BY <1>4, <2>1, <4>1, <4>2 DEF FindsMember, u, n
    <3>4. cut' \/ \A i \in DOMAIN invite' : invite'[i].joins <= 1
      BY <2>3, <2>5, <3>3
    <3>5. cut' \/ \A i \in DOMAIN invite' : invite'[i].joins > 0 /\ ~invite'[i].used => i = n
      <4>1. cut' \/ \A i \in DOMAIN invite : invite[i].joins > 0 /\ ~invite[i].used =>
                      \E p \in Requests : req[p].at = "use_invitation"
        BY <2>1, <3>1 DEF OrgsInv, JoinedStay
      <4>2. \A p \in Requests : req[p].at # "use_invitation"
        BY <2>1, <3>1 DEF Decided
      <4> QED BY <2>5, <4>1, <4>2
    <3>6. \A p \in Requests : FindsMember(req[p])'
      BY <2>4, <2>6, <3>1 DEF FindsMember, Decided
    <3> QED BY <2>2, <2>3, <2>4, <2>5, <2>6, <3>2, <3>4, <3>5, <3>6 DEF JoinedStay
  <2> QED BY <2>7, <2>8, <2>9, <2>10, <2>11 DEF OrgsInv, DecisionsHold, InvitationJoinsOnce, JoinedStay
<1> QED BY <1>2, <1>3, <1>4

(* The first states.                                                        *)
LEMMA OrgsInvInit == Init => OrgsInv
<1> SUFFICES ASSUME Init PROVE OrgsInv
  OBVIOUS
<1>1. invite = <<>> /\ invite \in Seq(Invite) /\ Len(invite) = 0 /\ DOMAIN invite = {}
  BY EmptySeq DEF Init
<1>2. \A r \in Requests : req[r] = Idle /\ Fits(req[r]) /\ LeavesOwner(req[r]) /\ FindsMember(req[r])
  BY IdleFits DEF Init
<1>3. TypeOK
  <2>1. org \in Absent .. Deleted /\ member \in [Users -> Roles \cup {None}]
    BY DEF Init, Absent, Founded, Deleted
  <2>2. org # Founded => \A u \in Users : member[u] = None
    BY DEF Init
  <2>3. req \in [Requests -> Request]
    BY IdleFits DEF Init
  <2>4. arrived \in 0 .. MaxArrivals /\ 0 <= MaxInvites
    BY OrgConstants DEF Init
  <2>5. known \subseteq Users /\ overlap \in BOOLEAN /\ cut \in BOOLEAN
    BY DEF Init
  <2> QED BY <1>1, <2>1, <2>2, <2>3, <2>4, <2>5 DEF TypeOK
<1>4. OwnerLostOnlyByOverlap
  BY DEF Init, OwnerLostOnlyByOverlap, HasOwner, Absent, Founded
<1> QED BY <1>1, <1>2, <1>3, <1>4 DEF OrgsInv, UsedMeansJoined, RequestsFit, DecisionsHold,
       InvitationJoinsOnce, JoinedStay

(* The statements of create_org before its last one.                        *)
LEMMA FoundingKeepsOrgsInv ==
  ASSUME OrgsInv, NEW r \in Requests, CreateRole(r) \/ \E u \in Users : CreateOrg(r, u)
  PROVE  OrgsInv'
<1> TypeOK /\ req \in [Requests -> Request]
  BY DEF OrgsInv, TypeOK
<1>1. /\ org # Founded /\ org # Deleted /\ org' # Founded /\ org' \in Absent .. Deleted
      /\ UNCHANGED <<known, member, invite, overlap, cut>>
  BY DEF CreateRole, CreateOrg, TypeOK, Absent, Founded, Deleted
<1>2. /\ req' \in [Requests -> Request] /\ arrived' \in 0 .. MaxArrivals
      /\ \A p \in Requests : \/ req'[p] = req[p]
                             \/ /\ req'[p].at = "create_org" /\ req'[p].actor \in Users
  <2>1. CASE CreateRole(r)
    BY <2>1 DEF CreateRole, TypeOK
  <2>2. ASSUME NEW u \in Users, CreateOrg(r, u)
        PROVE  /\ req' \in [Requests -> Request] /\ arrived' \in 0 .. MaxArrivals
               /\ \A p \in Requests : \/ req'[p] = req[p]
                                      \/ /\ req'[p].at = "create_org" /\ req'[p].actor \in Users
    BY <2>2, Begun DEF CreateOrg, Request, Roles, Decided
  <2> QED BY <2>1, <2>2
<1>3. invite = <<>> /\ DOMAIN invite = {} /\ \A p \in Requests : req[p].at \notin Accepting
  BY <1>1, EmptySeq DEF OrgsInv, TypeOK, RequestsFit, Fits
<1>4. TypeOK'
  BY <1>1, <1>2 DEF TypeOK
<1>5. UsedMeansJoined' /\ InvitationJoinsOnce' /\ OwnerLostOnlyByOverlap'
  BY <1>1, <1>3 DEF UsedMeansJoined, InvitationJoinsOnce, OwnerLostOnlyByOverlap, HasOwner
<1>6. ASSUME NEW p \in Requests
      PROVE  Fits(req[p])' /\ LeavesOwner(req[p])' /\ FindsMember(req[p])'
  BY <1>1, <1>2, <1>3 DEF OrgsInv, TypeOK, RequestsFit, Fits, LeavesOwner, FindsMember, Accepting, None
<1> QED BY <1>1, <1>3, <1>4, <1>5, <1>6 DEF OrgsInv, RequestsFit, DecisionsHold, JoinedStay

(* The cascade takes what the invariant speaks of.                          *)
LEMMA DeletionKeepsOrgsInv ==
  ASSUME OrgsInv, NEW r \in Requests, DeleteOrg(r)
  PROVE  OrgsInv'
<1> TypeOK /\ req \in [Requests -> Request]
  BY DEF OrgsInv, TypeOK
<1>1. CASE UNCHANGED <<org, member, invite>>
  BY <1>1, IdleFits, RequestMoves DEF DeleteOrg, Ends, TypeOK
<1>2. CASE org' = Deleted /\ member' = [u \in Users |-> None] /\ invite' = <<>>
  <2>1. /\ invite' \in Seq(Invite) /\ Len(invite') = 0 /\ DOMAIN invite' = {}
        /\ org' # Founded /\ org' \in Absent .. Deleted
    BY <1>2, EmptySeq DEF Absent, Founded, Deleted
  <2>2. /\ req' = [req EXCEPT ![r] = Idle] /\ req' \in [Requests -> Request]
        /\ UNCHANGED <<known, arrived, overlap, cut>>
    BY IdleFits DEF DeleteOrg, Ends
  <2>3. TypeOK'
    BY <1>2, <2>1, <2>2, OrgConstants DEF TypeOK
  <2>4. UsedMeansJoined' /\ InvitationJoinsOnce' /\ OwnerLostOnlyByOverlap'
    BY <2>1 DEF UsedMeansJoined, InvitationJoinsOnce, OwnerLostOnlyByOverlap, HasOwner
  <2>5. ASSUME NEW p \in Requests
        PROVE  Fits(req[p])' /\ LeavesOwner(req[p])' /\ FindsMember(req[p])'
    <3>1. Fits(req[p]) /\ (req'[p] = req[p] \/ req'[p] = Idle)
      BY <2>2 DEF OrgsInv, RequestsFit
    <3>2. Fits(req[p])'
      BY <1>2, <2>1, <3>1 DEF Fits, Idle, Accepting
    <3>3. req'[p].at \in {"update_role", "delete_member"} => req'[p].target \in Users
      BY <3>1 DEF Fits, Idle
    <3> QED BY <1>2, <2>1, <3>2, <3>3 DEF LeavesOwner, FindsMember, None
  <2> QED BY <2>1, <2>3, <2>4, <2>5 DEF OrgsInv, RequestsFit, DecisionsHold, JoinedStay
<1> QED BY <1>1, <1>2 DEF DeleteOrg

(* A new row is appended; no request carries it yet.                        *)
LEMMA InvitingKeepsOrgsInv ==
  ASSUME OrgsInv, NEW r \in Requests, CreateInvitation(r)
  PROVE  OrgsInv'
<1> TypeOK /\ req \in [Requests -> Request] /\ Fits(req[r])
  BY DEF OrgsInv, TypeOK, RequestsFit
<1>1. CASE UNCHANGED invite
  BY <1>1, IdleFits, RequestMoves DEF CreateInvitation, Ends, TypeOK
<1>2. CASE org = Founded /\ invite' # invite
  <2> DEFINE row == [u |-> req[r].target, role |-> req[r].role,
                     used |-> FALSE, expired |-> FALSE, joins |-> 0]
  <2>1. /\ invite' = Append(invite, row) /\ Len(invite) < MaxInvites
        /\ row \in Invite /\ row.joins = 0 /\ row.used = FALSE
    BY <1>2 DEF CreateInvitation, Fits, Invite
  <2> HIDE DEF row
  <2>2. /\ invite' \in Seq(Invite) /\ Len(invite') = Len(invite) + 1
        /\ DOMAIN invite \subseteq DOMAIN invite'
        /\ \A i \in DOMAIN invite : invite'[i] = invite[i]
        /\ \A i \in DOMAIN invite' : i \notin DOMAIN invite => invite'[i] = row
    BY <2>1, InvitationAppended DEF TypeOK
  <2>3. /\ req' = [req EXCEPT ![r] = Idle] /\ req[r].at # "use_invitation"
        /\ UNCHANGED <<known, org, member, arrived, overlap, cut>>
    BY <1>2 DEF CreateInvitation, Ends
  <2>4. TypeOK'
    BY <1>2, <2>1, <2>2, <2>3, IdleFits, LenProperties, OrgConstants DEF TypeOK
  <2>5. UsedMeansJoined' /\ InvitationJoinsOnce' /\ OwnerLostOnlyByOverlap'
    BY <2>1, <2>2, <2>3 DEF OrgsInv, UsedMeansJoined, InvitationJoinsOnce, OwnerLostOnlyByOverlap,
       HasOwner, Owners
  <2>6. ASSUME NEW p \in Requests
        PROVE  /\ Fits(req[p])' /\ (overlap' \/ LeavesOwner(req[p])')
               /\ overlap' \/ cut' \/ FindsMember(req[p])'
    <3>1. CASE p # r
      <4>1. /\ Fits(req[p]) /\ req'[p] = req[p]
            /\ overlap \/ LeavesOwner(req[p])
            /\ overlap \/ cut \/ FindsMember(req[p])
        BY <2>3, <3>1 DEF OrgsInv, RequestsFit, DecisionsHold, JoinedStay
      <4>2. Fits(req[p])'
        BY <2>2, <2>3, <4>1 DEF Fits, Accepting
      <4>3. overlap' \/ LeavesOwner(req[p])'
        BY <2>3, <4>1 DEF LeavesOwner, Owners
      <4>4. overlap' \/ cut' \/ FindsMember(req[p])'
        BY <2>2, <2>3, <4>1 DEF FindsMember, Fits, Accepting
      <4> QED BY <4>2, <4>3, <4>4
    <3>2. CASE p = r
      BY <2>3, <3>2 DEF Idle, Fits, LeavesOwner, FindsMember, Accepting
    <3> QED BY <3>1, <3>2
  <2>7. overlap' \/ cut' \/ \A i \in DOMAIN invite' : invite'[i].joins > 0 /\ ~invite'[i].used =>
           /\ member'[invite'[i].u] # None
           /\ \E p \in Requests : req'[p].at = "use_invitation" /\ req'[p].row = i
    <3>1. overlap \/ cut \/ \A i \in DOMAIN invite : invite[i].joins > 0 /\ ~invite[i].used =>
             /\ member[invite[i].u] # None
             /\ \E p \in Requests : req[p].at = "use_invitation" /\ req[p].row = i
      BY DEF OrgsInv, JoinedStay
    <3>2. \A p \in Requests : req[p].at = "use_invitation" => req'[p] = req[p]
      BY <2>3
    <3> QED BY <2>1, <2>2, <2>3, <3>1, <3>2
  <2> QED BY <2>4, <2>5, <2>6, <2>7 DEF OrgsInv, RequestsFit, DecisionsHold, JoinedStay
<1> QED BY <1>1, <1>2 DEF CreateInvitation

(* Rows change only in used, where the row was joined, and in expired.       *)
LEMMA SpendingKeepsOrgsInv ==
  ASSUME OrgsInv,
         \/ \E r \in Requests : UseInvitation(r)
         \/ \E i \in DOMAIN invite : ExpireInvitation(i)
  PROVE  OrgsInv'
<1> TypeOK /\ req \in [Requests -> Request] /\ org \in Absent .. Deleted
  BY DEF OrgsInv, TypeOK
<1>1. \A i \in DOMAIN invite : invite[i] \in Invite
  BY ElementOfSeq, LenProperties DEF TypeOK
<1>2. ASSUME NEW r \in Requests, UseInvitation(r)
      PROVE  /\ DOMAIN invite' = DOMAIN invite
             /\ \A i \in DOMAIN invite : 
                  /\ invite'[i] \in Invite
                  /\ invite'[i].u = invite[i].u /\ invite'[i].joins = invite[i].joins
                  /\ invite'[i].used = (invite[i].used \/ i = req[r].row)
             /\ invite' = [i \in DOMAIN invite |-> invite'[i]]
  BY <1>1, <1>2 DEF UseInvitation, Invite
<1>3. ASSUME NEW i \in DOMAIN invite, ExpireInvitation(i)
      PROVE  /\ DOMAIN invite' = DOMAIN invite
             /\ \A j \in DOMAIN invite : 
                  /\ invite'[j] \in Invite
                  /\ invite'[j].u = invite[j].u /\ invite'[j].joins = invite[j].joins
                  /\ invite'[j].used = invite[j].used
             /\ invite' = [j \in DOMAIN invite |-> invite'[j]]
  BY <1>1, <1>3 DEF ExpireInvitation, Invite
<1> DEFINE Touched ==
      /\ DOMAIN invite' = DOMAIN invite
      /\ \A i \in DOMAIN invite : /\ invite'[i].u = invite[i].u /\ invite'[i].joins = invite[i].joins
                                 /\ (invite[i].used => invite'[i].used)
      /\ invite' \in Seq(Invite) /\ Len(invite') = Len(invite)
      /\ invite = <<>> => invite' = <<>>
      /\ UNCHANGED <<known, org, member, arrived, overlap, cut>>
      /\ req' \in [Requests -> Request]
      /\ \A p \in Requests : req'[p] = req[p] \/ req'[p] = Idle
<1>4. Touched
  <2>1. ASSUME NEW r \in Requests, UseInvitation(r) PROVE Touched
    BY <1>2, <2>1, InvitationsUpdated, IdleFits, EmptySeq DEF TypeOK, UseInvitation, Ends
  <2>2. ASSUME NEW i \in DOMAIN invite, ExpireInvitation(i) PROVE Touched
    BY <1>3, <2>2, InvitationsUpdated, EmptySeq DEF TypeOK, ExpireInvitation
  <2> QED BY <2>1, <2>2
<1>5. TypeOK'
  BY <1>4 DEF TypeOK
<1>6. InvitationJoinsOnce' /\ OwnerLostOnlyByOverlap'
  <2>1. InvitationJoinsOnce /\ OwnerLostOnlyByOverlap
    BY DEF OrgsInv
  <2>2. InvitationJoinsOnce'
    BY <1>4, <2>1 DEF InvitationJoinsOnce
  <2>3. OwnerLostOnlyByOverlap'
    BY <1>4, <2>1 DEF OwnerLostOnlyByOverlap, HasOwner, Owners
  <2> QED BY <2>2, <2>3
<1>7. ASSUME NEW p \in Requests
      PROVE  /\ Fits(req[p])' /\ (overlap' \/ LeavesOwner(req[p])')
             /\ overlap' \/ cut' \/ FindsMember(req[p])'
  <2>1. CASE req'[p] = req[p]
    <3>1. /\ Fits(req[p])
          /\ overlap \/ LeavesOwner(req[p])
          /\ overlap \/ cut \/ FindsMember(req[p])
      BY DEF OrgsInv, RequestsFit, DecisionsHold, JoinedStay
    <3>2. Fits(req[p])'
      BY <1>4, <2>1, <3>1 DEF Fits, Accepting
    <3>3. overlap' \/ LeavesOwner(req[p])'
      BY <1>4, <2>1, <3>1 DEF LeavesOwner, Owners
    <3>4. overlap' \/ cut' \/ FindsMember(req[p])'
      BY <1>4, <2>1, <3>1 DEF FindsMember, Fits, Accepting
    <3> QED BY <3>2, <3>3, <3>4
  <2>2. CASE req'[p] = Idle
    BY <2>2 DEF Idle, Fits, LeavesOwner, FindsMember, Accepting
  <2> QED BY <1>4, <2>1, <2>2
<1>8. overlap \/ cut \/ \A i \in DOMAIN invite : invite[i].joins > 0 /\ ~invite[i].used =>
           /\ member[invite[i].u] # None
           /\ \E p \in Requests : req[p].at = "use_invitation" /\ req[p].row = i
  BY DEF OrgsInv, JoinedStay
<1> DEFINE Spent == UsedMeansJoined' /\ (overlap' \/ cut' \/
        \A i \in DOMAIN invite' : invite'[i].joins > 0 /\ ~invite'[i].used =>
           /\ member'[invite'[i].u] # None
           /\ \E p \in Requests : req'[p].at = "use_invitation" /\ req'[p].row = i)
<1>9. Spent
  <2>1. ASSUME NEW r \in Requests, UseInvitation(r) PROVE Spent
    <3>1. \A i \in DOMAIN invite : i = req[r].row => invite[i].joins > 0
      <4>1. Fits(req[r]) /\ req[r].at = "use_invitation"
        BY <2>1 DEF OrgsInv, RequestsFit, UseInvitation
      <4>2. org # Founded => DOMAIN invite = {}
        BY EmptySeq DEF TypeOK
      <4> QED BY <4>1, <4>2 DEF Fits
    <3>2. UsedMeansJoined'
      BY <1>2, <2>1, <3>1 DEF OrgsInv, UsedMeansJoined
    <3>3. \A p \in Requests : p # r => req'[p] = req[p]
      BY <2>1 DEF UseInvitation, Ends
    <3>4. UNCHANGED <<member, overlap, cut>>
      BY <1>4
    <3>5. ASSUME NEW i \in DOMAIN invite', ~overlap', ~cut', invite'[i].joins > 0, ~invite'[i].used
          PROVE  /\ member'[invite'[i].u] # None
                 /\ \E p \in Requests : req'[p].at = "use_invitation" /\ req'[p].row = i
      <4>1. i \in DOMAIN invite /\ i # req[r].row /\ invite[i].joins > 0 /\ ~invite[i].used
        BY <1>2, <2>1, <3>5
      <4>2. invite'[i].u = invite[i].u
        BY <1>2, <2>1, <4>1
      <4>3. PICK p \in Requests : req[p].at = "use_invitation" /\ req[p].row = i
        BY <1>8, <3>4, <3>5, <4>1
      <4>4. req'[p] = req[p]
        BY <3>3, <4>1, <4>3
      <4> QED BY <1>8, <3>4, <3>5, <4>1, <4>2, <4>3, <4>4
    <3> QED BY <3>2, <3>5
  <2>2. ASSUME NEW i \in DOMAIN invite, ExpireInvitation(i) PROVE Spent
    BY <1>3, <1>4, <1>8, <2>2 DEF OrgsInv, UsedMeansJoined, ExpireInvitation
  <2> QED BY <2>1, <2>2
<1> QED BY <1>5, <1>6, <1>7, <1>9 DEF OrgsInv, RequestsFit, DecisionsHold, JoinedStay

(* Every step keeps the invariant.                                          *)
LEMMA OrgsInvStep == OrgsInv /\ [Next]_vars => OrgsInv'
<1> SUFFICES ASSUME OrgsInv, [Next]_vars PROVE OrgsInv'
  OBVIOUS
<1>1. ASSUME known' \subseteq Users, arrived' \in 0 .. MaxArrivals,
             UNCHANGED <<org, member, invite, req, overlap, cut>>
      PROVE  OrgsInv'
  BY <1>1 DEF OrgsInv, TypeOK, UsedMeansJoined, RequestsFit, Fits, OwnerLostOnlyByOverlap, HasOwner,
     Owners, DecisionsHold, LeavesOwner, InvitationJoinsOnce, JoinedStay, FindsMember
<1>2. ASSUME NEW u \in Users, Signup(u) PROVE OrgsInv'
  BY <1>1, <1>2, OrgConstants DEF Signup, Arrival, OrgsInv, TypeOK
<1>3. CASE UNCHANGED vars
  BY <1>1, <1>3 DEF vars, OrgsInv, TypeOK
<1>4. ASSUME NEW r \in Requests,
             \/ Drop(r)
             \/ \E u \in Users : CreateOrg(r, u) \/ RequireOwner(r, u) \/ RequireAdmin(r, u)
             \/ \E i \in DOMAIN invite : FindInvitation(r, i)
             \/ CreateRole(r) \/ JoinAsOwner(r) \/ DeleteOrg(r)
             \/ FindTarget(r) \/ FindMember(r) \/ CountOwners(r)
             \/ UpdateMembershipRole(r) \/ DeleteMembership(r)
             \/ CreateInvitation(r) \/ FindEmail(r) \/ Join(r) \/ UseInvitation(r)
      PROVE  OrgsInv'
  BY <1>4, ReadsKeepOrgsInv, WritesKeepOrgsInv, FoundingKeepsOrgsInv, DeletionKeepsOrgsInv,
     InvitingKeepsOrgsInv, SpendingKeepsOrgsInv
<1> QED BY <1>2, <1>3, <1>4, SpendingKeepsOrgsInv DEF Next

(* The rows hang together and what a request decided on holds.              *)
THEOREM OrgsAreConsistent == Spec => []OrgsInv
<1> QED BY OrgsInvInit, OrgsInvStep, PTL DEF Spec

(* The check of update_member_role and remove_member: without an overlap an *)
(* organization keeps an owner, whatever requests come and end early.       *)
THEOREM OwnersAreKept == Spec => []OwnerLostOnlyByOverlap
<1>1. OrgsInv => OwnerLostOnlyByOverlap
  BY DEF OrgsInv
<1> QED BY <1>1, OrgsAreConsistent, PTL

(* accept_invitation: one invitation, one membership, unless two requests   *)
(* overlapped or one was cut.                                               *)
THEOREM InvitationsJoinOnce == Spec => []InvitationJoinsOnce
<1>1. OrgsInv => InvitationJoinsOnce
  BY DEF OrgsInv
<1> QED BY <1>1, OrgsAreConsistent, PTL
=============================================================================
