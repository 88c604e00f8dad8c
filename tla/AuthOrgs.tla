------------------------------- MODULE AuthOrgs -------------------------------
(***************************************************************************)
(* The organization half of crates/reactor-auth: create_org, the members    *)
(* and the invitations of AuthService (src/service.rs), with the checks     *)
(* their routes make first (src/routes/members.rs, invitations.rs,          *)
(* orgs.rs), over PgIdentityStore.  One organization; each request is a     *)
(* sequence of store calls, none of them in a transaction.  A request may   *)
(* end between two calls: a call failed, or its client went away.           *)
(***************************************************************************)
EXTENDS Naturals, Sequences, FiniteSets

CONSTANTS
    Users,
    Requests,      \* requests in flight at a time
    MaxArrivals,   \* bound on the requests that begin
    MaxInvites     \* bound on the invitations

ASSUME OrgConstants == IsFiniteSet(Users) /\ IsFiniteSet(Requests) /\ {MaxArrivals, MaxInvites} \subseteq Nat

VARIABLES
    known,     \* the users who have signed up
    org,       \* how far create_org came: rows of the organization and its roles
    member,    \* member[u]: the role of u, None without a membership row
    invite,    \* invitations, in the order they were created
    req,       \* req[r]: where a request is
    arrived,   \* requests that began so far
    overlap,   \* some request wrote memberships between the read another
               \* decided on and that request's write
    cut        \* some request ended early

vars == <<known, org, member, invite, req, arrived, overlap, cut>>

None == "none"
Roles == {"owner", "admin", "member"}

\* The statements of create_org: INSERT the org, three roles, the membership.
Absent == 0
Founded == 5
Deleted == 6

Idle == [at |-> "idle", actor |-> None, target |-> None, role |-> None, row |-> 0]

\* The places of a request between the read it decided on and its last write.
Decided == {"update_role", "delete_member", "find_email", "join", "use_invitation"}

Request == [at : {"idle", "create_org", "find_target", "find_member", "count_demoted",
                  "count_removed", "create_invitation", "delete_org"} \cup Decided,
            actor : Users \cup {None}, target : Users \cup {None},
            role : Roles \cup {None}, row : Nat]

\* joins: how many memberships were created on this invitation.
Invite == [u : Users, role : Roles, used : BOOLEAN, expired : BOOLEAN, joins : Nat]

TypeOK ==
    /\ known \subseteq Users
    /\ org \in Absent .. Deleted
    /\ member \in [Users -> Roles \cup {None}]
    /\ org # Founded => invite = <<>> /\ \A u \in Users : member[u] = None
    /\ invite \in Seq(Invite) /\ Len(invite) <= MaxInvites
    /\ req \in [Requests -> Request]
    /\ arrived \in 0 .. MaxArrivals
    /\ overlap \in BOOLEAN /\ cut \in BOOLEAN

Owners == {u \in Users : member[u] = "owner"}

\* No organization yet, or one with an owner and any other members.
Init ==
    /\ known \in SUBSET Users
    /\ \/ org = Absent /\ member = [u \in Users |-> None]
       \/ /\ org = Founded
          /\ member \in [Users -> Roles \cup {None}]
          /\ Owners # {} /\ {u \in Users : member[u] # None} \subseteq known
    /\ invite = <<>>
    /\ req = [r \in Requests |-> Idle]
    /\ arrived = 0
    /\ overlap = FALSE /\ cut = FALSE

-----------------------------------------------------------------------------
Arrival == arrived < MaxArrivals /\ arrived' = arrived + 1

Begin(r, at, actor, target, role, row) ==
    /\ req[r].at = "idle"
    /\ Arrival
    /\ req' = [req EXCEPT ![r] = [at |-> at, actor |-> actor, target |-> target,
                                  role |-> role, row |-> row]]

Goto(r, at) == req' = [req EXCEPT ![r].at = at]

Ends(r) == req' = [req EXCEPT ![r] = Idle]

\* The history of a write to memberships by r.
Writes(r) == overlap' = (overlap \/ \E q \in Requests \ {r} : req[q].at \in Decided)

Drop(r) ==
    /\ req[r].at # "idle"
    /\ Ends(r)
    /\ cut' = TRUE
    /\ UNCHANGED <<known, org, member, invite, arrived, overlap>>

Signup(u) ==
    /\ u \notin known
    /\ known' = known \cup {u}
    /\ Arrival
    /\ UNCHANGED <<org, member, invite, req, overlap, cut>>

-----------------------------------------------------------------------------
(* create_org, delete_org                                                   *)

\* orgs_slug_key: the slug of an organization that exists is taken.
CreateOrg(r, u) ==
    /\ u \in known /\ org = Absent
    /\ org' = 1
    /\ Begin(r, "create_org", u, None, "owner", 0)
    /\ UNCHANGED <<known, member, invite, overlap, cut>>

CreateRole(r) ==
    /\ req[r].at = "create_org" /\ org < Founded - 1
    /\ org' = org + 1
    /\ UNCHANGED <<known, member, invite, req, arrived, overlap, cut>>

JoinAsOwner(r) ==
    /\ req[r].at = "create_org" /\ org = Founded - 1
    /\ org' = Founded
    /\ member' = [member EXCEPT ![req[r].actor] = "owner"]
    /\ Ends(r)
    /\ Writes(r)
    /\ UNCHANGED <<known, invite, arrived, cut>>

IsAdmin(u) == member[u] \in {"owner", "admin"}

RequireOwner(r, actor) ==
    /\ member[actor] = "owner"
    /\ Begin(r, "delete_org", actor, None, None, 0)
    /\ UNCHANGED <<known, org, member, invite, overlap, cut>>

\* The cascade takes roles, memberships and invitations with it.  roles are
\* also ON DELETE RESTRICT for memberships: when the database cascades to
\* roles before memberships it refuses the whole statement.
DeleteOrg(r) ==
    /\ req[r].at = "delete_org"
    /\ \/ /\ org' = Deleted
          /\ member' = [u \in Users |-> None]
          /\ invite' = <<>>
       \/ (\E u \in Users : member[u] # None) /\ UNCHANGED <<org, member, invite>>
    /\ Ends(r)
    /\ UNCHANGED <<known, arrived, overlap, cut>>

-----------------------------------------------------------------------------
(* update_member_role, remove_member                                        *)

\* require_org_admin_or_owner, in the routes.
RequireAdmin(r, actor) ==
    /\ IsAdmin(actor)
    /\ \/ \E target \in Users, role \in Roles : Begin(r, "find_target", actor, target, role, 0)
       \/ \E target \in Users : Begin(r, "find_member", actor, target, None, 0)
       \/ \E target \in Users, role \in Roles : Begin(r, "create_invitation", actor, target, role, 0)
    /\ UNCHANGED <<known, org, member, invite, overlap, cut>>

\* The membership and its role; only a demoted owner makes the owners count.
FindTarget(r) ==
    LET found == member[req[r].target] IN
    /\ req[r].at = "find_target"
    /\ IF found = None THEN Ends(r)
       ELSE Goto(r, IF found = "owner" /\ req[r].role # "owner" THEN "count_demoted" ELSE "update_role")
    /\ UNCHANGED <<known, org, member, invite, arrived, overlap, cut>>

FindMember(r) ==
    LET found == member[req[r].target] IN
    /\ req[r].at = "find_member"
    /\ IF found = None THEN Ends(r)
       ELSE Goto(r, IF found = "owner" THEN "count_removed" ELSE "delete_member")
    /\ UNCHANGED <<known, org, member, invite, arrived, overlap, cut>>

\* Mutant: the limit is one too low.
CountOwnersLow(r) ==
    /\ req[r].at \in {"count_demoted", "count_removed"}
    /\ IF Cardinality(Owners) < 1 THEN Ends(r)
       ELSE Goto(r, IF req[r].at = "count_demoted" THEN "update_role" ELSE "delete_member")
    /\ UNCHANGED <<known, org, member, invite, arrived, overlap, cut>>

\* count_members_with_role; one owner or none is LastOwner.
CountOwners(r) ==
    /\ req[r].at \in {"count_demoted", "count_removed"}
    /\ IF Cardinality(Owners) <= 1 THEN Ends(r)
       ELSE Goto(r, IF req[r].at = "count_demoted" THEN "update_role" ELSE "delete_member")
    /\ UNCHANGED <<known, org, member, invite, arrived, overlap, cut>>

\* update_membership_role and delete_membership name the row by its user
\* alone; without one they fail.
UpdateMembershipRole(r) ==
    LET u == req[r].target IN
    /\ req[r].at = "update_role"
    /\ member' = IF member[u] = None THEN member ELSE [member EXCEPT ![u] = req[r].role]
    /\ Ends(r)
    /\ Writes(r)
    /\ UNCHANGED <<known, org, invite, arrived, cut>>

DeleteMembership(r) ==
    /\ req[r].at = "delete_member"
    /\ member' = [member EXCEPT ![req[r].target] = None]
    /\ Ends(r)
    /\ Writes(r)
    /\ UNCHANGED <<known, org, invite, arrived, cut>>

-----------------------------------------------------------------------------
(* create_invitation, accept_invitation                                     *)

CreateInvitation(r) ==
    /\ req[r].at = "create_invitation"
    /\ \/ /\ org = Founded /\ Len(invite) < MaxInvites
          /\ invite' = Append(invite, [u |-> req[r].target, role |-> req[r].role,
                                       used |-> FALSE, expired |-> FALSE, joins |-> 0])
       \/ org # Founded /\ UNCHANGED invite
    /\ Ends(r)
    /\ UNCHANGED <<known, org, member, arrived, overlap, cut>>

\* Mutant: used_at is not looked at.
FindInvitationUsed(r, i) ==
    /\ ~invite[i].expired
    /\ Begin(r, "find_email", None, invite[i].u, invite[i].role, i)
    /\ UNCHANGED <<known, org, member, invite, overlap, cut>>

FindInvitation(r, i) ==
    /\ ~invite[i].used /\ ~invite[i].expired
    /\ Begin(r, "find_email", None, invite[i].u, invite[i].role, i)
    /\ UNCHANGED <<known, org, member, invite, overlap, cut>>

\* Mutant: an invitation answered with pending_signup is marked used.
FindEmailUsesIt(r) ==
    /\ req[r].at = "find_email"
    /\ IF req[r].target \in known THEN Goto(r, "join") /\ UNCHANGED invite
       ELSE Ends(r) /\ invite' = [i \in DOMAIN invite |-> [invite[i] EXCEPT !.used = @ \/ i = req[r].row]]
    /\ UNCHANGED <<known, org, member, arrived, overlap, cut>>

\* Without a user of that email the answer is pending_signup.
FindEmail(r) ==
    /\ req[r].at = "find_email"
    /\ IF req[r].target \in known THEN Goto(r, "join") ELSE Ends(r)
    /\ UNCHANGED <<known, org, member, invite, arrived, overlap, cut>>

\* create_membership: memberships_pkey refuses a member, the foreign key an
\* organization that is gone.
Join(r) ==
    LET u == req[r].target IN
    /\ req[r].at = "join"
    /\ \/ /\ org = Founded /\ member[u] = None
          /\ member' = [member EXCEPT ![u] = req[r].role]
          /\ invite' = [invite EXCEPT ![req[r].row].joins = @ + 1]
          /\ Goto(r, "use_invitation")
          /\ Writes(r)
       \/ /\ org # Founded \/ member[u] # None
          /\ Ends(r)
          /\ UNCHANGED <<member, invite, overlap>>
    /\ UNCHANGED <<known, org, arrived, cut>>

\* use_invitation.  The row may be used or gone: the member is told
\* InvitationNotFound.
UseInvitation(r) ==
    /\ req[r].at = "use_invitation"
    /\ invite' = [i \in DOMAIN invite |-> [invite[i] EXCEPT !.used = @ \/ i = req[r].row]]
    /\ Ends(r)
    /\ UNCHANGED <<known, org, member, arrived, overlap, cut>>

ExpireInvitation(i) ==
    /\ ~invite[i].used /\ ~invite[i].expired
    /\ invite' = [invite EXCEPT ![i].expired = TRUE]
    /\ UNCHANGED <<known, org, member, req, arrived, overlap, cut>>

Next ==
    \/ \E u \in Users : Signup(u)
    \/ \E i \in DOMAIN invite : ExpireInvitation(i)
    \/ \E r \in Requests :
         \/ Drop(r)
         \/ \E u \in Users : CreateOrg(r, u) \/ RequireOwner(r, u) \/ RequireAdmin(r, u)
         \/ \E i \in DOMAIN invite : FindInvitation(r, i)
         \/ CreateRole(r) \/ JoinAsOwner(r) \/ DeleteOrg(r)
         \/ FindTarget(r) \/ FindMember(r) \/ CountOwners(r)
         \/ UpdateMembershipRole(r) \/ DeleteMembership(r)
         \/ CreateInvitation(r) \/ FindEmail(r) \/ Join(r) \/ UseInvitation(r)

Spec == Init /\ [][Next]_vars

-----------------------------------------------------------------------------
\* "Cannot remove the last owner" (delete_member, AuthError::LastOwner): an
\* organization that was founded and not deleted has an owner.
HasOwner == org = Founded => Owners # {}

\* What the check of update_member_role and remove_member does give: the last
\* owner is lost only if two requests that write memberships overlapped, one
\* writing between the other's count and its write.  Requests one after the
\* other, in whatever order, and requests that end early, keep an owner.
OwnerLostOnlyByOverlap == overlap \/ HasOwner

\* An invitation marked used has made its user a member: accept_invitation
\* creates the membership first, and does not spend an invitation on a user
\* who has yet to sign up.
UsedMeansJoined == \A i \in DOMAIN invite : invite[i].used => invite[i].joins > 0

\* A member who was removed comes back through the same invitation only if
\* two requests overlapped or one ended between create_membership and
\* use_invitation.
InvitationJoinsOnce ==
    overlap \/ cut \/ \A i \in DOMAIN invite : invite[i].joins <= 1

\* The places of accept_invitation.
Accepting == {"find_email", "join", "use_invitation"}

\* What a request q carries fits its place, and one that accepts an invitation
\* carries the row's user until the organization is gone.
Fits(q) ==
    /\ q.at \in {"create_org", "delete_org"} => q.actor \in Users
    /\ q.at \in {"find_target", "count_demoted", "update_role", "create_invitation"}
           => q.target \in Users /\ q.role \in Roles
    /\ q.at \in {"find_member", "count_removed", "delete_member"}
           => q.target \in Users /\ q.role = None
    /\ q.at \in Accepting =>
           /\ q.target \in Users /\ q.role \in Roles
           /\ org \in {Founded, Deleted}
           /\ org = Founded => q.row \in DOMAIN invite /\ invite[q.row].u = q.target
    /\ q.at = "use_invitation" /\ org = Founded => invite[q.row].joins > 0

RequestsFit == \A r \in Requests : Fits(req[r])

\* A request that is about to take the role of an owner leaves another.
LeavesOwner(q) ==
    (/\ q.at \in {"update_role", "delete_member"}
     /\ q.role # "owner" /\ member[q.target] = "owner")
        => \E u \in Owners : u # q.target

\* While no requests overlapped: nobody wrote since the owners were counted.
DecisionsHold == overlap \/ \A r \in Requests : LeavesOwner(req[r])

\* The second join on an invitation finds a member.
FindsMember(q) ==
    (q.at \in {"find_email", "join"} /\ org = Founded /\ invite[q.row].joins > 0)
        => member[q.target] # None

\* While no requests overlapped and none was cut, the user of an invitation
\* that was joined is a member as long as some request may join on it again.
JoinedStay ==
    overlap \/ cut \/
        /\ \A i \in DOMAIN invite : invite[i].joins > 0 /\ ~invite[i].used =>
              /\ member[invite[i].u] # None
              /\ \E r \in Requests : req[r].at = "use_invitation" /\ req[r].row = i
        /\ \A r \in Requests : FindsMember(req[r])

\* The rows hang together (no member or invitation without its organization),
\* no invitation is spent for nothing, and what a request decided on holds.
OrgsInv ==
    /\ TypeOK
    /\ UsedMeansJoined
    /\ RequestsFit
    /\ OwnerLostOnlyByOverlap /\ DecisionsHold
    /\ InvitationJoinsOnce /\ JoinedStay
=============================================================================
