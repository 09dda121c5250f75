----------------------------- MODULE Membership -----------------------------
(***************************************************************************)
(* Users, shops and invitations: POST /auth/sync, services/employees.py    *)
(* and set_platform_admin.  None of them locks a row: a request reads one  *)
(* statement at a time under READ COMMITTED and writes in its last step,   *)
(* over whatever the other requests have committed since.  What protects   *)
(* the rows is the unique keys of users and the conditional UPDATE that    *)
(* claims an invitation.                                                   *)
(*                                                                         *)
(* A write and its commit are one step, because nobody sees the one without*)
(* the other; so are reads that nothing committed between them could make  *)
(* decide otherwise.  A request refused by its first reads is not a step.  *)
(* Every identity signs in with the one address EmailOf gives it.          *)
(***************************************************************************)
EXTENDS Integers, FiniteSets

CONSTANTS
    Identities,      \* Clerk identities; the users table has at most one row of each
    Emails, EmailOf, \* two identities may share an address, two rows may not
    Shops, NoShop,
    Invitations,     \* bounds the invitations that are issued
    Requests,        \* bounds the requests that run at the same time
    Nobody, NoInvitation

ASSUME MembershipAssumption ==
    /\ EmailOf \in [Identities -> Emails]
    /\ IsFiniteSet(Identities)
    /\ NoShop \notin Shops
    /\ Nobody \notin Identities

VARIABLES
    shops,        \* the shops rows
    member,       \* the users rows, by identity
    invitation,   \* the employee_invitations rows
    request       \* where each request is and what it has read

vars == <<shops, member, invitation, request>>

NoMember == [shop |-> NoShop, role |-> "none", admin |-> FALSE]

(* state: open until revoked_at is set or, if still open, expires_at passes.*)
NotIssued == [shop |-> NoShop, email |-> Nobody, state |-> "open", acceptedBy |-> Nobody]

(* who: the user a request is about.  shop: the shop it acts for.  seen,    *)
(* paper and others: the user row, the invitation row and the number of     *)
(* other administrators it has read.                                        *)
Idle == [at |-> "idle", who |-> Nobody, shop |-> NoShop, email |-> Nobody,
         inv |-> NoInvitation, grant |-> FALSE, seen |-> NoMember, paper |-> NotIssued,
         others |-> 0]

Init ==
    /\ shops = {}
    /\ member = [c \in Identities |-> NoMember]
    /\ invitation = [i \in Invitations |-> NotIssued]
    /\ request = [r \in Requests |-> Idle]

-----------------------------------------------------------------------------
At(r, step) == request[r].at = step

Goes(r, change) == request' = [request EXCEPT ![r] = change]

Move(r, step) == Goes(r, [request[r] EXCEPT !.at = step])

End(r) == Goes(r, Idle)

OnlyReads == UNCHANGED <<shops, member, invitation>>

Known(c) == member[c] # NoMember

HoldersOf(email) == {c \in Identities : Known(c) /\ EmailOf[c] = email}

(* uq_users_clerk_user_id and uq_users_email.                               *)
InsertConflicts(c) == HoldersOf(EmailOf[c]) # {}

(* require_owner and get_current_shop_id.                                   *)
Owners == {c \in Identities : member[c].role = "owner" /\ ~member[c].admin
                                                       /\ member[c].shop # NoShop}

Admins == {c \in Identities : member[c].admin}

Unused == {i \in Invitations : invitation[i].shop = NoShop}

Pending(i) ==
    /\ i \notin Unused
    /\ invitation[i].state = "open"
    /\ invitation[i].acceptedBy = Nobody

Busy(steps) == Cardinality({r \in Requests : request[r].at \in steps})

-----------------------------------------------------------------------------
(* POST /auth/sync without an invitation: a new identity gets a shop of its *)
(* own.  The read by address finds whatever the read by identity would.     *)
(* A bound: only while an identifier of Shops is left.                      *)
Sync(r, c) ==
    /\ At(r, "idle")
    /\ ~InsertConflicts(c)
    /\ Cardinality(Shops \ shops) > Busy({"sync write"})
    /\ Goes(r, [Idle EXCEPT !.at = "sync write", !.who = c])
    /\ OnlyReads

(* Shop and owner are one transaction: the loser of a race leaves no shop.  *)
ShopKept(s) == shops \cup {s}

ShopRolledBack(s) == shops

WriteSync(r) ==
    LET c == request[r].who
    IN  /\ At(r, "sync write")
        /\ \E s \in Shops \ shops :
              IF InsertConflicts(c)
              THEN shops' = ShopRolledBack(s) /\ UNCHANGED member
              ELSE /\ shops' = shops \cup {s}
                   /\ member' = [member EXCEPT ![c] =
                                    [shop |-> s, role |-> "owner", admin |-> FALSE]]
        /\ End(r)
        /\ UNCHANGED invitation

-----------------------------------------------------------------------------
(* create_invitation: the holder of the address, the pending invitation,    *)
(* the new row.  A bound: only while Invitations has an identifier left.    *)
Invite(r, o, email) ==
    /\ At(r, "idle")
    /\ o \in Owners
    /\ Cardinality(Unused) > Busy({"invite pending", "invite write"})
    /\ \A c \in HoldersOf(email) : member[c].shop = NoShop /\ ~member[c].admin
    /\ Goes(r, [Idle EXCEPT !.at = "invite pending", !.shop = member[o].shop, !.email = email])
    /\ OnlyReads

InviteReadsPending(r) ==
    /\ At(r, "invite pending")
    /\ IF \E i \in Invitations : /\ Pending(i)
                                 /\ invitation[i].shop = request[r].shop
                                 /\ invitation[i].email = request[r].email
       THEN End(r) ELSE Move(r, "invite write")
    /\ OnlyReads

WriteInvitation(r) ==
    /\ At(r, "invite write")
    /\ \E i \in Unused :
          invitation' = [invitation EXCEPT ![i] =
                            [NotIssued EXCEPT !.shop = request[r].shop,
                                              !.email = request[r].email]]
    /\ End(r)
    /\ UNCHANGED <<shops, member>>

(* expires_at passes.                                                       *)
Expire(i) ==
    /\ Pending(i)
    /\ invitation' = [invitation EXCEPT ![i].state = "expired"]
    /\ UNCHANGED <<shops, member, request>>

-----------------------------------------------------------------------------
(* revoke_invitation: the row is read, and revoked_at written by its key.   *)
RecallableAlways(i) == invitation[i].state # "revoked"

Recallable(i) == invitation[i].acceptedBy = Nobody /\ invitation[i].state # "revoked"

Recall(r, o, i) ==
    /\ At(r, "idle")
    /\ o \in Owners
    /\ invitation[i].shop = member[o].shop
    /\ Recallable(i)
    /\ Goes(r, [Idle EXCEPT !.at = "recall write", !.inv = i, !.paper = invitation[i]])
    /\ OnlyReads

WriteRecall(r) ==
    /\ At(r, "recall write")
    /\ invitation' = [invitation EXCEPT ![request[r].inv].state = "revoked"]
    /\ End(r)
    /\ UNCHANGED <<shops, member>>

-----------------------------------------------------------------------------
(* revoke_employee: the row is read, and shop and role written by its key.  *)
Dismissed(row) == [row EXCEPT !.shop = NoShop, !.role = "staff"]

Dismissible(o, c) ==
    /\ c # o
    /\ member[c].shop = member[o].shop
    /\ member[c].role # "owner"
    /\ ~member[c].admin

Dismiss(r, o, c) ==
    /\ At(r, "idle")
    /\ o \in Owners
    /\ Known(c)
    /\ Dismissible(o, c)
    /\ Goes(r, [Idle EXCEPT !.at = "dismiss write", !.who = c, !.shop = member[o].shop,
                            !.seen = member[c]])
    /\ OnlyReads

WriteDismissal(r) ==
    /\ At(r, "dismiss write")
    /\ member' = [member EXCEPT ![request[r].who] = Dismissed(@)]
    /\ End(r)
    /\ UNCHANGED <<shops, invitation>>

-----------------------------------------------------------------------------
(* accept_invitation, through POST /employees/invitations/accept or         *)
(* /auth/sync: the invitation, whose state the claim checks again, and the  *)
(* user of the identity; then, for a new identity, the user of the address. *)
JoinableFromAnywhere(c) == Known(c) /\ ~member[c].admin

Joinable(c) == Known(c) /\ member[c].shop = NoShop /\ ~member[c].admin

Accept(r, c, i) ==
    /\ At(r, "idle")
    /\ Pending(i)
    /\ invitation[i].email = EmailOf[c]
    /\ Known(c) => Joinable(c)
    /\ Goes(r, [Idle EXCEPT !.at = IF Known(c) THEN "accept write" ELSE "accept email",
                            !.who = c, !.inv = i, !.shop = invitation[i].shop,
                            !.seen = member[c]])
    /\ OnlyReads

(* The address may have got a user since, even this identity.               *)
AcceptReadsEmail(r) ==
    LET c == request[r].who
    IN  /\ At(r, "accept email")
        /\ IF HoldersOf(EmailOf[c]) = {} \/ Joinable(c)
           THEN Goes(r, [request[r] EXCEPT !.at = "accept write", !.seen = member[c]])
           ELSE End(r)
        /\ OnlyReads

(* The WHERE clause of the claim compares expires_at with the time of the   *)
(* reads, so what has expired since is still accepted.                      *)
Claimable(i) == invitation[i].acceptedBy = Nobody /\ invitation[i].state # "revoked"

Joined(q) == [member EXCEPT ![q.who].shop = q.shop, ![q.who].role = "cashier"]

RolledBack(q) == member

WriteAcceptance(r) ==
    LET q == request[r]
    IN  /\ At(r, "accept write")
        /\ IF (q.seen = NoMember /\ InsertConflicts(q.who)) \/ ~Claimable(q.inv)
           THEN member' = RolledBack(q) /\ UNCHANGED invitation
           ELSE /\ member' = Joined(q)
                /\ invitation' = [invitation EXCEPT ![q.inv].acceptedBy = q.who]
        /\ End(r)
        /\ UNCHANGED shops

-----------------------------------------------------------------------------
(* set_platform_admin.                                                      *)
NeverLast(others) == FALSE

LastAdmin(others) == others = 0

SetAdmin(r, c, grant) ==
    LET others == Cardinality(Admins \ {c})
    IN  /\ At(r, "idle")
        /\ Known(c)
        /\ member[c].admin # grant
        /\ ~grant => ~LastAdmin(others)
        /\ Goes(r, [Idle EXCEPT !.at = "admin write", !.who = c, !.grant = grant,
                                !.others = IF grant THEN 0 ELSE others])
        /\ OnlyReads

WriteAdmin(r) ==
    /\ At(r, "admin write")
    /\ member' = [member EXCEPT ![request[r].who].admin = request[r].grant]
    /\ End(r)
    /\ UNCHANGED <<shops, invitation>>

-----------------------------------------------------------------------------
Arrive(r) ==
    \/ \E c \in Identities : Sync(r, c)
    \/ \E o \in Identities, email \in Emails : Invite(r, o, email)
    \/ \E o \in Identities, i \in Invitations : Recall(r, o, i)
    \/ \E o, c \in Identities : Dismiss(r, o, c)
    \/ \E c \in Identities, i \in Invitations : Accept(r, c, i)
    \/ \E c \in Identities, grant \in BOOLEAN : SetAdmin(r, c, grant)

Next ==
    \/ \E r \in Requests :
          \/ Arrive(r)
          \/ WriteSync(r)
          \/ InviteReadsPending(r) \/ WriteInvitation(r)
          \/ WriteRecall(r) \/ WriteDismissal(r)
          \/ AcceptReadsEmail(r) \/ WriteAcceptance(r)
          \/ WriteAdmin(r)
    \/ \E i \in Invitations : Expire(i)

Spec == Init /\ [][Next]_vars

-----------------------------------------------------------------------------
(* Properties.                                                              *)

Roles == {"none", "owner", "cashier", "staff"}

MemberRow == [shop : Shops \cup {NoShop}, role : Roles, admin : BOOLEAN]

InvitationRow == [shop : Shops \cup {NoShop}, email : Emails \cup {Nobody},
                  state : {"open", "expired", "revoked"}, acceptedBy : Identities \cup {Nobody}]

Steps == {"idle", "sync write", "invite pending", "invite write", "recall write",
          "dismiss write", "accept email", "accept write", "admin write"}

RequestRow ==
    [at : Steps, who : Identities \cup {Nobody}, shop : Shops \cup {NoShop},
     email : Emails \cup {Nobody}, inv : Invitations \cup {NoInvitation},
     grant : BOOLEAN, seen : MemberRow, paper : InvitationRow, others : Nat]

(* Types, and the tie of a role to a shop: only an owner and a cashier have *)
(* one, and a dismissed employee keeps neither shop nor rights.             *)
TypeOK ==
    /\ shops \subseteq Shops
    /\ member \in [Identities -> MemberRow]
    /\ \A c \in Identities : member[c].role \in {"owner", "cashier"} <=> member[c].shop \in shops
    /\ invitation \in [Invitations -> InvitationRow]
    /\ request \in [Requests -> RequestRow]

(* Each new identity gets its own isolated shop (api/auth.py): every shop   *)
(* has one owner, and no race of two sign-ins leaves one without.           *)
EveryShopHasItsOwner ==
    \A s \in shops : \E o \in Identities :
        {c \in Identities : member[c].role = "owner" /\ member[c].shop = s} = {o}

(* A cashier is a cashier because an invitation of this very shop, issued to*)
(* the address, was claimed by this user and by nobody else.                *)
MembersWereInvited ==
    \A c \in Identities : member[c].role = "cashier" =>
        \E i \in Invitations : /\ invitation[i].acceptedBy = c
                              /\ invitation[i].shop = member[c].shop
                              /\ invitation[i].email = EmailOf[c]

(* Whatever interleaving of sign-ins, invitations, accepts, revocations and *)
(* roll-backs led here, every member of a shop belongs to it.               *)
EveryMemberBelongs == TypeOK /\ EveryShopHasItsOwner /\ MembersWereInvited

(* The request writes over a row that is no longer the one it has read.     *)
Overtaken(r) ==
    LET q == request[r]
    IN  \/ At(r, "dismiss write") /\ q.seen # member[q.who]
        \/ At(r, "accept write") /\ q.seen # member[q.who]
        \/ At(r, "recall write") /\ q.paper # invitation[q.inv]
        \/ At(r, "admin write") /\ ~q.grant /\ q.others # Cardinality(Admins \ {q.who})

BecauseOvertaken == \E r \in Requests : Overtaken(r) /\ request'[r] = Idle

(* "Already-accepted rows are immutable" (revoke_invitation), unless the    *)
(* revocation has read the row before the acceptance committed.             *)
AcceptedIsFinal ==
    [][\A i \in Invitations :
          invitation[i].acceptedBy # Nobody /\ invitation'[i] # invitation[i]
              => BecauseOvertaken]_vars

(* A user leaves a shop only by a dismissal in that shop, and "a user who   *)
(* already belongs to another shop is never silently moved"                 *)
(* (services/employees.py), unless the request was overtaken.               *)
DismissedBy(c) ==
    \E r \in Requests : /\ At(r, "dismiss write") /\ request'[r] = Idle
                        /\ request[r].who = c /\ request[r].shop = member[c].shop

MembersStayPut ==
    [][\A c \in Identities :
          member[c].shop # NoShop /\ member'[c].shop # member[c].shop
              => (DismissedBy(c) /\ member'[c].shop = NoShop) \/ BecauseOvertaken]_vars

(* set_platform_admin "refuses to revoke the last remaining platform        *)
(* administrator", unless it has counted one who is being revoked as well.  *)
AdminsRemain == [][Admins # {} => Admins' # {} \/ BecauseOvertaken]_vars
=============================================================================
