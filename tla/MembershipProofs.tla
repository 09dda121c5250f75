-------------------------- MODULE MembershipProofs --------------------------
(***************************************************************************)
(* Who belongs to which shop, for any number of identities, shops,         *)
(* invitations and concurrent requests.  No request locks what it has read,*)
(* so the invariant says what each one may still count on when it writes:  *)
(* a user row never goes away, an owner stays an owner and nobody becomes  *)
(* one, an issued invitation keeps its shop and its address (Grows).       *)
(***************************************************************************)
EXTENDS Membership, FiniteSetTheorems, TLAPS

(* What the rows a request has read, and the rows themselves, guarantee its *)
(* write.                                                                   *)
Fits(r) ==
    LET q == request[r]
    IN  /\ q.at \in {"sync write", "dismiss write", "accept email", "accept write",
                     "admin write"} => q.who \in Identities
        /\ q.at \in {"recall write", "accept email", "accept write"} => q.inv \in Invitations
        /\ q.at \in {"invite pending", "invite write"} => q.shop \in shops
        /\ q.at \in {"accept email", "accept write"} =>
              /\ q.shop \in shops
              /\ invitation[q.inv].shop = q.shop
              /\ invitation[q.inv].email = EmailOf[q.who]
        /\ q.at = "accept write" =>
              /\ q.seen.shop = NoShop
              /\ q.seen # NoMember => Known(q.who) /\ member[q.who].role # "owner"
        /\ q.at = "dismiss write" =>
              Known(q.who) /\ member[q.who].role # "owner" /\ q.seen.shop = q.shop
        /\ q.at = "recall write" => q.paper.acceptedBy = Nobody
        /\ q.at = "admin write" => Known(q.who) /\ (~q.grant => q.others # 0)

MembersFit ==
    \A c \in Identities : /\ member[c].role = "none" => member[c] = NoMember
                          /\ member[c].shop \in shops \cup {NoShop}

InvitationsFit ==
    \A i \in Invitations :
        /\ invitation[i].shop \in shops \cup {NoShop}
        /\ invitation[i].acceptedBy # Nobody => invitation[i].shop # NoShop

RowsTyped ==
    /\ shops \subseteq Shops
    /\ member \in [Identities -> MemberRow]
    /\ \A c \in Identities : member[c].role \in {"owner", "cashier"} <=> member[c].shop \in shops
    /\ invitation \in [Invitations -> InvitationRow]

RowsInv ==
    RowsTyped /\ EveryShopHasItsOwner /\ MembersWereInvited /\ MembersFit /\ InvitationsFit

MembershipInv ==
    /\ RowsInv
    /\ request \in [Requests -> RequestRow]
    /\ \A r \in Requests : Fits(r)

(* What no step takes away.                                                 *)
Grows ==
    /\ shops \subseteq shops'
    /\ \A c \in Identities : Known(c) =>
          Known(c)' /\ (member'[c].role = "owner" <=> member[c].role = "owner")
    /\ \A i \in Invitations : invitation[i].shop # NoShop =>
          invitation'[i].shop = invitation[i].shop /\ invitation'[i].email = invitation[i].email

-----------------------------------------------------------------------------
(* The rows a request starts from are well typed.                           *)
LEMMA BlankRows ==
    /\ NoMember \in MemberRow /\ NotIssued \in InvitationRow /\ Idle \in RequestRow
    /\ NoMember.shop = NoShop /\ NoMember.role = "none" /\ NoMember.admin = FALSE
    /\ NotIssued.shop = NoShop /\ NotIssued.acceptedBy = Nobody
    /\ Idle.at = "idle" /\ Idle.seen = NoMember
BY DEF NoMember, NotIssued, Idle, MemberRow, InvitationRow, RequestRow, Roles, Steps

(* A request that moves is the only one that does.                          *)
LEMMA GoesMoves ==
    ASSUME request \in [Requests -> RequestRow], NEW r \in Requests, NEW row \in RequestRow,
           Goes(r, row)
    PROVE  /\ request' \in [Requests -> RequestRow]
           /\ request'[r] = row
           /\ \A u \in Requests \ {r} : request'[u] = request[u]
BY DEF Goes

(* A request that is not moved still fits the rows.                         *)
LEMMA FitsKept ==
    ASSUME MembershipInv, Grows, NEW u \in Requests, request'[u] = request[u]
    PROVE  Fits(u)'
<1>1. Fits(u)
  BY DEF MembershipInv
<1>2. NoShop \notin shops
  BY MembershipAssumption DEF MembershipInv, RowsInv, RowsTyped
<1> QED
  BY <1>1, <1>2 DEF Fits, Grows, Known

(* A request that has ended counts on nothing.                              *)
LEMMA EndedFits ==
    ASSUME NEW u \in Requests, request'[u] = Idle
    PROVE  Fits(u)'
BY BlankRows DEF Fits

(* Unchanged rows grow, trivially.                                          *)
LEMMA SameGrows == OnlyReads => Grows
BY DEF OnlyReads, Grows, Known

(* A step that only reads has to fit its own request to the rows.           *)
LEMMA ReadStep ==
    ASSUME MembershipInv, NEW r \in Requests, NEW row \in RequestRow, Goes(r, row), OnlyReads,
           request'[r] = row => Fits(r)'
    PROVE  MembershipInv'
<1>1. /\ request' \in [Requests -> RequestRow] /\ request'[r] = row
      /\ \A u \in Requests \ {r} : request'[u] = request[u]
  BY GoesMoves DEF MembershipInv
<1>2. \A u \in Requests : Fits(u)'
  BY <1>1, FitsKept, SameGrows
<1>3. RowsInv'
  BY DEF MembershipInv, RowsInv, RowsTyped, EveryShopHasItsOwner, MembersWereInvited,
         MembersFit, InvitationsFit, OnlyReads
<1> QED
  BY <1>1, <1>2, <1>3 DEF MembershipInv

(* A step that writes has to keep the rows together.                        *)
LEMMA WriteStep ==
    ASSUME MembershipInv, NEW r \in Requests, End(r), RowsInv', Grows
    PROVE  MembershipInv'
<1>1. /\ request' \in [Requests -> RequestRow] /\ request'[r] = Idle
      /\ \A u \in Requests \ {r} : request'[u] = request[u]
  BY GoesMoves, BlankRows DEF MembershipInv, End
<1>2. \A u \in Requests : Fits(u)'
  BY <1>1, FitsKept, EndedFits
<1> QED
  BY <1>1, <1>2 DEF MembershipInv

(* An empty platform.                                                       *)
LEMMA InitMembership == Init => MembershipInv
<1> SUFFICES ASSUME Init PROVE MembershipInv
  OBVIOUS
<1>1. RowsInv
  BY BlankRows, MembershipAssumption
  DEF Init, RowsInv, RowsTyped, EveryShopHasItsOwner, MembersWereInvited, MembersFit, InvitationsFit
<1>2. \A r \in Requests : Fits(r)
  BY BlankRows DEF Init, Fits
<1> QED
  BY <1>1, <1>2, BlankRows DEF Init, MembershipInv

-----------------------------------------------------------------------------
(* The steps that read.                                                     *)

(* What an owner's row says.                                                *)
LEMMA OwnerShop ==
    ASSUME MembershipInv, NEW o \in Owners
    PROVE  o \in Identities /\ member[o].shop \in shops /\ member[o].shop \in Shops
BY DEF MembershipInv, RowsInv, RowsTyped, MembersFit, Owners

(* Any identity may sign in.                                                *)
LEMMA SyncInv ==
    ASSUME MembershipInv, NEW r \in Requests, NEW c \in Identities, Sync(r, c)
    PROVE  MembershipInv'
<1> DEFINE row == [Idle EXCEPT !.at = "sync write", !.who = c]
<1>1. row \in RequestRow /\ row.at = "sync write" /\ row.who = c
  BY BlankRows DEF RequestRow, Steps
<1>2. Goes(r, row) /\ OnlyReads
  BY DEF Sync
<1> HIDE DEF row
<1> QED
  BY <1>1, <1>2, ReadStep DEF Fits

(* An owner invites to the owner's shop, which exists.                      *)
LEMMA InviteInv ==
    ASSUME MembershipInv, NEW r \in Requests, NEW o \in Identities, NEW email \in Emails,
           Invite(r, o, email)
    PROVE  MembershipInv'
<1> DEFINE row == [Idle EXCEPT !.at = "invite pending", !.shop = member[o].shop, !.email = email]
<1>1. member[o].shop \in shops /\ member[o].shop \in Shops
  BY OwnerShop DEF Invite
<1>2. row \in RequestRow /\ row.at = "invite pending" /\ row.shop = member[o].shop
  BY <1>1, BlankRows DEF RequestRow, Steps
<1>3. Goes(r, row) /\ OnlyReads
  BY DEF Invite
<1> HIDE DEF row
<1> QED
  BY <1>1, <1>2, <1>3, ReadStep DEF Fits, OnlyReads

(* A request that is given up.                                              *)
LEMMA GivenUp ==
    ASSUME MembershipInv, NEW r \in Requests, End(r), OnlyReads
    PROVE  MembershipInv'
BY BlankRows, ReadStep, EndedFits DEF End

(* The invitation goes on unless one is pending.                            *)
LEMMA InviteReadsPendingInv ==
    ASSUME MembershipInv, NEW r \in Requests, InviteReadsPending(r)
    PROVE  MembershipInv'
<1> DEFINE row == [request[r] EXCEPT !.at = "invite write"]
<1>1. CASE End(r)
  BY <1>1, GivenUp DEF InviteReadsPending
<1>2. CASE Move(r, "invite write")
  <2>1. request[r] \in RequestRow /\ Fits(r) /\ request[r].at = "invite pending"
    BY DEF MembershipInv, InviteReadsPending, At
  <2>2. row \in RequestRow /\ row.at = "invite write" /\ row.shop = request[r].shop
    BY <2>1 DEF RequestRow, Steps
  <2>3. Goes(r, row) /\ OnlyReads
    BY <1>2 DEF Move, InviteReadsPending
  <2> HIDE DEF row
  <2> QED
    BY <2>1, <2>2, <2>3, ReadStep DEF Fits, OnlyReads
<1> QED
  BY <1>1, <1>2 DEF InviteReadsPending

(* Only an invitation that nobody has accepted is read for revocation.      *)
LEMMA RecallInv ==
    ASSUME MembershipInv, NEW r \in Requests, NEW o \in Identities, NEW i \in Invitations,
           Recall(r, o, i)
    PROVE  MembershipInv'
<1> DEFINE row == [Idle EXCEPT !.at = "recall write", !.inv = i, !.paper = invitation[i]]
<1>1. invitation[i] \in InvitationRow /\ invitation[i].acceptedBy = Nobody
  BY DEF MembershipInv, RowsInv, RowsTyped, Recall, Recallable
<1>2. /\ row \in RequestRow /\ row.at = "recall write" /\ row.inv = i
      /\ row.paper = invitation[i]
  BY <1>1, BlankRows DEF RequestRow, Steps
<1>3. Goes(r, row) /\ OnlyReads
  BY DEF Recall
<1> HIDE DEF row
<1> QED
  BY <1>1, <1>2, <1>3, ReadStep DEF Fits, OnlyReads

(* Only a member who is not an owner is read for dismissal.                 *)
LEMMA DismissInv ==
    ASSUME MembershipInv, NEW r \in Requests, NEW o \in Identities, NEW c \in Identities,
           Dismiss(r, o, c)
    PROVE  MembershipInv'
<1> DEFINE row == [Idle EXCEPT !.at = "dismiss write", !.who = c, !.shop = member[o].shop,
                               !.seen = member[c]]
<1>1. member[o].shop \in Shops /\ member[c] \in MemberRow
  BY OwnerShop DEF Dismiss, MembershipInv, RowsInv, RowsTyped
<1>2. /\ row \in RequestRow /\ row.at = "dismiss write" /\ row.who = c
      /\ row.shop = member[o].shop /\ row.seen = member[c]
  BY <1>1, BlankRows DEF RequestRow, Steps
<1>3. Goes(r, row) /\ OnlyReads
  BY DEF Dismiss
<1>4. Known(c) /\ member[c].role # "owner" /\ member[c].shop = member[o].shop
  BY DEF Dismiss, Dismissible
<1> HIDE DEF row
<1> QED
  BY <1>2, <1>3, <1>4, ReadStep DEF Fits, OnlyReads, Known

(* A user without a shop is not an owner.                                   *)
LEMMA JoinableRow ==
    ASSUME MembershipInv, NEW c \in Identities, Joinable(c)
    PROVE  Known(c) /\ member[c].shop = NoShop /\ member[c].role # "owner"
<1>1. NoShop \notin shops
  BY MembershipAssumption DEF MembershipInv, RowsInv, RowsTyped
<1> QED
  BY <1>1 DEF MembershipInv, RowsInv, RowsTyped, Joinable

(* A pending invitation was issued, by a shop that exists.                  *)
LEMMA AcceptInv ==
    ASSUME MembershipInv, NEW r \in Requests, NEW c \in Identities, NEW i \in Invitations,
           Accept(r, c, i)
    PROVE  MembershipInv'
<1> DEFINE row == [Idle EXCEPT !.at = IF Known(c) THEN "accept write" ELSE "accept email",
                               !.who = c, !.inv = i, !.shop = invitation[i].shop,
                               !.seen = member[c]]
<1>1. /\ invitation[i].shop \in shops /\ invitation[i].shop \in Shops
      /\ invitation[i].email = EmailOf[c] /\ member[c] \in MemberRow
  BY DEF Accept, Pending, Unused, MembershipInv, RowsInv, RowsTyped, InvitationsFit
<1>2. /\ row \in RequestRow /\ row.who = c /\ row.inv = i
      /\ row.shop = invitation[i].shop /\ row.seen = member[c]
      /\ row.at = IF Known(c) THEN "accept write" ELSE "accept email"
  BY <1>1, BlankRows DEF RequestRow, Steps
<1>3. Goes(r, row) /\ OnlyReads
  BY DEF Accept
<1>4. Known(c) => member[c].shop = NoShop /\ member[c].role # "owner"
  BY JoinableRow DEF Accept
<1> HIDE DEF row
<1>5. CASE Known(c)
  BY <1>1, <1>2, <1>3, <1>4, <1>5, ReadStep DEF Fits, OnlyReads, Known
<1>6. CASE ~Known(c)
  BY <1>1, <1>2, <1>3, <1>6, ReadStep DEF Fits, OnlyReads
<1> QED
  BY <1>5, <1>6

(* The address is read again: nobody holds it, or this identity does.       *)
LEMMA AcceptReadsEmailInv ==
    ASSUME MembershipInv, NEW r \in Requests, AcceptReadsEmail(r)
    PROVE  MembershipInv'
<1> DEFINE c   == request[r].who
           row == [request[r] EXCEPT !.at = "accept write", !.seen = member[c]]
<1>1. /\ request[r] \in RequestRow /\ request[r].at = "accept email" /\ OnlyReads
      /\ Fits(r)
  BY DEF MembershipInv, AcceptReadsEmail, At
<1>2. /\ c \in Identities /\ request[r].inv \in Invitations /\ request[r].shop \in shops
      /\ invitation[request[r].inv].shop = request[r].shop
      /\ invitation[request[r].inv].email = EmailOf[c]
  BY <1>1 DEF Fits
<1>3. CASE End(r)
  BY <1>1, <1>3, GivenUp
<1>4. CASE Goes(r, row) /\ (HoldersOf(EmailOf[c]) = {} \/ Joinable(c))
  <2>1. member[c] \in MemberRow
    BY <1>2 DEF MembershipInv, RowsInv, RowsTyped
  <2>2. /\ row \in RequestRow /\ row.at = "accept write" /\ row.seen = member[c] /\ row.who = c
        /\ row.shop = request[r].shop /\ row.inv = request[r].inv
    BY <1>1, <2>1 DEF RequestRow, Steps
  <2>3. \/ member[c] = NoMember
        \/ Known(c) /\ member[c].shop = NoShop /\ member[c].role # "owner"
    BY <1>2, <1>4, JoinableRow DEF HoldersOf, Known
  <2>4. Goes(r, row)
    BY <1>4
  <2> HIDE DEF row, c
  <2>5. request'[r] = row => Fits(r)'
    BY <1>1, <1>2, <2>2, <2>3, BlankRows DEF Fits, OnlyReads, Known
  <2> QED
    BY <1>1, <2>2, <2>4, <2>5, ReadStep
<1> QED
  BY <1>3, <1>4 DEF AcceptReadsEmail

(* An administrator is revoked only after others were counted.              *)
LEMMA SetAdminInv ==
    ASSUME MembershipInv, NEW r \in Requests, NEW c \in Identities, NEW grant \in BOOLEAN,
           SetAdmin(r, c, grant)
    PROVE  MembershipInv'
<1> DEFINE others == Cardinality(Admins \ {c})
           row == [Idle EXCEPT !.at = "admin write", !.who = c, !.grant = grant,
                               !.others = IF grant THEN 0 ELSE others]
<1>1. others \in Nat
  <2>1. Admins \ {c} \subseteq Identities
    BY DEF Admins
  <2> QED
    BY <2>1, MembershipAssumption, FS_Subset, FS_CardinalityType
<1>2. /\ Known(c) /\ (~grant => others # 0)
      /\ Goes(r, row) /\ OnlyReads
  BY DEF SetAdmin, LastAdmin
<1> HIDE DEF others
<1>3. /\ row \in RequestRow /\ row.at = "admin write" /\ row.who = c /\ row.grant = grant
      /\ ~grant => row.others = others
  BY <1>1, BlankRows DEF RequestRow, Steps
<1> HIDE DEF row
<1> QED
  BY <1>2, <1>3, ReadStep DEF Fits, OnlyReads, Known

-----------------------------------------------------------------------------
(* The steps that write.                                                    *)

(* The row a write starts from.                                             *)
LEMMA Writer ==
    ASSUME MembershipInv, NEW r \in Requests
    PROVE  request[r] \in RequestRow /\ Fits(r) /\ RowsInv
BY DEF MembershipInv

(* What the known users and the issued invitations are.                     *)
LEMMA UnknownRow ==
    ASSUME RowsInv, NEW c \in Identities
    PROVE  /\ ~Known(c) <=> member[c] = NoMember
           /\ ~Known(c) <=> member[c].role = "none"
BY BlankRows DEF RowsInv, MembersFit, Known

(* A new identity gets a shop nobody belongs to; the loser of a race leaves *)
(* none.                                                                    *)
LEMMA WriteSyncRows ==
    ASSUME MembershipInv, NEW r \in Requests, WriteSync(r)
    PROVE  RowsInv' /\ Grows
<1> DEFINE c == request[r].who
<1>1. c \in Identities /\ RowsInv /\ UNCHANGED invitation
  BY Writer DEF WriteSync, At, Fits
<1>2. PICK s \in Shops \ shops :
         IF InsertConflicts(c)
         THEN shops' = shops /\ UNCHANGED member
         ELSE /\ shops' = shops \cup {s}
              /\ member' = [member EXCEPT ![c] = [shop |-> s, role |-> "owner", admin |-> FALSE]]
  BY DEF WriteSync, ShopRolledBack
<1> HIDE DEF c
<1>3. CASE InsertConflicts(c)
  <2>1. OnlyReads
    BY <1>1, <1>2, <1>3 DEF OnlyReads
  <2> QED
    BY <1>1, <2>1, SameGrows
    DEF RowsInv, RowsTyped, EveryShopHasItsOwner, MembersWereInvited,
        MembersFit, InvitationsFit, OnlyReads
<1>4. CASE ~InsertConflicts(c)
  <2>1. /\ shops' = shops \cup {s}
        /\ member' = [member EXCEPT ![c] = [shop |-> s, role |-> "owner", admin |-> FALSE]]
    BY <1>2, <1>4
  <2>2. ~Known(c)
    BY <1>1, <1>4 DEF InsertConflicts, HoldersOf
  <2>3. member[c].role = "none" /\ member[c].shop = NoShop
    BY <1>1, <2>2, UnknownRow, BlankRows
  <2>4. member \in [Identities -> MemberRow] /\ s \in Shops /\ s \notin shops /\ s # NoShop
    BY <1>1, MembershipAssumption DEF RowsInv, RowsTyped
  <2>5. /\ member'[c].shop = s /\ member'[c].role = "owner"
        /\ \A d \in Identities \ {c} : member'[d] = member[d] /\ member[d].shop # s
    BY <1>1, <2>1, <2>4 DEF RowsInv, MembersFit
  <2>6. RowsTyped'
    <3>1. [shop |-> s, role |-> "owner", admin |-> FALSE] \in MemberRow
      BY <2>4 DEF MemberRow, Roles
    <3>2. member' \in [Identities -> MemberRow]
      BY <1>1, <2>1, <2>4, <3>1
    <3> QED
      BY <1>1, <2>1, <2>4, <2>5, <3>2 DEF RowsInv, RowsTyped
  <2>7. EveryShopHasItsOwner'
    <3> SUFFICES ASSUME NEW t \in shops'
                 PROVE  \E o \in Identities :
                          {d \in Identities : member'[d].role = "owner" /\ member'[d].shop = t} = {o}
      BY DEF EveryShopHasItsOwner
    <3>1. CASE t = s
      BY <1>1, <2>5, <3>1
    <3>2. CASE t # s
      <4>1. PICK o \in Identities :
              {d \in Identities : member[d].role = "owner" /\ member[d].shop = t} = {o}
        BY <1>1, <2>1, <3>2 DEF RowsInv, EveryShopHasItsOwner
      <4>2. {d \in Identities : member'[d].role = "owner" /\ member'[d].shop = t}
              = {d \in Identities : member[d].role = "owner" /\ member[d].shop = t}
        BY <1>1, <2>3, <2>5, <3>2
      <4> QED
        BY <4>1, <4>2
    <3> QED
      BY <3>1, <3>2
  <2>8. MembersWereInvited'
    BY <1>1, <2>5 DEF RowsInv, MembersWereInvited
  <2>9. MembersFit' /\ InvitationsFit'
    BY <1>1, <2>1, <2>5 DEF RowsInv, MembersFit, InvitationsFit
  <2>10. Grows
    BY <1>1, <2>1, <2>2, <2>5 DEF Grows, Known
  <2> QED
    BY <2>6, <2>7, <2>8, <2>9, <2>10 DEF RowsInv
<1> QED
  BY <1>3, <1>4

(* A write that changes only invitations keeps who is a member of what.     *)
LEMMA OnlyInvitations ==
    ASSUME RowsInv, UNCHANGED <<shops, member>>, invitation' \in [Invitations -> InvitationRow],
           \A i \in Invitations :
               /\ invitation'[i].shop \in shops \cup {NoShop}
               /\ invitation'[i].acceptedBy # Nobody => invitation'[i].shop # NoShop
               /\ invitation[i].shop # NoShop =>
                     /\ invitation'[i].shop = invitation[i].shop
                     /\ invitation'[i].email = invitation[i].email
                     /\ invitation'[i].acceptedBy = invitation[i].acceptedBy
    PROVE  RowsInv' /\ Grows
<1>1. RowsTyped' /\ EveryShopHasItsOwner' /\ MembersFit' /\ InvitationsFit'
  BY DEF RowsInv, RowsTyped, EveryShopHasItsOwner, MembersFit, InvitationsFit
<1>2. MembersWereInvited'
  <2> SUFFICES ASSUME NEW c \in Identities, member[c].role = "cashier"
               PROVE  \E i \in Invitations : /\ invitation'[i].acceptedBy = c
                                            /\ invitation'[i].shop = member[c].shop
                                            /\ invitation'[i].email = EmailOf[c]
    BY DEF MembersWereInvited
  <2>1. PICK i \in Invitations : /\ invitation[i].acceptedBy = c
                                 /\ invitation[i].shop = member[c].shop
                                 /\ invitation[i].email = EmailOf[c]
    BY DEF RowsInv, MembersWereInvited
  <2>2. invitation[i].shop # NoShop
    BY <2>1, MembershipAssumption DEF RowsInv, InvitationsFit
  <2> QED
    BY <2>1, <2>2
<1>3. Grows
  BY DEF Grows, Known
<1> QED
  BY <1>1, <1>2, <1>3 DEF RowsInv

(* A new invitation takes a row that was never issued.                      *)
LEMMA WriteInvitationRows ==
    ASSUME MembershipInv, NEW r \in Requests, WriteInvitation(r)
    PROVE  RowsInv' /\ Grows
<1>1. PICK i \in Unused :
         invitation' = [invitation EXCEPT ![i] = [NotIssued EXCEPT !.shop = request[r].shop,
                                                                   !.email = request[r].email]]
  BY DEF WriteInvitation
<1> DEFINE row == [NotIssued EXCEPT !.shop = request[r].shop, !.email = request[r].email]
<1>2. request[r].shop \in shops /\ request[r] \in RequestRow /\ RowsInv
  BY Writer DEF WriteInvitation, At, Fits
<1>3. row \in InvitationRow /\ row.shop = request[r].shop /\ row.acceptedBy = Nobody
  BY <1>2, BlankRows DEF InvitationRow, RequestRow, NotIssued
<1>4. i \in Invitations /\ invitation[i].shop = NoShop
  BY DEF Unused
<1>5. invitation' = [invitation EXCEPT ![i] = row]
  BY <1>1
<1> HIDE DEF row
<1>6. invitation' \in [Invitations -> InvitationRow] /\ invitation'[i] = row
      /\ \A j \in Invitations \ {i} : invitation'[j] = invitation[j]
  BY <1>2, <1>3, <1>4, <1>5 DEF RowsInv, RowsTyped
<1>7. UNCHANGED <<shops, member>>
  BY DEF WriteInvitation
<1>8. \A j \in Invitations :
        /\ invitation[j].shop \in shops \cup {NoShop}
        /\ invitation[j].acceptedBy # Nobody => invitation[j].shop # NoShop
  BY <1>2 DEF RowsInv, InvitationsFit
<1> QED
  BY <1>2, <1>3, <1>4, <1>6, <1>7, <1>8, OnlyInvitations

(* A change of state keeps the shop, the address and the acceptance.        *)
LEMMA StateRows ==
    ASSUME RowsInv, NEW i \in Invitations, NEW state \in {"expired", "revoked"},
           invitation' = [invitation EXCEPT ![i].state = state], UNCHANGED <<shops, member>>
    PROVE  RowsInv' /\ Grows
<1>1. invitation \in [Invitations -> InvitationRow]
  BY DEF RowsInv, RowsTyped
<1>2. /\ invitation' \in [Invitations -> InvitationRow]
      /\ \A j \in Invitations : /\ invitation'[j].shop = invitation[j].shop
                                 /\ invitation'[j].email = invitation[j].email
                                 /\ invitation'[j].acceptedBy = invitation[j].acceptedBy
  BY <1>1 DEF InvitationRow
<1>3. \A j \in Invitations :
        /\ invitation[j].shop \in shops \cup {NoShop}
        /\ invitation[j].acceptedBy # Nobody => invitation[j].shop # NoShop
  BY DEF RowsInv, InvitationsFit
<1> QED
  BY <1>2, <1>3, OnlyInvitations

(* A write to the row of one user who is not and does not become an owner.  *)
LEMMA OneMember ==
    ASSUME RowsInv, NEW c \in Identities, NEW row \in MemberRow,
           member' = [member EXCEPT ![c] = row], shops' = shops,
           invitation' \in [Invitations -> InvitationRow],
           (row.role = "owner") <=> (member[c].role = "owner"),
           row.role = "owner" => row.shop = member[c].shop,
           row.role = "none" => row = NoMember, Known(c) => row # NoMember,
           row.role \in {"owner", "cashier"} <=> row.shop \in shops,
           row.shop \in shops \cup {NoShop},
           row.role = "cashier" =>
               \E i \in Invitations : /\ invitation'[i].acceptedBy = c
                                     /\ invitation'[i].shop = row.shop
                                     /\ invitation'[i].email = EmailOf[c],
           \A i \in Invitations :
               /\ invitation'[i].shop = invitation[i].shop
               /\ invitation'[i].email = invitation[i].email
               /\ invitation[i].acceptedBy # Nobody =>
                     invitation'[i].acceptedBy = invitation[i].acceptedBy
               /\ invitation'[i].acceptedBy # Nobody => invitation[i].shop # NoShop
    PROVE  RowsInv' /\ Grows
<1>1. member \in [Identities -> MemberRow]
  BY DEF RowsInv, RowsTyped
<1>2. /\ member' \in [Identities -> MemberRow] /\ member'[c] = row
      /\ \A d \in Identities \ {c} : member'[d] = member[d]
  BY <1>1
<1>3. RowsTyped'
  BY <1>2 DEF RowsInv, RowsTyped
<1>4. EveryShopHasItsOwner'
  <2>1. \A t : {d \in Identities : member'[d].role = "owner" /\ member'[d].shop = t}
                = {d \in Identities : member[d].role = "owner" /\ member[d].shop = t}
    BY <1>2
  <2> QED
    BY <2>1 DEF RowsInv, EveryShopHasItsOwner
<1>5. MembersWereInvited'
  <2> SUFFICES ASSUME NEW d \in Identities, member'[d].role = "cashier"
               PROVE  \E i \in Invitations : /\ invitation'[i].acceptedBy = d
                                            /\ invitation'[i].shop = member'[d].shop
                                            /\ invitation'[i].email = EmailOf[d]
    BY DEF MembersWereInvited
  <2>1. CASE d = c
    BY <1>2, <2>1
  <2>2. CASE d # c
    <3>1. PICK i \in Invitations : /\ invitation[i].acceptedBy = d
                                   /\ invitation[i].shop = member[d].shop
                                   /\ invitation[i].email = EmailOf[d]
      BY <1>2, <2>2 DEF RowsInv, MembersWereInvited
    <3> QED
      BY <1>2, <2>2, <3>1, MembershipAssumption
  <2> QED
    BY <2>1, <2>2
<1>6. MembersFit' /\ InvitationsFit'
  BY <1>2 DEF RowsInv, MembersFit, InvitationsFit
<1>7. Grows
  BY <1>2 DEF Grows, Known
<1> QED
  BY <1>3, <1>4, <1>5, <1>6, <1>7 DEF RowsInv

(* The dismissed keep their row, without a shop.                            *)
LEMMA WriteDismissalRows ==
    ASSUME MembershipInv, NEW r \in Requests, WriteDismissal(r)
    PROVE  RowsInv' /\ Grows
<1> DEFINE c   == request[r].who
           row == Dismissed(member[c])
<1>1. /\ c \in Identities /\ Known(c) /\ member[c].role # "owner" /\ RowsInv
  BY Writer DEF WriteDismissal, At, Fits
<1>2. member \in [Identities -> MemberRow] /\ member[c] \in MemberRow
  BY <1>1 DEF RowsInv, RowsTyped
<1>3. row \in MemberRow /\ row.shop = NoShop /\ row.role = "staff"
  BY <1>2 DEF Dismissed, MemberRow, Roles
<1>4. member' = [member EXCEPT ![c] = row] /\ UNCHANGED <<shops, invitation>>
  BY <1>2 DEF WriteDismissal
<1>5. NoShop \notin shops
  BY <1>1, MembershipAssumption DEF RowsInv, RowsTyped
<1> HIDE DEF row, c
<1>6. /\ row # NoMember
      /\ invitation' \in [Invitations -> InvitationRow]
      /\ \A i \in Invitations : invitation'[i].acceptedBy # Nobody => invitation[i].shop # NoShop
  BY <1>1, <1>3, <1>4, BlankRows DEF RowsInv, RowsTyped, InvitationsFit
<1> QED
  BY <1>1, <1>3, <1>4, <1>5, <1>6, OneMember

(* Being an administrator has nothing to do with shops.                     *)
LEMMA WriteAdminRows ==
    ASSUME MembershipInv, NEW r \in Requests, WriteAdmin(r)
    PROVE  RowsInv' /\ Grows
<1> DEFINE c   == request[r].who
           row == [member[c] EXCEPT !.admin = request[r].grant]
<1>1. c \in Identities /\ Known(c) /\ RowsInv /\ request[r].grant \in BOOLEAN
  BY Writer DEF WriteAdmin, At, Fits, RequestRow
<1>2. member \in [Identities -> MemberRow] /\ member[c] \in MemberRow
  BY <1>1 DEF RowsInv, RowsTyped
<1>3. row \in MemberRow /\ row.shop = member[c].shop /\ row.role = member[c].role
  BY <1>1, <1>2 DEF MemberRow
<1>4. member' = [member EXCEPT ![c] = row] /\ UNCHANGED <<shops, invitation>>
  BY <1>2 DEF WriteAdmin
<1>5. member[c].role # "none"
  BY <1>1, UnknownRow
<1> HIDE DEF row, c
<1>6. /\ row # NoMember
      /\ invitation' \in [Invitations -> InvitationRow]
      /\ \A i \in Invitations : invitation'[i].acceptedBy # Nobody => invitation[i].shop # NoShop
      /\ row.role \in {"owner", "cashier"} <=> row.shop \in shops
      /\ row.shop \in shops \cup {NoShop}
      /\ row.role = "cashier" =>
            \E i \in Invitations : /\ invitation'[i].acceptedBy = c
                                  /\ invitation'[i].shop = row.shop
                                  /\ invitation'[i].email = EmailOf[c]
  BY <1>1, <1>3, <1>4, <1>5, BlankRows
  DEF RowsInv, RowsTyped, InvitationsFit, MembersFit, MembersWereInvited
<1> QED
  BY <1>1, <1>3, <1>4, <1>5, <1>6, OneMember

(* Whoever joins was invited to the shop and was no owner; the claim takes  *)
(* an invitation nobody has.                                                *)
LEMMA WriteAcceptanceRows ==
    ASSUME MembershipInv, NEW r \in Requests, WriteAcceptance(r)
    PROVE  RowsInv' /\ Grows
<1> DEFINE q == request[r]
           lost == (q.seen = NoMember /\ InsertConflicts(q.who)) \/ ~Claimable(q.inv)
<1>1. /\ q.who \in Identities /\ q.inv \in Invitations /\ q.shop \in shops /\ RowsInv
      /\ invitation[q.inv].shop = q.shop
      /\ invitation[q.inv].email = EmailOf[q.who]
      /\ q.seen # NoMember => Known(q.who) /\ member[q.who].role # "owner"
      /\ UNCHANGED shops
  BY Writer DEF WriteAcceptance, At, Fits
<1>2. CASE lost
  <2>1. OnlyReads
    BY <1>1, <1>2 DEF WriteAcceptance, RolledBack, OnlyReads
  <2> QED
    BY <1>1, <2>1, SameGrows
    DEF RowsInv, RowsTyped, EveryShopHasItsOwner, MembersWereInvited,
        MembersFit, InvitationsFit, OnlyReads
<1>3. CASE ~lost
  <2> DEFINE c   == q.who
             row == [member[c] EXCEPT !.shop = q.shop, !.role = "cashier"]
  <2>1. /\ member' = Joined(q)
        /\ invitation' = [invitation EXCEPT ![q.inv].acceptedBy = c]
        /\ invitation[q.inv].acceptedBy = Nobody
    BY <1>3 DEF WriteAcceptance, Claimable
  <2>2. /\ member \in [Identities -> MemberRow] /\ member[c] \in MemberRow /\ c \in Identities
        /\ invitation \in [Invitations -> InvitationRow] /\ shops \subseteq Shops
        /\ NoShop \notin Shops
    BY <1>1, MembershipAssumption DEF RowsInv, RowsTyped
  <2>3. row \in MemberRow /\ row.shop = q.shop /\ row.role = "cashier"
    BY <1>1, <2>2 DEF MemberRow, Roles
  <2>4. member' = [member EXCEPT ![c] = row]
    BY <2>1, <2>2 DEF Joined
  <2>5. member[c].role # "owner"
    <3>1. CASE q.seen = NoMember
      <4>1. ~Known(c)
        BY <1>3, <2>2, <3>1 DEF InsertConflicts, HoldersOf
      <4> QED
        BY <1>1, <2>2, <4>1, UnknownRow
    <3>2. CASE q.seen # NoMember
      BY <1>1, <3>2
    <3> QED
      BY <3>1, <3>2
  <2>6. /\ invitation' \in [Invitations -> InvitationRow]
        /\ \A i \in Invitations : /\ invitation'[i].shop = invitation[i].shop
                                  /\ invitation'[i].email = invitation[i].email
                                  /\ i # q.inv => invitation'[i].acceptedBy = invitation[i].acceptedBy
        /\ invitation'[q.inv].acceptedBy = c
    BY <1>1, <2>1, <2>2 DEF InvitationRow
  <2>7. \A i \in Invitations :
          /\ invitation[i].acceptedBy # Nobody => invitation'[i].acceptedBy = invitation[i].acceptedBy
          /\ invitation'[i].acceptedBy # Nobody => invitation[i].shop # NoShop
    BY <1>1, <2>1, <2>2, <2>6 DEF RowsInv, InvitationsFit
  <2>8. \E i \in Invitations : /\ invitation'[i].acceptedBy = c
                               /\ invitation'[i].shop = row.shop
                               /\ invitation'[i].email = EmailOf[c]
    BY <1>1, <2>3, <2>6
  <2>9. row # NoMember
    BY <2>3, BlankRows
  <2> HIDE DEF c, row
  <2> QED
    BY <1>1, <2>2, <2>3, <2>4, <2>5, <2>6, <2>7, <2>8, <2>9, OneMember
<1> QED
  BY <1>2, <1>3

(* The steps that write end their request.                                  *)
Writes(r) ==
    \/ WriteSync(r) \/ WriteInvitation(r) \/ WriteRecall(r) \/ WriteDismissal(r)
    \/ WriteAcceptance(r) \/ WriteAdmin(r)

LEMMA WritesEnd ==
    ASSUME MembershipInv, NEW r \in Requests, Writes(r)
    PROVE  /\ End(r) /\ RowsInv' /\ Grows
           /\ request'[r] = Idle
<1>1. End(r)
  BY DEF Writes, WriteSync, WriteInvitation, WriteRecall, WriteDismissal, WriteAcceptance, WriteAdmin
<1>2. request'[r] = Idle
  BY <1>1 DEF End, Goes, MembershipInv
<1>3. CASE WriteRecall(r)
  <2>1. request[r].inv \in Invitations /\ RowsInv
    BY <1>3, Writer DEF WriteRecall, At, Fits
  <2> QED
    BY <1>1, <1>2, <1>3, <2>1, StateRows DEF WriteRecall
<1> QED
  BY <1>1, <1>2, <1>3, WriteSyncRows, WriteInvitationRows, WriteDismissalRows,
     WriteAcceptanceRows, WriteAdminRows DEF Writes

(* A link expires; whatever requests have read of it still fits.            *)
LEMMA ExpireInv ==
    ASSUME MembershipInv, NEW i \in Invitations, Expire(i)
    PROVE  MembershipInv'
<1>1. RowsInv' /\ Grows
  BY StateRows DEF Expire, MembershipInv
<1>2. request' = request
  BY DEF Expire
<1>3. \A u \in Requests : Fits(u)'
  BY <1>1, <1>2, FitsKept
<1> QED
  BY <1>1, <1>2, <1>3 DEF MembershipInv

(* Every step preserves the invariant.                                      *)
LEMMA NextMembership == MembershipInv /\ [Next]_vars => MembershipInv'
<1> SUFFICES ASSUME MembershipInv, [Next]_vars PROVE MembershipInv'
  OBVIOUS
<1>1. ASSUME NEW r \in Requests, Arrive(r) PROVE MembershipInv'
  BY <1>1, SyncInv, InviteInv, RecallInv, DismissInv, AcceptInv, SetAdminInv DEF Arrive
<1>2. ASSUME NEW r \in Requests, Writes(r) PROVE MembershipInv'
  BY <1>2, WritesEnd, WriteStep
<1>3. ASSUME NEW r \in Requests, InviteReadsPending(r) \/ AcceptReadsEmail(r)
      PROVE  MembershipInv'
  BY <1>3, InviteReadsPendingInv, AcceptReadsEmailInv
<1>4. CASE \E i \in Invitations : Expire(i)
  BY <1>4, ExpireInv
<1>5. CASE UNCHANGED vars
  <2>1. request' = request /\ OnlyReads
    BY <1>5 DEF vars, OnlyReads
  <2>2. \A u \in Requests : Fits(u)'
    BY <2>1, FitsKept, SameGrows
  <2> QED
    BY <2>1, <2>2
    DEF MembershipInv, RowsInv, RowsTyped, EveryShopHasItsOwner, MembersWereInvited,
        MembersFit, InvitationsFit, OnlyReads
<1> QED
  BY <1>1, <1>2, <1>3, <1>4, <1>5 DEF Next, Writes

LEMMA MembershipHolds == Spec => []MembershipInv
BY InitMembership, NextMembership, PTL DEF Spec

(* Every shop has exactly one owner, every cashier was invited by this shop *)
(* and claimed the invitation alone, and a role goes with a shop: whatever  *)
(* sign-ins, invitations, accepts, dismissals and grants overlap.           *)
THEOREM MembersBelong == Spec => []EveryMemberBelongs
<1>1. MembershipInv => EveryMemberBelongs
  BY DEF MembershipInv, RowsInv, RowsTyped, EveryMemberBelongs, TypeOK
<1> QED
  BY <1>1, MembershipHolds, PTL

-----------------------------------------------------------------------------
(* What a step may do to an accepted invitation, to the shop of a member    *)
(* and to the last administrator.                                           *)
InvitationStep(i) ==
    invitation[i].acceptedBy # Nobody /\ invitation'[i] # invitation[i] => BecauseOvertaken

ShopStep(c) ==
    member[c].shop # NoShop /\ member'[c].shop # member[c].shop
        => (DismissedBy(c) /\ member'[c].shop = NoShop) \/ BecauseOvertaken

AdminStep == Admins # {} => Admins' # {} \/ BecauseOvertaken

Orderly ==
    /\ \A i \in Invitations : InvitationStep(i)
    /\ \A c \in Identities : ShopStep(c)
    /\ AdminStep

(* A step that leaves users and invitations alone.                          *)
LEMMA QuietStep == UNCHANGED <<member, invitation>> => Orderly
BY DEF Orderly, InvitationStep, ShopStep, AdminStep, Admins

(* A step that leaves the shops of the users and who administrates alone.   *)
LEMMA SameMembers == UNCHANGED member => (\A c \in Identities : ShopStep(c)) /\ AdminStep
BY DEF ShopStep, AdminStep, Admins

(* A new user was no member of any shop.                                    *)
LEMMA WriteSyncOrderly ==
    ASSUME MembershipInv, NEW r \in Requests, WriteSync(r)
    PROVE  Orderly
<1> DEFINE c == request[r].who
<1>1. c \in Identities /\ RowsInv /\ UNCHANGED invitation
  BY Writer DEF WriteSync, At, Fits
<1>2. PICK s \in Shops \ shops :
         IF InsertConflicts(c)
         THEN UNCHANGED member
         ELSE member' = [member EXCEPT ![c] = [shop |-> s, role |-> "owner", admin |-> FALSE]]
  BY DEF WriteSync
<1> HIDE DEF c
<1>3. CASE InsertConflicts(c)
  BY <1>1, <1>2, <1>3, QuietStep
<1>4. CASE ~InsertConflicts(c)
  <2>1. ~Known(c)
    BY <1>1, <1>4 DEF InsertConflicts, HoldersOf
  <2>2. member[c].shop = NoShop /\ ~member[c].admin
    BY <1>1, <2>1, UnknownRow, BlankRows
  <2>3. \A d \in Identities \ {c} : member'[d] = member[d]
    BY <1>1, <1>2, <1>4 DEF RowsInv, RowsTyped
  <2>4. Admins \subseteq Admins'
    BY <2>2, <2>3 DEF Admins
  <2> QED
    BY <1>1, <2>2, <2>3, <2>4 DEF Orderly, InvitationStep, ShopStep, AdminStep
<1> QED
  BY <1>3, <1>4

(* A new invitation has not been accepted before.                           *)
LEMMA WriteInvitationOrderly ==
    ASSUME MembershipInv, NEW r \in Requests, WriteInvitation(r)
    PROVE  Orderly
<1>1. UNCHANGED member /\ RowsInv
  BY Writer DEF WriteInvitation
<1>2. PICK i \in Unused : \A j \in Invitations \ {i} : invitation'[j] = invitation[j]
  BY <1>1 DEF WriteInvitation, RowsInv, RowsTyped, Unused
<1>3. invitation[i].acceptedBy = Nobody
  BY <1>1, <1>2 DEF Unused, RowsInv, InvitationsFit
<1>4. \A j \in Invitations : InvitationStep(j)
  BY <1>2, <1>3 DEF InvitationStep
<1> QED
  BY <1>1, <1>4, SameMembers DEF Orderly

(* A link that has been accepted does not expire.                           *)
LEMMA ExpireOrderly ==
    ASSUME MembershipInv, NEW i \in Invitations, Expire(i)
    PROVE  Orderly
<1>1. UNCHANGED member /\ invitation[i].acceptedBy = Nobody
  BY DEF Expire, Pending
<1>2. \A j \in Invitations \ {i} : invitation'[j] = invitation[j]
  BY DEF Expire, MembershipInv, RowsInv, RowsTyped
<1>3. \A j \in Invitations : InvitationStep(j)
  BY <1>1, <1>2 DEF InvitationStep
<1> QED
  BY <1>1, <1>3, SameMembers DEF Orderly

(* A revocation hits an accepted invitation only when the row has changed   *)
(* since it was read.                                                       *)
LEMMA WriteRecallOrderly ==
    ASSUME MembershipInv, NEW r \in Requests, WriteRecall(r)
    PROVE  Orderly
<1> DEFINE i == request[r].inv
<1>1. /\ UNCHANGED member /\ At(r, "recall write") /\ request'[r] = Idle
      /\ invitation' = [invitation EXCEPT ![i].state = "revoked"]
  BY WritesEnd DEF Writes, WriteRecall
<1>2. i \in Invitations /\ request[r].paper.acceptedBy = Nobody /\ RowsInv
  BY <1>1, Writer DEF At, Fits
<1>3. \A j \in Invitations \ {i} : invitation'[j] = invitation[j]
  BY <1>1, <1>2 DEF RowsInv, RowsTyped
<1>4. ASSUME invitation[i].acceptedBy # Nobody PROVE BecauseOvertaken
  BY <1>1, <1>2, <1>4 DEF BecauseOvertaken, Overtaken
<1> HIDE DEF i
<1>5. \A j \in Invitations : InvitationStep(j)
  BY <1>3, <1>4 DEF InvitationStep
<1> QED
  BY <1>1, <1>5, SameMembers DEF Orderly

(* A dismissal takes a member out of the shop it was read in, or the member *)
(* has moved since.                                                         *)
LEMMA WriteDismissalOrderly ==
    ASSUME MembershipInv, NEW r \in Requests, WriteDismissal(r)
    PROVE  Orderly
<1> DEFINE c == request[r].who
<1>1. /\ UNCHANGED invitation /\ At(r, "dismiss write") /\ request'[r] = Idle
      /\ member' = [member EXCEPT ![c] = Dismissed(@)]
  BY WritesEnd DEF Writes, WriteDismissal
<1>2. c \in Identities /\ request[r].seen.shop = request[r].shop /\ RowsInv
  BY <1>1, Writer DEF At, Fits
<1>3. /\ \A d \in Identities \ {c} : member'[d] = member[d]
      /\ member'[c].shop = NoShop /\ member'[c].admin = member[c].admin
  BY <1>1, <1>2 DEF RowsInv, RowsTyped, Dismissed, MemberRow
<1>4. DismissedBy(c) \/ BecauseOvertaken
  BY <1>1, <1>2 DEF DismissedBy, BecauseOvertaken, Overtaken
<1> HIDE DEF c
<1>5. \A d \in Identities : ShopStep(d)
  BY <1>3, <1>4 DEF ShopStep
<1>6. Admins' = Admins
  BY <1>3 DEF Admins
<1> QED
  BY <1>1, <1>5, <1>6 DEF Orderly, InvitationStep, AdminStep

(* Whoever joins had no shop when read; a claim takes what nobody has.      *)
LEMMA WriteAcceptanceOrderly ==
    ASSUME MembershipInv, NEW r \in Requests, WriteAcceptance(r)
    PROVE  Orderly
<1> DEFINE q == request[r]
           lost == (q.seen = NoMember /\ InsertConflicts(q.who)) \/ ~Claimable(q.inv)
<1>1. /\ q.who \in Identities /\ q.inv \in Invitations /\ RowsInv
      /\ q.seen.shop = NoShop /\ request'[r] = Idle /\ At(r, "accept write")
  BY Writer, WritesEnd DEF Writes, WriteAcceptance, At, Fits
<1>2. CASE lost
  BY <1>2, QuietStep DEF WriteAcceptance, RolledBack
<1>3. CASE ~lost
  <2>1. /\ member' = Joined(q)
        /\ invitation' = [invitation EXCEPT ![q.inv].acceptedBy = q.who]
        /\ invitation[q.inv].acceptedBy = Nobody
    BY <1>3 DEF WriteAcceptance, Claimable
  <2>2. \A j \in Invitations \ {q.inv} : invitation'[j] = invitation[j]
    BY <1>1, <2>1 DEF RowsInv, RowsTyped
  <2>3. /\ \A d \in Identities \ {q.who} : member'[d] = member[d]
        /\ member'[q.who].admin = member[q.who].admin
    BY <1>1, <2>1 DEF RowsInv, RowsTyped, Joined, MemberRow
  <2>4. ASSUME member[q.who].shop # NoShop PROVE BecauseOvertaken
    BY <1>1, <2>4 DEF BecauseOvertaken, Overtaken
  <2> HIDE DEF q
  <2>5. \A j \in Invitations : InvitationStep(j)
    BY <2>1, <2>2 DEF InvitationStep
  <2>6. \A d \in Identities : ShopStep(d)
    BY <2>3, <2>4 DEF ShopStep
  <2>7. Admins' = Admins
    BY <2>3 DEF Admins
  <2> QED
    BY <2>5, <2>6, <2>7 DEF Orderly, AdminStep
<1> QED
  BY <1>2, <1>3

(* A revocation that counted other administrators leaves one, unless the    *)
(* count is out of date.                                                    *)
LEMMA WriteAdminOrderly ==
    ASSUME MembershipInv, NEW r \in Requests, WriteAdmin(r)
    PROVE  Orderly
<1> DEFINE c == request[r].who
<1>1. /\ UNCHANGED invitation /\ At(r, "admin write") /\ request'[r] = Idle
      /\ member' = [member EXCEPT ![c].admin = request[r].grant]
  BY WritesEnd DEF Writes, WriteAdmin
<1>2. /\ c \in Identities /\ RowsInv /\ (~request[r].grant => request[r].others # 0)
  BY <1>1, Writer DEF At, Fits
<1>3. /\ \A d \in Identities \ {c} : member'[d] = member[d]
      /\ member'[c].shop = member[c].shop /\ member'[c].admin = request[r].grant
  BY <1>1, <1>2 DEF RowsInv, RowsTyped, MemberRow
<1>4. \A d \in Identities : ShopStep(d)
  BY <1>3 DEF ShopStep
<1>5. AdminStep
  <2>1. CASE request[r].grant
    BY <1>2, <1>3, <2>1 DEF AdminStep, Admins
  <2>2. CASE ~request[r].grant
    <3>1. CASE request[r].others # Cardinality(Admins \ {c})
      BY <1>1, <2>2, <3>1 DEF AdminStep, BecauseOvertaken, Overtaken
    <3>2. CASE request[r].others = Cardinality(Admins \ {c})
      <4>1. Admins \ {c} # {}
        BY <1>2, <2>2, <3>2, FS_EmptySet
      <4>2. Admins \ {c} \subseteq Admins'
        BY <1>3 DEF Admins
      <4> QED
        BY <4>1, <4>2 DEF AdminStep
    <3> QED
      BY <3>1, <3>2
  <2> QED
    BY <2>1, <2>2
<1> QED
  BY <1>1, <1>4, <1>5 DEF Orderly, InvitationStep

(* Every step is orderly.                                                   *)
LEMMA NextOrderly ==
    ASSUME MembershipInv, [Next]_vars
    PROVE  Orderly
<1>1. ASSUME NEW r \in Requests, Arrive(r) \/ InviteReadsPending(r) \/ AcceptReadsEmail(r)
      PROVE  Orderly
  BY <1>1, QuietStep
  DEF Arrive, Sync, Invite, Recall, Dismiss, Accept, SetAdmin, InviteReadsPending,
      AcceptReadsEmail, OnlyReads
<1>2. ASSUME NEW r \in Requests, Writes(r) PROVE Orderly
  BY <1>2, WriteSyncOrderly, WriteInvitationOrderly, WriteRecallOrderly,
     WriteDismissalOrderly, WriteAcceptanceOrderly, WriteAdminOrderly DEF Writes
<1>3. CASE \E i \in Invitations : Expire(i)
  BY <1>3, ExpireOrderly
<1>4. CASE UNCHANGED vars
  BY <1>4, QuietStep DEF vars
<1> QED
  BY <1>1, <1>2, <1>3, <1>4 DEF Next, Writes

(* An accepted invitation never changes again, unless by a revocation that  *)
(* read the row before the acceptance committed.                            *)
THEOREM AcceptedStaysFinal == Spec => AcceptedIsFinal
<1>1. MembershipInv /\ [Next]_vars
        => [\A i \in Invitations :
              invitation[i].acceptedBy # Nobody /\ invitation'[i] # invitation[i]
                  => BecauseOvertaken]_vars
  BY NextOrderly DEF Orderly, InvitationStep
<1> QED
  BY <1>1, MembershipHolds, PTL DEF Spec, AcceptedIsFinal

(* A member leaves a shop only by a dismissal in that shop, and is never    *)
(* moved to another one, unless the request that did it was overtaken.      *)
THEOREM NobodyIsMoved == Spec => MembersStayPut
<1>1. MembershipInv /\ [Next]_vars
        => [\A c \in Identities :
              member[c].shop # NoShop /\ member'[c].shop # member[c].shop
                  => (DismissedBy(c) /\ member'[c].shop = NoShop) \/ BecauseOvertaken]_vars
  BY NextOrderly DEF Orderly, ShopStep
<1> QED
  BY <1>1, MembershipHolds, PTL DEF Spec, MembersStayPut

(* A platform with an administrator keeps one, unless two revocations       *)
(* counted each other.                                                      *)
THEOREM OneAdminRemains == Spec => AdminsRemain
<1>1. MembershipInv /\ [Next]_vars => [Admins # {} => Admins' # {} \/ BecauseOvertaken]_vars
  BY NextOrderly DEF Orderly, AdminStep
<1> QED
  BY <1>1, MembershipHolds, PTL DEF Spec, AdminsRemain
=============================================================================
