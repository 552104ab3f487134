--------------------------- MODULE AccountsProofs ---------------------------
(* Proofs about Accounts, for any number of accounts, invites and requests  *)
(* in flight.                                                               *)
EXTENDS Accounts, TLAPS

\* What a request needs at its next step it has in hand; one that changes an
\* account was made by an administrator, for the account of somebody else.
SomeBorn  == \E u \in Users : users[u].life # "unborn"
Switching == {"disable", "enable", "delete"}
Armed ==
    \A c \in Clients :
        /\ req[c].pc \in {"hash", "register"} => req[c].invite \in Invites /\ SomeBorn
        /\ req[c].op = "uninvite" => req[c].invite \in Invites
        /\ req[c].op = "work" => req[c].user \in Users
        /\ req[c].op \in Switching =>
             /\ req[c].user \in Users /\ req[c].actor \in Users \ {req[c].user}
             /\ users[req[c].actor].role = "admin"

Typed == TypeOK /\ Armed

\* An account that is not given yet is nobody's, and a role is given with it.
UnbornIsBlank ==
    \A u \in Users : users[u].life = "unborn" => users[u].role = "user" /\ users[u].by = None

\* Only the setup makes an administrator, and it finds no account at all.
OneAdmin ==
    \A u, v \in Users : users[u].role = "admin" /\ users[v].role = "admin" => u = v

\* The invite of an account says so.
UsedByItsUser ==
    \A u \in Users : users[u].by # None => invites[users[u].by].used = u

IInv == Typed /\ UnbornIsBlank /\ OneAdmin /\ AdminRemains /\ UsedByItsUser /\ ClaimsAreTrue

-----------------------------------------------------------------------------
(* The accounts that may change in one step. *)

\* A step that leaves the accounts, the invites and the tokens alone.
Aside == UNCHANGED <<users, invites, tokens>>

LEMMA InitOK == Init => IInv
BY NoneAssumption DEF Init, IInv, Typed, TypeOK, Armed, SomeBorn, Switching, Account, Invite, Claims, Request,
   NoReq, UnbornIsBlank, OneAdmin, AdminRemains, ActiveAdmins, Live, UsedByItsUser, ClaimsAreTrue

\* Steps that change what requests have in hand, and at most the rows.
LEMMA AsideOK ==
    ASSUME IInv, Aside, Typed'
    PROVE  IInv'
BY DEF IInv, Aside, UnbornIsBlank, OneAdmin, AdminRemains, ActiveAdmins, Live, UsedByItsUser,
   ClaimsAreTrue

LEMMA TypedAside ==
    ASSUME Typed, Aside, rows' = rows, NEW c \in Clients,
           NEW q \in Request, req' = [req EXCEPT ![c] = q],
           q.pc \in {"hash", "register"} => q.invite \in Invites /\ SomeBorn,
           q.op = "uninvite" => q.invite \in Invites,
           q.op = "work" => q.user \in Users,
           q.op \in Switching =>
             /\ q.user \in Users /\ q.actor \in Users \ {q.user}
             /\ users[q.actor].role = "admin"
    PROVE  Typed'
BY DEF Typed, TypeOK, Armed, Aside, SomeBorn

LEMMA NoReqTyped == NoReq \in Request /\ NoReq.op = "none" /\ NoReq.pc = "idle"
BY DEF NoReq, Request

\* A request goes on or ends without having written anything.
LEMMA QuietSteps ==
    ASSUME IInv, NEW c \in Clients,
           \/ SetupBegins(c) \/ RegisterBegins(c) \/ RegisterHashes(c)
           \/ SetActiveBegins(c) \/ DeleteBegins(c) \/ FindToSwitch(c) \/ FindToDelete(c)
           \/ InviteBegins(c) \/ UninviteBegins(c) \/ FindInvite(c)
           \/ WorkBegins(c) \/ RequestFails(c)
    PROVE  IInv'
<1>1. Typed /\ TypeOK /\ Armed /\ req[c] \in Request BY DEF IInv, Typed, TypeOK
<1>2. SUFFICES Aside /\ Typed' BY AsideOK
<1>. USE NoReqTyped
<1>3. ASSUME UNCHANGED <<users, invites, tokens, rows>>, Done(c) PROVE Aside /\ Typed'
  BY <1>1, <1>3, TypedAside DEF Done, Aside, Switching
<1>4. ASSUME UNCHANGED <<users, invites, tokens, rows>>,
             NEW pc \in {"setup", "hash", "register", "enter", "write"}, Goes(c, pc),
             pc \notin {"hash", "register"}
      PROVE  Aside /\ Typed'
  <2>. DEFINE q == [req[c] EXCEPT !.pc = pc]
  <2>1. q \in Request /\ q.pc = pc BY <1>1 DEF Request
  <2>2. q.op = req[c].op /\ q.user = req[c].user /\ q.actor = req[c].actor /\ q.invite = req[c].invite
    BY <1>1 DEF Request
  <2>3. req' = [req EXCEPT ![c] = q] BY <1>4 DEF Goes
  <2>4. Aside BY <1>4 DEF Aside
  <2>. HIDE DEF q
  <2>. QED BY <1>1, <1>4, <2>1, <2>2, <2>3, <2>4, TypedAside DEF Armed
<1>5. CASE SetupBegins(c) BY <1>4, <1>5 DEF SetupBegins
<1>6. CASE RegisterBegins(c)
  <2>1. PICK i \in Invites :
          req' = [req EXCEPT ![c] = [NoReq EXCEPT !.pc = "hash", !.invite = i]]
    BY <1>6 DEF RegisterBegins
  <2>. DEFINE q == [NoReq EXCEPT !.pc = "hash", !.invite = i]
  <2>2. q \in Request /\ q.op = "none" /\ q.invite = i BY DEF Request, NoReq
  <2>3. Aside /\ rows' = rows /\ SomeBorn
    BY <1>6 DEF RegisterBegins, Aside, HasUsers, Live, SomeBorn
  <2>. QED BY <1>1, <2>1, <2>2, <2>3, TypedAside DEF Switching
<1>7. CASE RegisterHashes(c)
  <2>. DEFINE q == [req[c] EXCEPT !.pc = "register", !.late = invites[req[c].invite].expired]
  <2>1. req[c].invite \in Invites /\ SomeBorn BY <1>1, <1>7 DEF RegisterHashes, At, Armed
  <2>2. invites[req[c].invite].expired \in BOOLEAN BY <1>1, <2>1 DEF TypeOK, Invite
  <2>3. q \in Request BY <1>1, <2>2 DEF Request
  <2>4. q.op = req[c].op /\ q.user = req[c].user /\ q.actor = req[c].actor /\ q.invite = req[c].invite
    BY <1>1 DEF Request
  <2>5. req' = [req EXCEPT ![c] = q] BY <1>7, <1>1 DEF RegisterHashes, TypeOK, Request
  <2>6. Aside /\ rows' = rows BY <1>7 DEF RegisterHashes, Aside
  <2>. HIDE DEF q
  <2>. QED BY <1>1, <2>1, <2>3, <2>4, <2>5, <2>6, TypedAside DEF Armed
<1>8. ASSUME NEW ops \in SUBSET Switching, AdminRequest(c, ops) PROVE Aside /\ Typed'
  <2>1. PICK t \in tokens, op \in ops, u \in Users :
          /\ t.role = "admin" /\ t.user # u
          /\ req' = [req EXCEPT ![c] =
               [NoReq EXCEPT !.pc = "enter", !.op = op, !.actor = t.user, !.user = u]]
    BY <1>8 DEF AdminRequest, RequireAdmin
  <2>2. t.user \in Users /\ users[t.user].role = "admin"
    BY <1>1, <2>1 DEF IInv, ClaimsAreTrue, TypeOK, Claims
  <2>. DEFINE q == [NoReq EXCEPT !.pc = "enter", !.op = op, !.actor = t.user, !.user = u]
  <2>3. /\ q \in Request /\ q.pc = "enter" /\ q.op \in Switching
        /\ q.user = u /\ q.actor = t.user
    BY <2>2 DEF Request, NoReq, Switching, AdminOps
  <2>4. Aside /\ rows' = rows BY <1>8 DEF AdminRequest, Aside
  <2>5. req' = [req EXCEPT ![c] = q] BY <2>1
  <2>6. q.op # "uninvite" /\ q.op # "work" BY <2>3 DEF Switching
  <2>. HIDE DEF q
  <2>. QED BY <1>1, <2>1, <2>2, <2>3, <2>4, <2>5, <2>6, TypedAside
<1>9. CASE SetActiveBegins(c) BY <1>8, <1>9 DEF SetActiveBegins, Switching
<1>10. CASE DeleteBegins(c) BY <1>8, <1>10 DEF DeleteBegins, Switching
<1>11. CASE FindToSwitch(c) BY <1>3, <1>4, <1>11 DEF FindToSwitch, FindTarget
<1>12. CASE FindToDelete(c) BY <1>3, <1>4, <1>12 DEF FindToDelete, FindTarget
<1>13. CASE InviteBegins(c)
  <2>1. PICK t \in tokens :
          req' = [req EXCEPT ![c] = [NoReq EXCEPT !.pc = "enter", !.op = "invite", !.actor = t.user]]
    BY <1>13 DEF InviteBegins
  <2>. DEFINE q == [NoReq EXCEPT !.pc = "enter", !.op = "invite", !.actor = t.user]
  <2>2. q \in Request /\ q.pc = "enter" /\ q.op = "invite"
    BY <1>1 DEF Request, NoReq, AdminOps, TypeOK, Claims
  <2>3. Aside /\ rows' = rows BY <1>13 DEF InviteBegins, Aside
  <2>. QED BY <1>1, <2>1, <2>2, <2>3, TypedAside DEF Switching
<1>14. CASE UninviteBegins(c)
  <2>1. PICK t \in tokens, i \in Invites :
          req' = [req EXCEPT ![c] = [NoReq EXCEPT !.pc = "enter", !.op = "uninvite",
                                                 !.actor = t.user, !.invite = i]]
    BY <1>14 DEF UninviteBegins
  <2>. DEFINE q == [NoReq EXCEPT !.pc = "enter", !.op = "uninvite", !.actor = t.user, !.invite = i]
  <2>2. q \in Request /\ q.pc = "enter" /\ q.op = "uninvite" /\ q.invite = i
    BY <1>1 DEF Request, NoReq, AdminOps, TypeOK, Claims
  <2>3. Aside /\ rows' = rows BY <1>14 DEF UninviteBegins, Aside
  <2>. QED BY <1>1, <2>1, <2>2, <2>3, TypedAside DEF Switching
<1>15. CASE FindInvite(c) BY <1>3, <1>4, <1>15 DEF FindInvite
<1>16. CASE WorkBegins(c)
  <2>1. PICK t \in tokens, u \in Users :
          req' = [req EXCEPT ![c] = [NoReq EXCEPT !.pc = "write", !.op = "work",
                                                 !.actor = t.user, !.user = u]]
    BY <1>16 DEF WorkBegins
  <2>. DEFINE q == [NoReq EXCEPT !.pc = "write", !.op = "work", !.actor = t.user, !.user = u]
  <2>2. q \in Request /\ q.pc = "write" /\ q.op = "work" /\ q.user = u
    BY <1>1 DEF Request, NoReq, TypeOK, Claims
  <2>3. Aside /\ rows' = rows BY <1>16 DEF WorkBegins, Aside
  <2>. QED BY <1>1, <2>1, <2>2, <2>3, TypedAside DEF Switching
<1>17. CASE RequestFails(c) BY <1>3, <1>17 DEF RequestFails
<1>. QED BY <1>5, <1>6, <1>7, <1>9, <1>10, <1>11, <1>12, <1>13, <1>14, <1>15, <1>16, <1>17

-----------------------------------------------------------------------------
(* The steps that write. *)

\* A new account is not one there was, and nobody but the setup makes an
\* administrator, where there was none.
LEMMA CreationOK ==
    ASSUME IInv, NEW c \in Clients, NEW u \in Users, users[u].life = "unborn",
           NEW role \in {"admin", "user"}, NEW i \in Invites \cup {None},
           Created(u, role, i), Done(c), rows' = rows,
           invites' = [invites EXCEPT ![i].used = u] \/ (i = None /\ invites' = invites),
           i # None => invites[i].used = None,
           role = "admin" => \A v \in Users : users[v].life = "unborn",
           role = "user" => SomeBorn
    PROVE  IInv'
<1>. DEFINE new == [life |-> "live", role |-> role, active |-> TRUE, by |-> i]
<1>1. new \in Account BY DEF Account
<1>2. /\ users' = [users EXCEPT ![u] = new]
      /\ tokens' = tokens \cup {[user |-> u, role |-> role]}
      /\ req' = [req EXCEPT ![c] = NoReq]
  BY DEF Created, Done
<1>3. Typed /\ TypeOK /\ Armed BY DEF IInv, Typed
<1>4. TypeOK'
  <2>1. users' \in [Users -> Account] BY <1>1, <1>2, <1>3 DEF TypeOK
  <2>2. invites' \in [Invites -> Invite] BY <1>3 DEF TypeOK, Invite
  <2>3. tokens' \subseteq Claims BY <1>2, <1>3 DEF TypeOK, Claims
  <2>4. req' \in [Clients -> Request] BY <1>2, <1>3, NoReqTyped DEF TypeOK
  <2>. QED BY <2>1, <2>2, <2>3, <2>4, <1>3 DEF TypeOK
<1>5. \A v \in Users : v # u => users'[v] = users[v] BY <1>2, <1>3 DEF TypeOK
<1>6. users'[u] = new BY <1>2, <1>3 DEF TypeOK
<1>. HIDE DEF new
<1>7. new.life = "live" /\ new.role = role /\ new.active /\ new.by = i BY DEF new
<1>8. Armed'
  <2>1. \A b \in Clients : req'[b] = req[b] \/ req'[b] = NoReq BY <1>2, <1>3 DEF TypeOK
  <2>2. users[u].role = "user" BY DEF IInv, UnbornIsBlank
  <2>. QED BY <1>3, <1>5, <1>6, <1>7, <2>1, <2>2, NoReqTyped DEF Armed, Switching, SomeBorn
<1>9. UnbornIsBlank' BY <1>5, <1>6, <1>7 DEF IInv, UnbornIsBlank
<1>10. OneAdmin'
  <2>1. CASE role = "admin"
    <3>1. \A v \in Users : v # u => users'[v].role = "user"
      BY <1>5, <2>1 DEF IInv, UnbornIsBlank
    <3>. QED BY <3>1 DEF OneAdmin
  <2>2. CASE role = "user"
    BY <1>5, <1>6, <1>7, <2>2 DEF IInv, OneAdmin
  <2>. QED BY <2>1, <2>2
<1>11. AdminRemains'
  <2>1. CASE role = "admin" BY <1>6, <1>7, <2>1 DEF AdminRemains, ActiveAdmins, Live
  <2>2. CASE role = "user"
    <3>1. PICK a \in Users : users[a].life = "live" /\ users[a].role = "admin" /\ users[a].active
      BY <2>2 DEF IInv, AdminRemains, ActiveAdmins, Live, SomeBorn
    <3>2. a # u BY <3>1
    <3>. QED BY <1>5, <3>1, <3>2 DEF AdminRemains, ActiveAdmins, Live
  <2>. QED BY <2>1, <2>2
<1>12. UsedByItsUser'
  <2>1. CASE i = None
    <3>1. invites' = invites BY <2>1, <1>3, NoneAssumption DEF TypeOK
    <3>. QED BY <1>5, <1>6, <1>7, <2>1, <3>1 DEF IInv, UsedByItsUser
  <2>2. CASE i # None
    <3>1. invites'[i].used = u BY <1>3, <2>2 DEF TypeOK, Invite
    <3>2. \A j \in Invites : j # i => invites'[j] = invites[j] BY <1>3, <2>2 DEF TypeOK
    <3>3. ASSUME NEW v \in Users, v # u, users[v].by # None
          PROVE  users[v].by \in Invites /\ invites'[users[v].by].used = v
      <4>1. users[v].by \in Invites BY <1>3, <3>3 DEF TypeOK, Account
      <4>2. invites[users[v].by].used = v BY <3>3 DEF IInv, UsedByItsUser
      <4>3. v # None BY NoneAssumption
      <4>4. users[v].by # i BY <4>2, <4>3, <2>2
      <4>. QED BY <3>2, <4>1, <4>2, <4>4
    <3>. QED BY <1>5, <1>6, <1>7, <3>1, <3>3 DEF UsedByItsUser
  <2>. QED BY <2>1, <2>2
<1>13. ClaimsAreTrue'
  <2>1. \A t \in tokens : t.user \in Users /\ t.user # u
    BY <1>3 DEF IInv, ClaimsAreTrue, TypeOK, Claims
  <2>2. \A t \in tokens' : t \in tokens \/ (t.user = u /\ t.role = role) BY <1>2
  <2>. QED BY <1>5, <1>6, <1>7, <2>1, <2>2 DEF IInv, ClaimsAreTrue
<1>. QED BY <1>4, <1>8, <1>9, <1>10, <1>11, <1>12, <1>13 DEF IInv, Typed

LEMMA SetupOK ==
    ASSUME IInv, NEW c \in Clients, CreateInitialAdmin(c)
    PROVE  IInv'
<1>1. CASE ~HasUsers /\ \E u \in Users : users[u].life = "unborn" /\ Created(u, "admin", None)
  <2>1. \A v \in Users : users[v].life = "unborn"
    BY <1>1 DEF HasUsers, IInv, AdminRemains, ActiveAdmins
  <2>. QED BY <1>1, <2>1, CreationOK DEF CreateInitialAdmin
<1>2. CASE UNCHANGED <<users, tokens>>
  <2>1. Done(c) /\ UNCHANGED <<users, invites, tokens, rows>> BY <1>2 DEF CreateInitialAdmin
  <2>2. Typed' BY <2>1, TypedAside, NoReqTyped DEF IInv, Done, Aside, Switching
  <2>. QED BY <2>1, <2>2, AsideOK DEF Aside
<1>. QED BY <1>1, <1>2 DEF CreateInitialAdmin

LEMMA RegistrationOK ==
    ASSUME IInv, NEW c \in Clients, RegisterWithInvite(c)
    PROVE  IInv'
<1>. DEFINE i == req[c].invite
<1>1. i \in Invites /\ SomeBorn BY DEF RegisterWithInvite, At, IInv, Typed, Armed
<1>. HIDE DEF i
<1>2. ASSUME invites[i].used = None,
             NEW u \in Users, users[u].life = "unborn", Created(u, "user", i),
             invites' = [invites EXCEPT ![i].used = u]
      PROVE  IInv'
  BY <1>1, <1>2, CreationOK DEF RegisterWithInvite
<1>3. ASSUME UNCHANGED <<users, tokens, invites>> PROVE IInv'
  <2>1. Done(c) /\ UNCHANGED <<users, invites, tokens, rows>> BY <1>3 DEF RegisterWithInvite
  <2>2. Typed' BY <2>1, TypedAside, NoReqTyped DEF IInv, Done, Aside, Switching
  <2>. QED BY <2>1, <2>2, AsideOK DEF Aside
<1>. QED BY <1>2, <1>3 DEF RegisterWithInvite, i

\* The account that is disabled or deleted is not the administrator's.
LEMMA SwitchOK ==
    ASSUME IInv, NEW c \in Clients, SetUserActive(c) \/ DeleteUser(c)
    PROVE  IInv'
<1>. DEFINE u == req[c].user
<1>1. Typed /\ TypeOK /\ Armed BY DEF IInv, Typed
<1>2. req[c].op \in Switching BY DEF SetUserActive, DeleteUser, Switching
<1>3. u \in Users /\ users[u].role = "user"
  BY <1>1, <1>2 DEF Armed, IInv, OneAdmin, TypeOK, Account
<1>4. \/ users' = users
      \/ users[u].life = "live" /\ \E b \in BOOLEAN : users' = [users EXCEPT ![u].active = b]
      \/ users[u].life = "live" /\ users' = [users EXCEPT ![u].life = "gone"]
  BY DEF SetUserActive, DeleteUser, Live
<1>. HIDE DEF u
<1>5. users' \in [Users -> Account] BY <1>1, <1>3, <1>4 DEF TypeOK, Account
<1>6. \A v \in Users :
        /\ users'[v].role = users[v].role /\ users'[v].by = users[v].by
        /\ users'[v].life = "unborn" <=> users[v].life = "unborn"
        /\ v # u => users'[v] = users[v]
  BY <1>1, <1>3, <1>4 DEF TypeOK, Account
<1>7. /\ invites' = invites /\ tokens' = tokens
      /\ rows' \subseteq rows /\ req' = [req EXCEPT ![c] = NoReq]
  BY DEF SetUserActive, DeleteUser, Done
<1>8. TypeOK' BY <1>1, <1>5, <1>7, NoReqTyped DEF TypeOK
<1>9. Armed'
  <2>1. \A b \in Clients : req'[b] = req[b] \/ req'[b] = NoReq BY <1>1, <1>7 DEF TypeOK
  <2>. QED BY <1>1, <1>6, <2>1, NoReqTyped DEF Armed, Switching, SomeBorn
<1>10. AdminRemains'
  <2>1. ASSUME SomeBorn PROVE ActiveAdmins' # {}
    <3>1. PICK a \in Users : users[a].life = "live" /\ users[a].role = "admin" /\ users[a].active
      BY <2>1 DEF SomeBorn, IInv, AdminRemains, ActiveAdmins, Live
    <3>2. users'[a] = users[a] BY <1>3, <1>6, <3>1
    <3>. QED BY <3>1, <3>2 DEF ActiveAdmins, Live
  <2>. QED BY <1>6, <2>1 DEF AdminRemains, SomeBorn
<1>11. UsedByItsUser' BY <1>6, <1>7 DEF IInv, UsedByItsUser
<1>12. UnbornIsBlank' /\ OneAdmin' BY <1>6 DEF IInv, UnbornIsBlank, OneAdmin
<1>13. ClaimsAreTrue' BY <1>1, <1>6, <1>7 DEF IInv, ClaimsAreTrue, TypeOK, Claims
<1>. QED BY <1>8, <1>9, <1>10, <1>11, <1>12, <1>13 DEF IInv, Typed

\* Nothing else changes what an invite was used for.
LEMMA InvitesOK ==
    ASSUME IInv, UNCHANGED <<users, tokens, rows>>, TypeOK', Armed',
           \A i \in Invites : invites'[i].used = invites[i].used
    PROVE  IInv'
<1>1. UsedByItsUser' BY DEF IInv, Typed, TypeOK, Account, UsedByItsUser
<1>. QED BY <1>1 DEF IInv, Typed, UnbornIsBlank, OneAdmin, AdminRemains, ActiveAdmins, Live, ClaimsAreTrue

LEMMA InviteWritesOK ==
    ASSUME IInv, NEW c \in Clients, CreateInvite(c) \/ DeleteInvite(c)
    PROVE  IInv'
<1>1. Typed /\ TypeOK /\ Armed BY DEF IInv, Typed
<1>2. /\ UNCHANGED <<users, tokens, rows>> /\ req' = [req EXCEPT ![c] = NoReq]
      /\ \E i \in Invites, life \in {"live", "gone"} : invites' = [invites EXCEPT ![i].life = life]
  BY <1>1 DEF CreateInvite, DeleteInvite, Done, Armed
<1>3. invites' \in [Invites -> Invite] /\ \A i \in Invites : invites'[i].used = invites[i].used
  BY <1>1, <1>2 DEF TypeOK, Invite
<1>4. TypeOK' BY <1>1, <1>2, <1>3, NoReqTyped DEF TypeOK
<1>5. \A b \in Clients : req'[b] = req[b] \/ req'[b] = NoReq BY <1>1, <1>2 DEF TypeOK
<1>6. Armed' BY <1>1, <1>2, <1>5, NoReqTyped DEF Armed, Switching, SomeBorn
<1>. QED BY <1>2, <1>3, <1>4, <1>6, InvitesOK

LEMMA ExpiryOK ==
    ASSUME IInv, NEW i \in Invites, InviteExpires(i)
    PROVE  IInv'
<1>1. Typed /\ TypeOK /\ Armed BY DEF IInv, Typed
<1>2. UNCHANGED <<users, tokens, rows, req>> /\ invites' = [invites EXCEPT ![i].expired = TRUE]
  BY DEF InviteExpires
<1>3. invites' \in [Invites -> Invite] /\ \A j \in Invites : invites'[j].used = invites[j].used
  BY <1>1, <1>2 DEF TypeOK, Invite
<1>4. TypeOK' /\ Armed' BY <1>1, <1>2, <1>3 DEF TypeOK, Armed, SomeBorn
<1>. QED BY <1>2, <1>3, <1>4, InvitesOK

LEMMA WorkOK ==
    ASSUME IInv, NEW c \in Clients, WorkWrites(c)
    PROVE  IInv'
<1>1. Typed /\ TypeOK /\ Armed BY DEF IInv, Typed
<1>2. req' = [req EXCEPT ![c] = NoReq] /\ rows' \subseteq Users /\ UNCHANGED <<users, invites, tokens>>
  BY <1>1 DEF WorkWrites, Done, Armed, TypeOK
<1>3. TypeOK' BY <1>1, <1>2, NoReqTyped DEF TypeOK
<1>4. \A b \in Clients : req'[b] = req[b] \/ req'[b] = NoReq BY <1>1, <1>2 DEF TypeOK
<1>5. Armed' BY <1>1, <1>2, <1>4, NoReqTyped DEF Armed, Switching, SomeBorn
<1>. QED BY <1>2, <1>3, <1>5, AsideOK DEF Aside, Typed

\* A token says what the account says.
LEMMA LoginOK ==
    ASSUME IInv, Login
    PROVE  IInv'
<1>1. Typed /\ TypeOK /\ Armed BY DEF IInv, Typed
<1>2. PICK u \in Users :
        users[u].life = "live" /\ tokens' = tokens \cup {[user |-> u, role |-> users[u].role]}
  BY DEF Login, Live
<1>3. UNCHANGED <<users, invites, rows, req>> BY DEF Login
<1>4. tokens' \subseteq Claims BY <1>1, <1>2 DEF TypeOK, Claims, Account
<1>5. TypeOK' /\ Armed' BY <1>1, <1>3, <1>4 DEF TypeOK, Armed, SomeBorn
<1>6. ClaimsAreTrue' BY <1>2, <1>3 DEF IInv, ClaimsAreTrue
<1>. QED BY <1>3, <1>5, <1>6 DEF IInv, Typed, UnbornIsBlank, OneAdmin, AdminRemains, ActiveAdmins,
         Live, UsedByItsUser

LEMMA NextOK == IInv /\ [Next]_vars => IInv'
<1>. SUFFICES ASSUME IInv, [Next]_vars PROVE IInv' OBVIOUS
<1>1. ASSUME NEW c \in Clients, RegisterStep(c) PROVE IInv'
  BY <1>1, QuietSteps, SetupOK, RegistrationOK DEF RegisterStep
<1>2. ASSUME NEW c \in Clients, AccountStep(c) PROVE IInv'
  BY <1>2, QuietSteps, SwitchOK DEF AccountStep
<1>3. ASSUME NEW c \in Clients, InviteStep(c) PROVE IInv'
  BY <1>3, QuietSteps, InviteWritesOK DEF InviteStep
<1>4. ASSUME NEW c \in Clients, WorkStep(c) PROVE IInv'
  BY <1>4, QuietSteps, WorkOK DEF WorkStep
<1>5. ASSUME NEW c \in Clients, RequestFails(c) PROVE IInv' BY <1>5, QuietSteps
<1>6. CASE UNCHANGED vars
  <2>1. Aside /\ UNCHANGED <<rows, req>> BY <1>6 DEF vars, Aside
  <2>2. Typed' BY <2>1 DEF IInv, Typed, TypeOK, Armed, Aside, SomeBorn
  <2>. QED BY <2>1, <2>2, AsideOK
<1>. QED BY <1>1, <1>2, <1>3, <1>4, <1>5, <1>6, LoginOK, ExpiryOK DEF Next

-----------------------------------------------------------------------------
(* Theorems *)

\* The tables, the tokens and the requests of Accounts keep their types.
THEOREM AccountsTypeCorrect == Spec => []TypeOK
<1>1. IInv => TypeOK BY DEF IInv, Typed
<1>. QED BY <1>1, InitOK, NextOK, PTL DEF Spec

\* Setup, registration, disabling, deletion: an active administrator remains,
\* however many requests count, check and write at the same time.
THEOREM NeverLockedOut == Spec => []AdminRemains
<1>1. IInv => AdminRemains BY DEF IInv
<1>. QED BY <1>1, InitOK, NextOK, PTL DEF Spec

\* RegisterWithInviteCtx makes at most one account of an invite.
THEOREM InvitesAreSingle == Spec => []OneUserPerInvite
<1>1. IInv => OneUserPerInvite
  <2>. SUFFICES ASSUME IInv, NEW u \in Users, NEW v \in Users,
                       users[u].by = users[v].by, users[u].by # None
                PROVE  u = v
    BY DEF OneUserPerInvite
  <2>. QED BY DEF IInv, UsedByItsUser
<1>. QED BY <1>1, InitOK, NextOK, PTL DEF Spec

\* The role a token carries is that of its account, so RequireAdmin need not
\* look at the table.
THEOREM TokensAreTrue == Spec => []ClaimsAreTrue
<1>1. IInv => ClaimsAreTrue BY DEF IInv
<1>. QED BY <1>1, InitOK, NextOK, PTL DEF Spec
=============================================================================
