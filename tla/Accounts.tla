------------------------------- MODULE Accounts -------------------------------
(****************************************************************************)
(* Accounts, invites and sessions (services/auth.go, admin_users.go,        *)
(* invites.go, repository/user.go, their handlers, middleware/auth.go,      *)
(* admin.go, act_as_confirm.go).  The first account is set up as the        *)
(* administrator, the others come by invitation; the administrator          *)
(* disables, enables and deletes accounts and may act as another user.      *)
(*                                                                          *)
(* A request is a process: the middleware reads the account of the token,   *)
(* and the handler's reads, counts and writes are steps of their own, so a  *)
(* request goes on with what it has read.  Only the bodies of Transaction   *)
(* are one step.  User names and passwords decide whether a request is      *)
(* refused and nothing else that is stated here: they are choices.          *)
(****************************************************************************)
EXTENDS Naturals, FiniteSets

CONSTANTS
    Users,      \* ids of accounts, each given once
    Invites,    \* ids of invites, each given once
    Clients,    \* requests in flight
    None

ASSUME NoneAssumption == None \notin Users \cup Invites

VARIABLES
    users,      \* table users
    invites,    \* table invites
    tokens,     \* the claims of the tokens that were issued, which expire unseen
    rows,       \* accounts that own payments, invoices, trips, ...
    req         \* requests in flight

vars == <<users, invites, tokens, rows, req>>

\* by: the invite an account came with.
Account == [life: {"unborn", "live", "gone"}, role: {"admin", "user"}, active: BOOLEAN,
            by: Invites \cup {None}]
Invite  == [life: {"unborn", "live", "gone"}, expired: BOOLEAN, used: Users \cup {None}]
Claims  == [user: Users, role: {"admin", "user"}]

AdminOps == {"disable", "enable", "delete", "invite", "uninvite"}
Request == [pc: {"idle", "setup", "hash", "register", "enter", "write"},
            op: AdminOps \cup {"none", "work"}, actor: Users \cup {None}, user: Users \cup {None},
            invite: Invites \cup {None}, late: BOOLEAN]
NoReq == [pc |-> "idle", op |-> "none", actor |-> None, user |-> None, invite |-> None, late |-> FALSE]

TypeOK ==
    /\ users \in [Users -> Account]
    /\ invites \in [Invites -> Invite]
    /\ tokens \subseteq Claims
    /\ rows \subseteq Users
    /\ req \in [Clients -> Request]

Init ==
    /\ users = [u \in Users |-> [life |-> "unborn", role |-> "user", active |-> FALSE, by |-> None]]
    /\ invites = [i \in Invites |-> [life |-> "unborn", expired |-> FALSE, used |-> None]]
    /\ tokens = {} /\ rows = {}
    /\ req = [c \in Clients |-> NoReq]

------------------------------------------------------------------------------
Live(u)  == users[u].life = "live"
HasUsers == \E u \in Users : Live(u)
ActiveAdmins == {u \in Users : Live(u) /\ users[u].role = "admin" /\ users[u].active}

At(c, pc) == req[c].pc = pc
Goes(c, pc) == req' = [req EXCEPT ![c].pc = pc]
Done(c) == req' = [req EXCEPT ![c] = NoReq]

\* Mutant: the role of the new account is left to the default of its column.
Created_default(u, role, i) ==
    /\ users' = [users EXCEPT ![u] = [life |-> "live", role |-> "user", active |-> TRUE, by |-> i]]
    /\ tokens' = tokens \cup {[user |-> u, role |-> role]}

\* INSERT into users, and GenerateToken with the role of the new account.
Created(u, role, i) ==
    /\ users' = [users EXCEPT ![u] = [life |-> "live", role |-> role, active |-> TRUE, by |-> i]]
    /\ tokens' = tokens \cup {[user |-> u, role |-> role]}

------------------------------------------------------------------------------
(* Setup, registration and login.                                           *)

SetupBegins(c) ==
    /\ At(c, "idle") /\ ~HasUsers
    /\ Goes(c, "setup")
    /\ UNCHANGED <<users, invites, tokens, rows>>

\* Mutant: what the handler has seen is relied on.
CreateInitialAdmin_trusting(c) ==
    /\ At(c, "setup")
    /\ \/ \E u \in Users : users[u].life = "unborn" /\ Created(u, "admin", None)
       \/ UNCHANGED <<users, tokens>>
    /\ Done(c)
    /\ UNCHANGED <<invites, rows>>

\* The transaction under setupMu counts again.
CreateInitialAdmin(c) ==
    /\ At(c, "setup")
    /\ \/ ~HasUsers /\ \E u \in Users : users[u].life = "unborn" /\ Created(u, "admin", None)
       \/ UNCHANGED <<users, tokens>>
    /\ Done(c)
    /\ UNCHANGED <<invites, rows>>

RegisterBegins(c) ==
    /\ At(c, "idle") /\ HasUsers
    /\ \E i \in Invites :
         /\ invites[i].life # "unborn"
         /\ req' = [req EXCEPT ![c] = [NoReq EXCEPT !.pc = "hash", !.invite = i]]
    /\ UNCHANGED <<users, invites, tokens, rows>>

\* The time that decides about the expiry is taken before the transaction.
RegisterHashes(c) ==
    /\ At(c, "hash")
    /\ req' = [req EXCEPT ![c].pc = "register", ![c].late = invites[req[c].invite].expired]
    /\ UNCHANGED <<users, invites, tokens, rows>>

\* Mutant: the invite is used by an UPDATE without "used_at IS NULL", and read
\* before the transaction begins.
RegisterWithInvite_reads(c) ==
    /\ At(c, "register")
    /\ LET i == req[c].invite IN
         \/ /\ ~req[c].late
            /\ \E u \in Users :
                 /\ users[u].life = "unborn"
                 /\ Created(u, "user", i)
                 /\ invites' = [invites EXCEPT ![i].used = u]
         \/ UNCHANGED <<users, tokens, invites>>
    /\ Done(c)
    /\ UNCHANGED rows

\* In one transaction: the invite is there, unused and was not too old, the
\* name is free, the account is inserted and the invite is used by it.
RegisterWithInvite(c) ==
    /\ At(c, "register")
    /\ LET i == req[c].invite IN
         \/ /\ invites[i].life = "live" /\ invites[i].used = None /\ ~req[c].late
            /\ \E u \in Users :
                 /\ users[u].life = "unborn"
                 /\ Created(u, "user", i)
                 /\ invites' = [invites EXCEPT ![i].used = u]
         \/ UNCHANGED <<users, tokens, invites>>
    /\ Done(c)
    /\ UNCHANGED rows

\* The role in the claims is the one that was read.
Login ==
    /\ \E u \in Users :
         /\ Live(u) /\ users[u].active
         /\ tokens' = tokens \cup {[user |-> u, role |-> users[u].role]}
    /\ UNCHANGED <<users, invites, rows, req>>

------------------------------------------------------------------------------
(* The middleware, and the requests behind it.                              *)

\* The account still exists and is active; the role comes from the claims.
AuthMiddleware(t) == Live(t.user) /\ users[t.user].active
RequireAdmin(t) == t.role = "admin"

\* GetEffectiveUserID: oneself, or the user an administrator acts as.
MayActAs(t, u) == u = t.user \/ (t.role = "admin" /\ Live(u))

\* Whose account the handler is asked to change is refused if it is the
\* actor's own.
AdminRequest(c, ops) ==
    /\ At(c, "idle")
    /\ \E t \in tokens, op \in ops, u \in Users :
         /\ AuthMiddleware(t) /\ RequireAdmin(t)
         /\ t.user # u
         /\ req' = [req EXCEPT ![c] = [NoReq EXCEPT !.pc = "enter", !.op = op, !.actor = t.user, !.user = u]]
    /\ UNCHANGED <<users, invites, tokens, rows>>

SetActiveBegins(c) == AdminRequest(c, {"disable", "enable"})
DeleteBegins(c) == AdminRequest(c, {"delete"})

InviteBegins(c) ==
    /\ At(c, "idle")
    /\ \E t \in tokens :
         /\ AuthMiddleware(t) /\ RequireAdmin(t)
         /\ req' = [req EXCEPT ![c] = [NoReq EXCEPT !.pc = "enter", !.op = "invite", !.actor = t.user]]
    /\ UNCHANGED <<users, invites, tokens, rows>>

UninviteBegins(c) ==
    /\ At(c, "idle")
    /\ \E t \in tokens, i \in Invites :
         /\ AuthMiddleware(t) /\ RequireAdmin(t)
         /\ invites[i].life # "unborn"
         /\ req' = [req EXCEPT ![c] = [NoReq EXCEPT !.pc = "enter", !.op = "uninvite",
                                                   !.actor = t.user, !.invite = i]]
    /\ UNCHANGED <<users, invites, tokens, rows>>

WorkBegins(c) ==
    /\ At(c, "idle")
    /\ \E t \in tokens, u \in Users :
         /\ AuthMiddleware(t) /\ MayActAs(t, u)
         /\ req' = [req EXCEPT ![c] = [NoReq EXCEPT !.pc = "write", !.op = "work", !.actor = t.user, !.user = u]]
    /\ UNCHANGED <<users, invites, tokens, rows>>

\* A row of the effective user is inserted; nobody looks at the account again.
WorkWrites(c) ==
    /\ At(c, "write") /\ req[c].op = "work"
    /\ rows' = rows \cup {req[c].user}
    /\ Done(c)
    /\ UNCHANGED <<users, invites, tokens>>

------------------------------------------------------------------------------
(* SetUserActiveCtx and DeleteUserCtx.                                      *)

\* CountActiveAdmins: the last active administrator stays.
IsLastAdmin(u) ==
    users[u].role = "admin" /\ users[u].active /\ Cardinality(ActiveAdmins) <= 1

\* FindByID, and the count right after it when an administrator was found.
\* The two reads are one step: the count is a second line of defence, since
\* the only administrator there can be is the actor (see AdminRemains).
FindTarget(c, ops) ==
    /\ At(c, "enter") /\ req[c].op \in ops
    /\ LET u == req[c].user IN
         IF Live(u) /\ (req[c].op = "enable" \/ ~IsLastAdmin(u)) THEN Goes(c, "write") ELSE Done(c)
    /\ UNCHANGED <<users, invites, tokens, rows>>

FindToSwitch(c) == FindTarget(c, {"disable", "enable"})
FindToDelete(c) == FindTarget(c, {"delete"})

SetUserActive(c) ==
    /\ At(c, "write") /\ req[c].op \in {"disable", "enable"}
    /\ users' = IF Live(req[c].user)
                THEN [users EXCEPT ![req[c].user].active = (req[c].op = "enable")] ELSE users
    /\ Done(c)
    /\ UNCHANGED <<invites, tokens, rows>>

\* What the account owns goes with it, the invites stay.
DeleteUser(c) ==
    /\ At(c, "write") /\ req[c].op = "delete"
    /\ users' = IF Live(req[c].user) THEN [users EXCEPT ![req[c].user].life = "gone"] ELSE users
    /\ rows' = rows \ {req[c].user}
    /\ Done(c)
    /\ UNCHANGED <<invites, tokens>>

------------------------------------------------------------------------------
(* CreateInviteCtx and DeleteInviteCtx.                                     *)

CreateInvite(c) ==
    /\ At(c, "enter") /\ req[c].op = "invite"
    /\ \E i \in Invites :
         invites[i].life = "unborn" /\ invites' = [invites EXCEPT ![i].life = "live"]
    /\ Done(c)
    /\ UNCHANGED <<users, tokens, rows>>

\* Refused when it was used by an account that exists.
FindInvite(c) ==
    /\ At(c, "enter") /\ req[c].op = "uninvite"
    /\ LET i == invites[req[c].invite] IN
         IF i.life = "live" /\ (i.used = None \/ ~Live(i.used)) THEN Goes(c, "write") ELSE Done(c)
    /\ UNCHANGED <<users, invites, tokens, rows>>

DeleteInvite(c) ==
    /\ At(c, "write") /\ req[c].op = "uninvite"
    /\ invites' = [invites EXCEPT ![req[c].invite].life = "gone"]
    /\ Done(c)
    /\ UNCHANGED <<users, tokens, rows>>

InviteExpires(i) ==
    /\ invites[i].life = "live" /\ ~invites[i].expired
    /\ invites' = [invites EXCEPT ![i].expired = TRUE]
    /\ UNCHANGED <<users, tokens, rows, req>>

\* An error of the database ends a request: every one of its writes stands alone.
RequestFails(c) ==
    /\ ~At(c, "idle")
    /\ Done(c)
    /\ UNCHANGED <<users, invites, tokens, rows>>

------------------------------------------------------------------------------
RegisterStep(c) ==
    \/ SetupBegins(c) \/ CreateInitialAdmin(c)
    \/ RegisterBegins(c) \/ RegisterHashes(c) \/ RegisterWithInvite(c)
AccountStep(c) ==
    \/ SetActiveBegins(c) \/ FindToSwitch(c) \/ SetUserActive(c)
    \/ DeleteBegins(c) \/ FindToDelete(c) \/ DeleteUser(c)
InviteStep(c) ==
    \/ InviteBegins(c) \/ CreateInvite(c)
    \/ UninviteBegins(c) \/ FindInvite(c) \/ DeleteInvite(c)
WorkStep(c) == WorkBegins(c) \/ WorkWrites(c)

Next ==
    \/ \E c \in Clients :
         RegisterStep(c) \/ AccountStep(c) \/ InviteStep(c) \/ WorkStep(c) \/ RequestFails(c)
    \/ Login
    \/ \E i \in Invites : InviteExpires(i)

Spec == Init /\ [][Next]_vars

------------------------------------------------------------------------------
(* Properties.                                                              *)

\* The system is never locked out: once there is an account there is an
\* active administrator.  The count of administrators and the write that
\* relies on it are separate statements, and what saves the last one is that
\* setup makes a single administrator, invitations none, and nobody may
\* disable or delete himself.
AdminRemains ==
    (\E u \in Users : users[u].life # "unborn") => ActiveAdmins # {}

\* One invite makes one account, whatever registrations, deletions and
\* expiries overlap.
OneUserPerInvite ==
    \A u, v \in Users : users[u].by = users[v].by /\ users[u].by # None => u = v

\* The middleware decides by the role in the claims: that is the role the
\* account has, for all tokens ever issued.
ClaimsAreTrue ==
    \A t \in tokens : users[t.user].life # "unborn" /\ users[t.user].role = t.role
=============================================================================
