------------------------------ MODULE Accounts ------------------------------
(***************************************************************************)
(* Accounts and sessions: the users table, the first-boot administrator,   *)
(* password and single sign-on logins, and the account endpoints.  A       *)
(* request is a handler that reads the table in one step and acts on what  *)
(* it read in a later one; a token is a set member that nothing revokes    *)
(* and that time alone removes.                                            *)
(***************************************************************************)
EXTENDS Access, Naturals, FiniteSets, Sequences

CONSTANTS
    Handlers,       \* requests served at a time
    People,         \* who the addresses belong to
    Root,           \* PGFLEET_BOOTSTRAP_ADMIN_EMAIL
    TTL             \* lifetime of a token, in ticks

ASSUME AccountsAssumption == Root \in People /\ TTL \in Nat \ {0}

VARIABLES
    autoProvision,  \* PGFLEET_SSO_AUTO_PROVISION, set once
    users,          \* the rows of users; a place is an id
    tokens,         \* tokens that still verify
    boot,           \* progress of EnsureAdmin
    req,            \* what each handler is about to do
    crossed         \* history: a disable was decided on an outdated list

accounts == <<autoProvision, users, tokens, boot, req, crossed>>

\* An address as typed: whose it is and how it is written.
Addresses == People \X {"plain", "upper", "spaced"}

NormalizeEmail(a) == <<a[1], "plain">>

\* lower() in the unique index and in GetByEmail.
Lower(a) == IF a[2] = "upper" THEN <<a[1], "plain">> ELSE a

Row == [email : Addresses, role : Roles, disabled : BOOLEAN, password : {"chosen", "random"}]
NewRow(a, role, password) ==
    [email |-> NormalizeEmail(a), role |-> role, disabled |-> FALSE, password |-> password]

Idle == [does |-> "nothing"]
Found(a) == {i \in DOMAIN users : Lower(users[i].email) = Lower(NormalizeEmail(a))}

ActiveAdmins(rows) == {i \in DOMAIN rows : rows[i].role = "admin" /\ ~rows[i].disabled}

Conflicts(row) == \E i \in DOMAIN users : Lower(users[i].email) = Lower(row.email)

InsertUnindexed(row) == users' = Append(users, row)

\* Repository.Create: users_email_lower_idx refuses a second row for an address.
Insert(row) == ~Conflicts(row) /\ users' = Append(users, row)

Goto(h, r) == req' = [req EXCEPT ![h] = r]

AccountsInit ==
    /\ autoProvision \in BOOLEAN
    /\ users = <<>>
    /\ tokens = {}
    /\ boot = "list"
    /\ req = [h \in Handlers |-> Idle]
    /\ crossed = FALSE
-----------------------------------------------------------------------------
\* EnsureAdmin runs before the server listens.
ListUsers ==
    /\ boot = "list"
    /\ boot' = IF users = <<>> THEN "create" ELSE "serving"
    /\ UNCHANGED <<autoProvision, users, tokens, req, crossed>>

CreateAdmin ==
    /\ boot = "create"
    /\ Insert(NewRow(<<Root, "plain">>, "admin", "chosen"))
    /\ boot' = "serving"
    /\ UNCHANGED <<autoProvision, tokens, req, crossed>>

\* The process ends, or EnsureAdmin fails and ends it; requests die with it.
\* Tokens stay good: the secret they are signed with is configuration.
Restart ==
    /\ boot' = "list"
    /\ req' = [h \in Handlers |-> Idle]
    /\ UNCHANGED <<autoProvision, users, tokens, crossed>>
-----------------------------------------------------------------------------
\* Login with the right password.  A hash with old parameters is rewritten on
\* the way, which leaves the password what it was.
Login(h, a) ==
    /\ boot = "serving" /\ req[h] = Idle
    /\ \E i \in Found(a) :
         /\ users[i].password = "chosen"
         /\ ~users[i].disabled
         /\ Goto(h, [does |-> "issue", who |-> i, role |-> users[i].role])
    /\ UNCHANGED <<autoProvision, users, tokens, boot, crossed>>

\* Exchange of the proxy's identity header, for an account that exists ...
Exchange(h, a) ==
    /\ boot = "serving" /\ req[h] = Idle
    /\ \E i \in Found(a) :
         /\ ~users[i].disabled
         /\ Goto(h, [does |-> "issue", who |-> i, role |-> users[i].role])
    /\ UNCHANGED <<autoProvision, users, tokens, boot, crossed>>

\* ... and for one that does not: roleFromGroups chooses the role.
ExchangeUnknown(h, a, role) ==
    /\ boot = "serving" /\ req[h] = Idle
    /\ autoProvision /\ Found(a) = {}
    /\ Goto(h, [does |-> "provision", row |-> NewRow(a, role, "random")])
    /\ UNCHANGED <<autoProvision, users, tokens, boot, crossed>>

\* provision, or the conflict of two first logins, which ends the request.
provision(h) ==
    /\ req[h].does = "provision"
    /\ \/ /\ Insert(req[h].row)
          /\ Goto(h, [does |-> "issue", who |-> Len(users) + 1, role |-> req[h].row.role])
       \/ /\ Conflicts(req[h].row)
          /\ Goto(h, Idle)
          /\ UNCHANGED users
    /\ UNCHANGED <<autoProvision, tokens, boot, crossed>>

Issue(h) ==
    /\ req[h].does = "issue"
    /\ tokens' = tokens \cup {[who |-> req[h].who, role |-> req[h].role, left |-> TTL]}
    /\ Goto(h, Idle)
    /\ UNCHANGED <<autoProvision, users, boot, crossed>>

\* Verify refuses a token whose time has come.
Tick ==
    /\ tokens # {}
    /\ tokens' = {[t EXCEPT !.left = @ - 1] : t \in {u \in tokens : u.left > 1}}
    /\ UNCHANGED <<autoProvision, users, boot, req, crossed>>

-----------------------------------------------------------------------------
\* Authenticate and RequireAction, in front of a route of UserRoutes.
Admitted(t, verb, path) == \E route \in UserRoutes :
    /\ route[1] = verb /\ route[2] = path
    /\ t \in tokens /\ Admits(t.role, route)

CreateUser(t, a, role) ==
    /\ boot = "serving" /\ Admitted(t, "POST", "users")
    /\ Insert(NewRow(a, role, "chosen"))
    /\ UNCHANGED <<autoProvision, tokens, boot, req, crossed>>

NotOneself(t, i) == t.who # i

\* guardDisable: not oneself, and not the last active administrator of the
\* list it reads.
MayDisable(t, i) ==
    /\ t.who # i
    /\ i \in ActiveAdmins(users) => Cardinality(ActiveAdmins(users)) > 1

Disable(h, t, i) ==
    /\ boot = "serving" /\ req[h] = Idle
    /\ Admitted(t, "POST", "users/id/disable")
    /\ MayDisable(t, i)
    /\ Goto(h, [does |-> "disable", who |-> i, outdated |-> FALSE])
    /\ UNCHANGED <<autoProvision, users, tokens, boot, crossed>>

\* SetDisabled.  Lists read before it no longer tell who is active.
SetDisabled(h) ==
    /\ req[h].does = "disable"
    /\ users' = [users EXCEPT ![req[h].who].disabled = TRUE]
    /\ req' = [g \in Handlers |->
                 IF g = h THEN Idle
                 ELSE IF req[g].does = "disable" /\ req[h].who \in ActiveAdmins(users)
                      THEN [req[g] EXCEPT !.outdated = TRUE]
                 ELSE req[g]]
    /\ crossed' = (crossed \/ req[h].outdated)
    /\ UNCHANGED <<autoProvision, tokens, boot>>

Enable(t, i) ==
    /\ boot = "serving" /\ Admitted(t, "POST", "users/id/enable")
    /\ users' = [users EXCEPT ![i].disabled = FALSE]
    /\ UNCHANGED <<autoProvision, tokens, boot, req, crossed>>

\* A failing statement, or a client that goes away, ends a request.
Fails(h) ==
    /\ req[h] # Idle
    /\ Goto(h, Idle)
    /\ UNCHANGED <<autoProvision, users, tokens, boot, crossed>>
-----------------------------------------------------------------------------
Serve(h) == provision(h) \/ Issue(h) \/ SetDisabled(h) \/ Fails(h)

AccountsNext ==
    \/ ListUsers \/ CreateAdmin \/ Restart \/ Tick
    \/ \E h \in Handlers :
         \/ Serve(h)
         \/ \E a \in Addresses :
              Login(h, a) \/ Exchange(h, a) \/ \E r \in Roles : ExchangeUnknown(h, a, r)
         \/ \E t \in tokens, i \in DOMAIN users : Disable(h, t, i)
    \/ \E t \in tokens : \/ \E a \in Addresses, r \in Roles : CreateUser(t, a, r)
                         \/ \E i \in DOMAIN users : Enable(t, i)

AccountsSpec == AccountsInit /\ [][AccountsNext]_accounts

-----------------------------------------------------------------------------
AccountsTypeOK ==
    /\ users \in Seq(Row)
    /\ tokens \subseteq [who : DOMAIN users, role : Roles, left : 1..TTL]
    /\ boot \in {"list", "create", "serving"}
    /\ \A h \in Handlers : req[h].does \in {"nothing", "issue", "provision", "disable"}
    /\ crossed \in BOOLEAN /\ autoProvision \in BOOLEAN

\* However an address is written, a person has one account: also when two first
\* logins, or a login and CreateUser, both found none before either inserted.
OneAccountPerPerson ==
    \A i, j \in DOMAIN users : users[i].email[1] = users[j].email[1] => i = j

\* Reading these is reading everything a database holds.
Secrets == {"instances/id/connection", "clusters/id/connection", "dump"}

\* No session of a viewer reaches a route that changes something or hands out
\* a database, and only an administrator's reaches the accounts and the audit
\* trail (NewRouter, SEC-1 and the comment on /audit).
PrivilegeTiers ==
    \A t \in tokens, route \in Routes :
        LET role == users[t.who].role IN
        Admits(t.role, route) =>
            /\ route[1] # "GET" \/ route[2] \in Secrets => role # "viewer"
            /\ route \in UserRoutes \/ route[2] = "audit" => role = "admin"

\* Requests of several administrators, restarts and failures never leave a
\* fleet without an active administrator, unless two of their disables
\* overlapped: guardDisable decides on a list that is not locked.
AdminRemains ==
    [][ActiveAdmins(users) # {} /\ ~crossed' => ActiveAdmins(users') # {}]_accounts
=============================================================================
