--------------------------- MODULE ServicesProofs ---------------------------
(***************************************************************************)
(* Proofs about Accounts, for any number of people, addresses and requests *)
(* served at a time: a person has one account, an active administrator     *)
(* remains, and a session reaches what its account's role allows; and      *)
(* about the parts of MCServices together.                                 *)
(***************************************************************************)
EXTENDS MCServices, FleetProofs, SequenceTheorems

\* What a handler may be holding between two of its steps.
Holds(r) ==
    \/ r = Idle
    \/ r = [does |-> "issue", who |-> r.who, role |-> r.role] /\ r.role \in Roles
    \/ r = [does |-> "provision", row |-> r.row] /\ r.row \in Row
    \/ /\ r = [does |-> "disable", who |-> r.who, outdated |-> r.outdated]
       /\ r.outdated \in BOOLEAN

\* A decision to disable someone was made of a list that still tells who is
\* active: somebody else is.
Spared(r, table) == r.does = "disable" /\ ~r.outdated => ActiveAdmins(table) \ {r.who} # {}

AInv ==
    /\ req = [h \in Handlers |-> req[h]] /\ \A h \in Handlers : Holds(req[h])
    /\ users \in Seq(Row) /\ users = [e \in DOMAIN users |-> users[e]]
    /\ \A e \in DOMAIN users : users[e] \in Row
    /\ crossed \in BOOLEAN
    /\ boot = "serving" => DOMAIN users # {}
    /\ boot # "serving" => \A h \in Handlers : req[h] = Idle
    /\ ~crossed => /\ DOMAIN users = {} \/ ActiveAdmins(users) # {}
                   /\ \A h \in Handlers : Spared(req[h], users)

LEMMA NewRowTyped ==
    ASSUME NEW a \in Addresses, NEW q \in Roles, NEW password \in {"chosen", "random"}
    PROVE  NewRow(a, q, password) \in Row
<1>1. NormalizeEmail(a) \in Addresses
  BY DEF NormalizeEmail, Addresses
<1> QED
  BY <1>1, Zenon DEF NewRow, Row

\* Insert appends a row and touches no other.
LEMMA InsertRow ==
    ASSUME NEW account \in Row, users \in Seq(Row), Insert(account)
    PROVE  /\ users' \in Seq(Row) /\ users' = [i \in DOMAIN users' |-> users'[i]]
           /\ DOMAIN users' = DOMAIN users \cup {Len(users) + 1}
           /\ Len(users) + 1 \notin DOMAIN users /\ users'[Len(users) + 1] = account
           /\ \A i \in DOMAIN users : users'[i] = users[i]
<1>1. users' = Append(users, account) /\ Len(users) \in Nat /\ DOMAIN users = 1 .. Len(users)
  BY DEF Insert
<1>2. users' \in Seq(Row) /\ Len(users') = Len(users) + 1
  BY <1>1
<1>3. DOMAIN users' = 1 .. Len(users) + 1
  BY <1>2
<1>4. users' = [i \in DOMAIN users' |-> users'[i]]
  BY <1>2, <1>3
<1>5. users'[Len(users) + 1] = account /\ \A i \in DOMAIN users : users'[i] = users[i]
  BY <1>1
<1> QED
  BY <1>1, <1>2, <1>3, <1>4, <1>5

\* Who was active stays so.
LEMMA InsertKeeps ==
    ASSUME NEW account \in Row, users \in Seq(Row), Insert(account),
           \A e \in DOMAIN users : users[e] \in Row
    PROVE  /\ users' \in Seq(Row) /\ users' = [e \in DOMAIN users' |-> users'[e]]
           /\ \A e \in DOMAIN users' : users'[e] \in Row
           /\ DOMAIN users' # {}
           /\ ActiveAdmins(users) \subseteq ActiveAdmins(users')
BY InsertRow, Zenon DEF ActiveAdmins

\* SetDisabled and Enable write one column of one row.
LEMMA SwitchRow ==
    ASSUME users \in Seq(Row), NEW e, NEW b \in BOOLEAN,
           users' = [users EXCEPT ![e].disabled = b]
    PROVE  /\ users' \in Seq(Row)
           /\ users' = [f \in DOMAIN users |->
                          IF f = e THEN [users[f] EXCEPT !.disabled = b] ELSE users[f]]
           /\ \A f \in DOMAIN users : users'[f].role = users[f].role /\ users'[f].email = users[f].email
<1>1. users \in [1 .. Len(users) -> Row] /\ Len(users) \in Nat
  OBVIOUS
<1>2. users' = [f \in DOMAIN users |->
                  IF f = e THEN [users[f] EXCEPT !.disabled = b] ELSE users[f]]
  BY <1>1, Zenon
<1>3. \A f \in 1 .. Len(users) : [users[f] EXCEPT !.disabled = b] \in Row
  <2>1. \A x \in Row : [x EXCEPT !.disabled = b] \in Row
    BY DEF Row
  <2> QED
    BY <1>1, <2>1, Zenon
<1>4. users' \in [1 .. Len(users) -> Row]
  BY <1>1, <1>2, <1>3, Zenon
<1>5. users' \in Seq(Row)
  BY <1>1, <1>4, SeqDef, Zenon
<1>6. \A f \in DOMAIN users : users'[f].role = users[f].role /\ users'[f].email = users[f].email
  <2>1. \A x \in Row : LET y == [x EXCEPT !.disabled = b] IN y.role = x.role /\ y.email = x.email
    BY DEF Row
  <2> QED
    BY <1>1, <1>2, <2>1, Zenon
<1> QED
  BY <1>2, <1>5, <1>6, Zenon
-----------------------------------------------------------------------------
LEMMA InitAInv == AccountsInit => AInv
<1> SUFFICES ASSUME AccountsInit PROVE AInv
  OBVIOUS
<1>1. /\ req = [h \in Handlers |-> Idle] /\ users = <<>> /\ boot = "list" /\ crossed = FALSE
  BY Zenon DEF AccountsInit
<1>3. users \in Seq(Row) /\ DOMAIN users = {} /\ users = [e \in DOMAIN users |-> users[e]]
  BY <1>1
<1>2. \A h \in Handlers : req[h] = Idle /\ Holds(req[h]) /\ Spared(req[h], users)
  BY <1>1, Zenon DEF Holds, Spared, Idle
<1> QED
  BY <1>1, <1>2, <1>3, Zenon DEF AInv

\* What an action that moves one handler, and leaves the table alone or only
\* adds to it, owes the invariant.
LEMMA MoveKeeps ==
    ASSUME AInv, NEW h \in Handlers, NEW r, Goto(h, r), Holds(r),
           boot = "serving", UNCHANGED <<boot, crossed>>,
           users' \in Seq(Row), users' = [e \in DOMAIN users' |-> users'[e]],
           \A e \in DOMAIN users' : users'[e] \in Row,
           DOMAIN users' # {},
           ActiveAdmins(users) \subseteq ActiveAdmins(users'),
           ~crossed => Spared(r, users)
    PROVE  AInv'
<1>1. req' = [g \in Handlers |-> IF g = h THEN r ELSE req[g]]
  BY Zenon DEF AInv, Goto
<1>2. \A g \in Handlers : Holds(req'[g])
  BY <1>1, Zenon DEF AInv
<1>3. ASSUME ~crossed PROVE \A g \in Handlers : Spared(req'[g], users')
  <2>1. \A g \in Handlers : Spared(req'[g], users)
    BY <1>1, <1>3, Zenon DEF AInv
  <2> QED
    BY <2>1, Zenon DEF Spared
<1>4. ~crossed => ActiveAdmins(users') # {}
  BY Zenon DEF AInv
<1> QED
  BY <1>1, <1>2, <1>3, <1>4, Zenon DEF AInv

\* guardDisable read a list with somebody else on it.
LEMMA GuardSpares ==
    ASSUME NEW t, NEW e, MayDisable(t, e), ActiveAdmins(users) # {}
    PROVE  ActiveAdmins(users) \ {e} # {}
<1>1. CASE e \notin ActiveAdmins(users)
  BY <1>1, Zenon
<1>2. CASE e \in ActiveAdmins(users)
  <2>1. Cardinality(ActiveAdmins(users)) > 1
    BY <1>2, Zenon DEF MayDisable
  <2>2. Cardinality({e}) = 1
    BY FS_Singleton, Zenon
  <2>3. ActiveAdmins(users) # {e}
    BY <2>1, <2>2
  <2> QED
    BY <1>2, <2>3, Zenon
<1> QED
  BY <1>1, <1>2, Zenon

\* SetDisabled: a decision that is not outdated leaves somebody else active,
\* and any decision that loses its ground is marked outdated.
LEMMA SetDisabledStep ==
    ASSUME AInv, NEW h \in Handlers, SetDisabled(h)
    PROVE  /\ AInv'
           /\ ~crossed' => ActiveAdmins(users') # {}
<1> DEFINE e == req[h].who
<1>1. /\ req[h].does = "disable" /\ req[h].outdated \in BOOLEAN
      /\ boot = "serving" /\ boot' = "serving" /\ DOMAIN users # {}
  BY DEF AInv, Holds, SetDisabled, Idle
<1>2. /\ users' \in Seq(Row)
      /\ users' = [f \in DOMAIN users |-> IF f = e THEN [users[f] EXCEPT !.disabled = TRUE]
                                          ELSE users[f]]
  BY SwitchRow, Zenon DEF SetDisabled, AInv
<1>3. \A f \in DOMAIN users : users'[f] \in Row
  BY <1>2, ZenonT(30) DEF AInv, Row
<1>4. ActiveAdmins(users') = ActiveAdmins(users) \ {e}
  <2>1. \A f \in DOMAIN users : f = e => users'[f].disabled
    BY <1>2 DEF AInv, Row
  <2>2. DOMAIN users' = DOMAIN users /\ \A f \in DOMAIN users : f # e => users'[f] = users[f]
    BY <1>2, Zenon
  <2> QED
    BY <2>1, <2>2, Zenon DEF ActiveAdmins
<1>5. /\ req' = [g \in Handlers |-> req'[g]]
      /\ \A g \in Handlers :
           req'[g] = IF g = h THEN Idle
                     ELSE IF req[g].does = "disable" /\ e \in ActiveAdmins(users)
                          THEN [req[g] EXCEPT !.outdated = TRUE]
                     ELSE req[g]
  BY Zenon DEF SetDisabled
<1>6. ASSUME NEW g \in Handlers, g # h, req[g].does = "disable", e \in ActiveAdmins(users)
      PROVE  req'[g] = [does |-> "disable", who |-> req[g].who, outdated |-> TRUE]
  <2>1. req[g] = [does |-> "disable", who |-> req[g].who, outdated |-> req[g].outdated]
    BY <1>6 DEF AInv, Holds, Idle
  <2> QED
    BY <1>5, <1>6, <2>1, Zenon
<1> HIDE DEF e
<1>7. \A g \in Handlers : Holds(req'[g])
  <2> SUFFICES ASSUME NEW g \in Handlers PROVE Holds(req'[g])
    OBVIOUS
  <2>1. CASE g = h
    BY <1>5, <2>1, Zenon DEF Holds
  <2>2. CASE g # h /\ req[g].does = "disable" /\ e \in ActiveAdmins(users)
    <3>1. req'[g] = [does |-> "disable", who |-> req[g].who, outdated |-> TRUE]
      BY <1>6, <2>2, Zenon
    <3>2. req'[g].who = req[g].who /\ req'[g].outdated = TRUE
      BY <3>1
    <3> QED
      BY <3>1, <3>2, Zenon DEF Holds
  <2>3. CASE g # h /\ ~(req[g].does = "disable" /\ e \in ActiveAdmins(users))
    BY <1>5, <2>3, Zenon DEF AInv
  <2> QED
    BY <2>1, <2>2, <2>3, Zenon
<1>8. crossed' = (crossed \/ req[h].outdated) /\ crossed' \in BOOLEAN
  BY <1>1, Zenon DEF SetDisabled, AInv
<1>9. ASSUME ~crossed' PROVE ActiveAdmins(users') # {}
  <2>1. ~crossed /\ ~req[h].outdated
    BY <1>1, <1>8, <1>9, Zenon DEF AInv
  <2>2. ActiveAdmins(users) \ {e} # {}
    BY <1>1, <2>1, Zenon DEF AInv, Spared, e
  <2> QED
    BY <1>4, <2>2, Zenon
<1>10. ASSUME ~crossed', NEW g \in Handlers PROVE Spared(req'[g], users')
  <2>1. CASE g = h
    BY <1>5, <2>1 DEF Spared, Idle
  <2>2. CASE g # h /\ req[g].does = "disable" /\ e \in ActiveAdmins(users)
    <3>1. req'[g] = [does |-> "disable", who |-> req[g].who, outdated |-> TRUE]
      BY <1>6, <2>2, Zenon
    <3>2. req'[g].outdated = TRUE
      BY <3>1
    <3> QED
      BY <3>1, <3>2, Zenon DEF Spared
  <2>3. CASE g # h /\ req[g].does # "disable"
    BY <1>5, <2>3, Zenon DEF Spared
  <2>4. CASE g # h /\ e \notin ActiveAdmins(users)
    <3>1. ActiveAdmins(users') = ActiveAdmins(users) /\ req'[g] = req[g]
      BY <1>4, <1>5, <2>4, Zenon
    <3>2. Spared(req[g], users)
      BY <1>8, <1>10, Zenon DEF AInv
    <3> QED
      BY <3>1, <3>2, Zenon DEF Spared
  <2> QED
    BY <2>1, <2>2, <2>3, <2>4, Zenon
<1> QED
  BY <1>1, <1>2, <1>3, <1>5, <1>7, <1>8, <1>9, <1>10, Zenon DEF AInv

\* One step of AccountsNext keeps the invariant and leaves an administrator active.
LEMMA StepAInv ==
    ASSUME AInv, [AccountsNext]_accounts
    PROVE  /\ AInv'
           /\ ActiveAdmins(users) # {} /\ ~crossed' => ActiveAdmins(users') # {}
<1> DEFINE Goal == /\ AInv'
                   /\ ActiveAdmins(users) # {} /\ ~crossed' => ActiveAdmins(users') # {}
<1> USE DEF Goal
<1>1. ASSUME NEW h \in Handlers, NEW r, Goto(h, r), UNCHANGED <<users, boot, crossed>>,
             boot = "serving", Holds(r), ~crossed => Spared(r, users)
      PROVE  Goal
  BY <1>1, MoveKeeps, Zenon DEF AInv
<1>2. ASSUME NEW e, NEW q \in Roles
      PROVE  LET r == [does |-> "issue", who |-> e, role |-> q] IN Holds(r) /\ Spared(r, users)
  BY Zenon DEF Holds, Spared
<1>3. Holds(Idle) /\ Spared(Idle, users)
  BY Zenon DEF Holds, Spared, Idle
<1>4. \A h \in Handlers : req[h] # Idle => boot = "serving"
  BY Zenon DEF AInv
<1>5. CASE UNCHANGED accounts
  BY <1>5 DEF accounts, AInv, ActiveAdmins, Spared, Holds
<1>6. CASE ListUsers
  <2>1. /\ UNCHANGED <<users, req, crossed>> /\ boot = "list"
        /\ boot' \in {"create", "serving"} /\ (boot' = "serving" => users # <<>>)
    BY <1>6 DEF ListUsers
  <2>2. users # <<>> => DOMAIN users # {}
    <3>1. users \in Seq(Row)
      BY Zenon DEF AInv
    <3> QED
      BY <3>1, EmptySeq
  <2> QED
    BY <2>1, <2>2 DEF AInv, ActiveAdmins, Spared, Holds
<1>7. CASE CreateAdmin
  <2> DEFINE account == NewRow(<<Root, "plain">>, "admin", "chosen")
  <2>1. account \in Row /\ account.role = "admin" /\ ~account.disabled
    BY AccountsAssumption, NewRowTyped, Zenon DEF NewRow, Addresses, Roles
  <2>2. Insert(account)
    BY <1>7, Zenon DEF CreateAdmin
  <2> HIDE DEF account
  <2>3. /\ users' \in Seq(Row) /\ users' = [e \in DOMAIN users' |-> users'[e]] /\ DOMAIN users' # {}
        /\ \A e \in DOMAIN users' : users'[e] \in Row
        /\ ActiveAdmins(users) \subseteq ActiveAdmins(users')
    BY <2>1, <2>2, InsertKeeps, Zenon DEF AInv
  <2>4. Len(users) + 1 \in ActiveAdmins(users')
    BY <2>1, <2>2, InsertRow, Zenon DEF AInv, ActiveAdmins
  <2>5. /\ \A h \in Handlers : req'[h] = Idle
        /\ req' = req /\ crossed' = crossed /\ boot' = "serving"
    BY <1>7, Zenon DEF CreateAdmin, AInv
  <2>6. \A h \in Handlers : Spared(req'[h], users')
    BY <2>5 DEF Spared, Idle
  <2> QED
    BY <2>3, <2>4, <2>5, <2>6, Zenon DEF AInv
<1>8. CASE Restart
  <2>1. /\ \A h \in Handlers : req'[h] = Idle /\ Holds(req'[h]) /\ Spared(req'[h], users')
        /\ req' = [h \in Handlers |-> req'[h]]
    BY <1>8, Zenon DEF Restart, Spared, Holds, Idle
  <2>2. users' = users /\ crossed' = crossed /\ boot' = "list"
    BY <1>8, Zenon DEF Restart
  <2> QED
    BY <2>1, <2>2, Zenon DEF AInv, ActiveAdmins
<1>9. CASE Tick
  <2>1. UNCHANGED <<users, boot, req, crossed>>
    BY <1>9, Zenon DEF Tick
  <2> QED
    BY <2>1 DEF AInv, ActiveAdmins, Spared, Holds
<1>10. ASSUME NEW h \in Handlers, NEW a \in Addresses, Login(h, a) PROVE Goal
  <2>1. PICK e \in Found(a) : Goto(h, [does |-> "issue", who |-> e, role |-> users[e].role])
    BY <1>10, Zenon DEF Login
  <2>2. users[e].role \in Roles
    BY Zenon DEF Found, AInv, Row
  <2> QED
    BY <1>1, <1>2, <1>10, <2>1, <2>2, Zenon DEF Login
<1>11. ASSUME NEW h \in Handlers, NEW a \in Addresses, Exchange(h, a) PROVE Goal
  <2>1. PICK e \in Found(a) : Goto(h, [does |-> "issue", who |-> e, role |-> users[e].role])
    BY <1>11, Zenon DEF Exchange
  <2>2. users[e].role \in Roles
    BY Zenon DEF Found, AInv, Row
  <2> QED
    BY <1>1, <1>2, <1>11, <2>1, <2>2, Zenon DEF Exchange
<1>12. ASSUME NEW h \in Handlers, NEW a \in Addresses, NEW q \in Roles, ExchangeUnknown(h, a, q)
       PROVE  Goal
  <2> DEFINE r == [does |-> "provision", row |-> NewRow(a, q, "random")]
  <2>1. Holds(r) /\ Spared(r, users)
    BY NewRowTyped, Zenon DEF Holds, Spared
  <2>2. Goto(h, r) /\ UNCHANGED <<users, boot, crossed>> /\ boot = "serving"
    BY <1>12, Zenon DEF ExchangeUnknown
  <2> HIDE DEF r
  <2> QED
    BY <1>1, <2>1, <2>2, Zenon
<1>13. ASSUME NEW h \in Handlers, provision(h) PROVE Goal
  <2>1. req[h].does = "provision" /\ UNCHANGED <<boot, crossed>>
    BY <1>13, Zenon DEF provision
  <2>2. boot = "serving"
    BY <1>4, <2>1 DEF Idle
  <2>3. CASE Goto(h, Idle) /\ UNCHANGED users
    BY <1>1, <1>3, <2>1, <2>2, <2>3, Zenon
  <2>4. ASSUME Insert(req[h].row),
               Goto(h, [does |-> "issue", who |-> Len(users) + 1, role |-> req[h].row.role])
        PROVE  Goal
    <3> DEFINE r == [does |-> "issue", who |-> Len(users) + 1, role |-> req[h].row.role]
    <3>1. req[h].row \in Row /\ req[h].row.role \in Roles
      BY <2>1 DEF AInv, Holds, Idle, Row
    <3>2. Goto(h, r)
      BY <2>4, Zenon
    <3>4. /\ users' \in Seq(Row) /\ users' = [e \in DOMAIN users' |-> users'[e]]
          /\ DOMAIN users' # {} /\ \A e \in DOMAIN users' : users'[e] \in Row
          /\ ActiveAdmins(users) \subseteq ActiveAdmins(users')
      BY <2>4, <3>1, InsertKeeps, Zenon DEF AInv
    <3>5. Holds(r) /\ Spared(r, users)
      BY <1>2, <3>1, Zenon
    <3> HIDE DEF r
    <3>6. AInv'
      BY <2>1, <2>2, <3>2, <3>4, <3>5, MoveKeeps, Zenon
    <3> QED
      BY <3>4, <3>6, Zenon
  <2> QED
    BY <1>13, <2>3, <2>4, Zenon DEF provision
<1>14. ASSUME NEW h \in Handlers, Issue(h) \/ Fails(h) PROVE Goal
  <2>1. boot = "serving" /\ Goto(h, Idle) /\ UNCHANGED <<users, boot, crossed>>
    BY <1>4, <1>14 DEF Issue, Fails, Idle
  <2> QED
    BY <1>1, <1>3, <2>1, Zenon
<1>15. ASSUME NEW h \in Handlers, NEW t, NEW e, Disable(h, t, e) PROVE Goal
  <2> DEFINE r == [does |-> "disable", who |-> e, outdated |-> FALSE]
  <2>1. /\ boot = "serving" /\ MayDisable(t, e) /\ Goto(h, r)
        /\ UNCHANGED <<users, boot, crossed>>
    BY <1>15, Zenon DEF Disable
  <2>2. Holds(r)
    BY Zenon DEF Holds
  <2>3. ~crossed => Spared(r, users)
    BY <2>1, GuardSpares, Zenon DEF AInv, Spared
  <2> HIDE DEF r
  <2> QED
    BY <1>1, <2>1, <2>2, <2>3, Zenon
<1>16. ASSUME NEW t, NEW a \in Addresses, NEW q \in Roles, CreateUser(t, a, q) PROVE Goal
  <2>1. /\ boot = "serving" /\ Insert(NewRow(a, q, "chosen"))
        /\ UNCHANGED <<boot, req, crossed>>
    BY <1>16, Zenon DEF CreateUser
  <2>2. NewRow(a, q, "chosen") \in Row
    BY NewRowTyped, Zenon
  <2>3. /\ users' \in Seq(Row) /\ users' = [e \in DOMAIN users' |-> users'[e]] /\ DOMAIN users' # {}
        /\ \A e \in DOMAIN users' : users'[e] \in Row
        /\ ActiveAdmins(users) \subseteq ActiveAdmins(users')
    BY <2>1, <2>2, InsertKeeps, Zenon DEF AInv
  <2> QED
    BY <2>1, <2>3 DEF AInv, Spared, Holds
<1>17. ASSUME NEW t, NEW e, Enable(t, e) PROVE Goal
  <2>1. UNCHANGED <<boot, req, crossed>>
    BY <1>17, Zenon DEF Enable
  <2>2. /\ users' \in Seq(Row)
        /\ users' = [f \in DOMAIN users |-> IF f = e THEN [users[f] EXCEPT !.disabled = FALSE]
                                            ELSE users[f]]
    BY <1>17, SwitchRow, Zenon DEF Enable, AInv
  <2>3. \A f \in DOMAIN users : users'[f] \in Row /\ users'[f].role = users[f].role
    BY <2>2, Zenon DEF AInv, Row
  <2>4. \A f \in DOMAIN users : ~users[f].disabled => ~users'[f].disabled
    BY <2>2, Zenon DEF AInv, Row
  <2>5. DOMAIN users' = DOMAIN users /\ users' = [f \in DOMAIN users' |-> users'[f]]
    BY <2>2, Zenon
  <2>6. ActiveAdmins(users) \subseteq ActiveAdmins(users')
    BY <2>3, <2>4, <2>5, Zenon DEF ActiveAdmins
  <2> QED
    BY <2>1, <2>2, <2>3, <2>5, <2>6 DEF AInv, Spared, Holds
<1> HIDE DEF Goal
<1>18. ASSUME NEW h \in Handlers, SetDisabled(h) PROVE Goal
  BY <1>18, SetDisabledStep, Zenon DEF Goal
<1>19. Goal
  <2>1. ASSUME NEW h \in Handlers, Serve(h) PROVE Goal
    BY <2>1, <1>13, <1>14, <1>18, Zenon DEF Serve
  <2>2. ASSUME NEW h \in Handlers, NEW a \in Addresses,
               Login(h, a) \/ Exchange(h, a) \/ \E q \in Roles : ExchangeUnknown(h, a, q)
        PROVE  Goal
    BY <2>2, <1>10, <1>11, <1>12, Zenon
  <2>3. CASE ListUsers \/ CreateAdmin \/ Restart \/ Tick \/ UNCHANGED accounts
    BY <2>3, <1>5, <1>6, <1>7, <1>8, <1>9, Zenon DEF Goal
  <2> QED
    BY <2>1, <2>2, <2>3, <1>15, <1>16, <1>17, Zenon DEF AccountsNext
<1> QED
  BY <1>19, Zenon DEF Goal

\* guardDisable: whatever administrators ask for, and whatever fails, an active
\* administrator remains as long as no two of their disables overlapped -- for
\* any number of people, tokens and requests served at a time.
THEOREM AdminStays == AccountsSpec => AdminRemains
<1>1. AInv /\ [AccountsNext]_accounts => AInv'
  BY StepAInv, Zenon
<1>2. AInv /\ [AccountsNext]_accounts
      => [ActiveAdmins(users) # {} /\ ~crossed' => ActiveAdmins(users') # {}]_accounts
  BY StepAInv, Zenon
<1> QED
  BY InitAInv, <1>1, <1>2, PTL DEF AccountsSpec, AdminRemains
-----------------------------------------------------------------------------
\* Rows, and rows about to be inserted, hold normalized addresses; so two addresses
\* of one person are one address to the unique index.
Plain(e) == e = <<e[1], "plain">>

Unique ==
    /\ \A i \in DOMAIN users : Plain(users[i].email)
    /\ \A h \in Handlers : req[h].does = "provision" => Plain(req[h].row.email)
    /\ OneAccountPerPerson

LEMMA NewRowPlain == \A a, q, password : Plain(NewRow(a, q, password).email)
BY DEF Plain, NewRow, NormalizeEmail

\* The index compares with rows that are there when the row is inserted, not with
\* what the request read before.
LEMMA InsertUnique ==
    ASSUME AInv, Unique, NEW account \in Row, Plain(account.email), Insert(account)
    PROVE  (\A i \in DOMAIN users' : Plain(users'[i].email)) /\ OneAccountPerPerson'
<1> DEFINE n == Len(users) + 1
<1>1. /\ DOMAIN users' = DOMAIN users \cup {n} /\ n \notin DOMAIN users
      /\ users'[n] = account /\ \A i \in DOMAIN users : users'[i] = users[i]
  BY InsertRow, Zenon DEF AInv
<1> HIDE DEF n
<1>2. \A e : Plain(e) => Lower(e) = e
  BY DEF Plain, Lower
<1>3. ASSUME NEW i \in DOMAIN users PROVE users[i].email[1] # account.email[1]
  <2>1. Lower(users[i].email) # Lower(account.email)
    BY Zenon DEF Insert, Conflicts
  <2>2. users[i].email # account.email
    BY <1>2, <2>1, Zenon DEF Unique
  <2> QED
    BY <2>2, Zenon DEF Unique, Plain
<1>4. \A i \in DOMAIN users' : Plain(users'[i].email)
  BY <1>1, Zenon DEF Unique
<1>5. ASSUME NEW i \in DOMAIN users', NEW j \in DOMAIN users',
             users'[i].email[1] = users'[j].email[1]
      PROVE  i = j
  BY <1>1, <1>3, <1>5, Zenon DEF Unique, OneAccountPerPerson
<1> QED
  BY <1>4, <1>5, Zenon DEF OneAccountPerPerson

\* Where the requests of a step that moves one handler are.
LEMMA Moved ==
    ASSUME AInv, NEW h \in Handlers, NEW r, Goto(h, r)
    PROVE  req'[h] = r /\ \A g \in Handlers : g # h => req'[g] = req[g]
BY Zenon DEF AInv, Goto

\* What a step may do to the table.
LEMMA TableStep ==
    ASSUME AInv, [AccountsNext]_accounts
    PROVE  \/ UNCHANGED users
           \/ \E account \in Row : Insert(account) /\ (Unique => Plain(account.email))
           \/ \E e : \E b \in BOOLEAN : users' = [users EXCEPT ![e].disabled = b]
<1> DEFINE Goal == \/ UNCHANGED users
                   \/ \E account \in Row : Insert(account) /\ (Unique => Plain(account.email))
                   \/ \E e : \E b \in BOOLEAN : users' = [users EXCEPT ![e].disabled = b]
<1>1. ASSUME NEW account \in Row, Insert(account), Unique => Plain(account.email) PROVE Goal
  BY <1>1, Zenon
<1>2. CASE CreateAdmin
  BY <1>1, <1>2, NewRowTyped, NewRowPlain, AccountsAssumption, Zenon DEF CreateAdmin, Addresses, Roles
<1>3. ASSUME NEW h \in Handlers, provision(h) PROVE Goal
  <2>1. req[h].row \in Row
    BY <1>3 DEF AInv, Holds, Idle, provision
  <2>2. Unique => Plain(req[h].row.email)
    BY <1>3, Zenon DEF Unique, provision
  <2> QED
    BY <1>1, <1>3, <2>1, <2>2, Zenon DEF provision
<1>4. ASSUME NEW t \in tokens, NEW a \in Addresses, NEW q \in Roles, CreateUser(t, a, q) PROVE Goal
  BY <1>1, <1>4, NewRowTyped, NewRowPlain, Zenon DEF CreateUser
<1>5. CASE \/ \E h \in Handlers : SetDisabled(h)
           \/ \E t \in tokens, e \in DOMAIN users : Enable(t, e)
  BY <1>5, Zenon DEF SetDisabled, Enable
<1> QED
  BY <1>2, <1>3, <1>4, <1>5, Zenon
  DEF AccountsNext, accounts, ListUsers, Restart, Tick, Serve, Issue, Fails, Login, Exchange,
      ExchangeUnknown, Disable

\* What a step may leave a handler holding.
LEMMA RequestStep ==
    ASSUME AInv, [AccountsNext]_accounts, NEW g \in Handlers
    PROVE  \/ req'[g] = req[g] \/ req'[g].does # "provision"
           \/ \E a \in Addresses, q \in Roles : req'[g].row = NewRow(a, q, "random")
<1> DEFINE Goal == \/ req'[g] = req[g] \/ req'[g].does # "provision"
                   \/ \E a \in Addresses, q \in Roles : req'[g].row = NewRow(a, q, "random")
<1>1. ASSUME NEW h \in Handlers, NEW r, Goto(h, r), r.does # "provision" PROVE Goal
  BY <1>1, Moved, Zenon
<1>2. ASSUME NEW h \in Handlers, NEW a \in Addresses, NEW q \in Roles, ExchangeUnknown(h, a, q) PROVE Goal
  <2> DEFINE r == [does |-> "provision", row |-> NewRow(a, q, "random")]
  <2>1. Goto(h, r) /\ r.row = NewRow(a, q, "random")
    BY <1>2, Zenon DEF ExchangeUnknown
  <2> HIDE DEF r
  <2> QED
    BY <2>1, Moved, Zenon
<1>3. ASSUME NEW h \in Handlers, SetDisabled(h) PROVE Goal
  <2>1. \/ req'[g] = Idle \/ req'[g] = req[g]
        \/ req[g].does = "disable" /\ req'[g] = [req[g] EXCEPT !.outdated = TRUE]
    BY <1>3, Zenon DEF SetDisabled
  <2>2. CASE req[g].does = "disable" /\ req'[g] = [req[g] EXCEPT !.outdated = TRUE]
    <3>1. req[g] = [does |-> "disable", who |-> req[g].who, outdated |-> req[g].outdated]
      BY <2>2 DEF AInv, Holds, Idle
    <3> QED
      BY <2>2, <3>1, Zenon
  <2> QED
    BY <2>1, <2>2 DEF Idle
<1>4. ASSUME NEW h \in Handlers, NEW a \in Addresses, Login(h, a) \/ Exchange(h, a) PROVE Goal
  <2>1. PICK e : Goto(h, [does |-> "issue", who |-> e, role |-> users[e].role])
    BY <1>4, Zenon DEF Login, Exchange
  <2> QED
    BY <1>1, <2>1
<1>5. ASSUME NEW h \in Handlers, Issue(h) \/ Fails(h) \/ provision(h) PROVE Goal
  <2>1. PICK r : Goto(h, r) /\ r.does \in {"nothing", "issue"}
    <3>1. \/ Goto(h, Idle)
          \/ Goto(h, [does |-> "issue", who |-> Len(users) + 1, role |-> req[h].row.role])
      BY <1>5, Zenon DEF Issue, Fails, provision
    <3>2. CASE Goto(h, Idle)
      <4> WITNESS Idle
      <4> QED
        BY <3>2 DEF Idle
    <3>3. CASE Goto(h, [does |-> "issue", who |-> Len(users) + 1, role |-> req[h].row.role])
      <4> WITNESS [does |-> "issue", who |-> Len(users) + 1, role |-> req[h].row.role]
      <4> QED
        BY <3>3
    <3> QED
      BY <3>1, <3>2, <3>3, Zenon
  <2> QED
    BY <1>1, <2>1, Zenon
<1>6. ASSUME NEW h \in Handlers, NEW t, NEW e, Disable(h, t, e) PROVE Goal
  BY <1>1, <1>6 DEF Disable
<1>7. CASE Restart
  BY <1>7, Zenon DEF Restart, Idle
<1>8. CASE UNCHANGED req
  BY <1>8, Zenon
<1> QED
  BY <1>2, <1>3, <1>4, <1>5, <1>6, <1>7, <1>8, Zenon
  DEF AccountsNext, accounts, ListUsers, CreateAdmin, Tick, Serve, CreateUser, Enable

\* A person has one account, whatever logins and requests race to create it: the
\* rows of two who both found none carry one normalized address, and the unique
\* index refuses the second.
THEOREM OneAccount == AccountsSpec => []OneAccountPerPerson
<1>1. AccountsInit => Unique
  <2> SUFFICES ASSUME AccountsInit PROVE Unique
    OBVIOUS
  <2>1. DOMAIN users = {}
    BY DEF AccountsInit
  <2>2. \A h \in Handlers : req[h].does = "nothing"
    BY Zenon DEF AccountsInit, Idle
  <2> QED
    BY <2>1, <2>2, Zenon DEF Unique, OneAccountPerPerson
<1>2. ASSUME AInv, Unique, [AccountsNext]_accounts PROVE Unique'
  <2>1. (\A i \in DOMAIN users' : Plain(users'[i].email)) /\ OneAccountPerPerson'
    <3>1. CASE UNCHANGED users
      BY <1>2, <3>1, Zenon DEF Unique, OneAccountPerPerson
    <3>2. CASE \E account \in Row : Insert(account) /\ (Unique => Plain(account.email))
      BY <1>2, <3>2, InsertUnique, Zenon
    <3>3. ASSUME NEW e, NEW b \in BOOLEAN, users' = [users EXCEPT ![e].disabled = b]
          PROVE  (\A i \in DOMAIN users' : Plain(users'[i].email)) /\ OneAccountPerPerson'
      <4>1. /\ DOMAIN users' = DOMAIN users
            /\ \A i \in DOMAIN users : users'[i].email = users[i].email
        BY <1>2, <3>3, SwitchRow, Zenon DEF AInv
      <4> QED
        BY <1>2, <4>1, Zenon DEF Unique, OneAccountPerPerson
    <3> QED
      BY <1>2, <3>1, <3>2, <3>3, TableStep, Zenon
  <2>2. \A h \in Handlers : req'[h].does = "provision" => Plain(req'[h].row.email)
    BY <1>2, RequestStep, NewRowPlain, Zenon DEF Unique
  <2> QED
    BY <2>1, <2>2, Zenon DEF Unique
<1>3. AInv /\ Unique /\ [AccountsNext]_accounts => AInv' /\ Unique'
  BY <1>2, StepAInv, Zenon
<1>4. Unique => OneAccountPerPerson
  BY Zenon DEF Unique
<1> QED
  BY InitAInv, <1>1, <1>3, <1>4, PTL DEF AccountsSpec
-----------------------------------------------------------------------------
\* A session carries the role of its account, and so does a request that is
\* about to open one.
Sessions ==
    /\ tokens \subseteq [who : DOMAIN users, role : Roles, left : 1..TTL]
    /\ \A t \in tokens : users[t.who].role = t.role
    /\ \A h \in Handlers : req[h].does = "issue" =>
          req[h].who \in DOMAIN users /\ users[req[h].who].role = req[h].role
    /\ boot \in {"list", "create", "serving"} /\ autoProvision \in BOOLEAN

\* What Create, SetDisabled and the rest leave of the accounts there are.
RolesKept == /\ DOMAIN users \subseteq DOMAIN users'
             /\ \A e \in DOMAIN users : users'[e].role = users[e].role

LEMMA InsertRoles ==
    ASSUME AInv, NEW account \in Row, Insert(account)
    PROVE  RolesKept
BY InsertRow, Zenon DEF AInv, RolesKept

\* A step that keeps the roles, adds no token and moves no request into a
\* session of its own.
LEMMA SessionsKept ==
    ASSUME Sessions, RolesKept, UNCHANGED <<tokens, autoProvision>>,
           boot' \in {"list", "create", "serving"},
           \A h \in Handlers :
              \/ req'[h] = req[h]
              \/ req'[h].does # "issue"
              \/ /\ req'[h].does = "issue" /\ req'[h].who \in DOMAIN users'
                 /\ users'[req'[h].who].role = req'[h].role
    PROVE  Sessions'
<1>1. \A t \in tokens : /\ t \in [who : DOMAIN users', role : Roles, left : 1..TTL]
                        /\ users'[t.who].role = t.role
  BY Zenon DEF Sessions, RolesKept
<1>2. \A h \in Handlers : req'[h].does = "issue" =>
          req'[h].who \in DOMAIN users' /\ users'[req'[h].who].role = req'[h].role
  BY DEF Sessions, RolesKept
<1> QED
  BY <1>1, <1>2, Zenon DEF Sessions

LEMMA SessionsInit == AccountsInit => Sessions
<1> SUFFICES ASSUME AccountsInit PROVE Sessions
  OBVIOUS
<1>1. /\ tokens = {} /\ boot = "list" /\ autoProvision \in BOOLEAN
      /\ \A h \in Handlers : req[h].does = "nothing"
  BY Zenon DEF AccountsInit, Idle
<1> QED
  BY <1>1, Zenon DEF Sessions

LEMMA SessionsStep ==
    ASSUME AInv, Sessions, [AccountsNext]_accounts
    PROVE  Sessions' /\ RolesKept
<1>0. RolesKept
  <2>1. CASE UNCHANGED users
    BY <2>1, Zenon DEF RolesKept
  <2>2. CASE \E account \in Row : Insert(account)
    BY <2>2, InsertRoles, Zenon
  <2>3. ASSUME NEW e, NEW b \in BOOLEAN, users' = [users EXCEPT ![e].disabled = b] PROVE RolesKept
    BY <2>3, SwitchRow, Zenon DEF AInv, RolesKept
  <2> QED
    BY <2>1, <2>2, <2>3, TableStep, Zenon
<1>1. CASE \/ UNCHANGED accounts \/ ListUsers \/ CreateAdmin
           \/ \E t \in tokens : \/ \E a \in Addresses, q \in Roles : CreateUser(t, a, q)
                                \/ \E e \in DOMAIN users : Enable(t, e)
  <2>1. UNCHANGED <<tokens, autoProvision, req>> /\ boot' \in {"list", "create", "serving"}
    BY <1>1, Zenon
    DEF accounts, ListUsers, CreateAdmin, CreateUser, Enable, Sessions
  <2> QED
    BY <1>0, <2>1, SessionsKept, Zenon
<1>2. CASE Restart
  <2>1. UNCHANGED <<tokens, autoProvision>> /\ boot' = "list" /\ \A h \in Handlers : req'[h].does = "nothing"
    BY <1>2, Zenon DEF Restart, Idle
  <2> QED
    BY <1>0, <2>1, SessionsKept, Zenon
<1>3. CASE Tick
  <2>1. UNCHANGED <<autoProvision, users, boot, req>>
    BY <1>3, Zenon DEF Tick
  <2>2. ASSUME NEW u \in tokens, u.left > 1
        PROVE  /\ [u EXCEPT !.left = @ - 1] \in [who : DOMAIN users, role : Roles, left : 1..TTL]
               /\ users[[u EXCEPT !.left = @ - 1].who].role = [u EXCEPT !.left = @ - 1].role
    <3>1. u \in [who : DOMAIN users, role : Roles, left : 1..TTL] /\ users[u.who].role = u.role
      BY Zenon DEF Sessions
    <3>2. u.left - 1 \in 1..TTL
      BY <2>2, <3>1, AccountsAssumption
    <3> QED
      BY <3>1, <3>2, Zenon
  <2>3. \A t \in tokens' : /\ t \in [who : DOMAIN users, role : Roles, left : 1..TTL]
                           /\ users[t.who].role = t.role
    BY <1>3, <2>2 DEF Tick
  <2> QED
    BY <1>0, <2>1, <2>3, Zenon DEF Sessions
<1>4. ASSUME NEW h \in Handlers, NEW a \in Addresses, Login(h, a) \/ Exchange(h, a)
      PROVE  Sessions'
  <2>1. PICK e \in Found(a) : Goto(h, [does |-> "issue", who |-> e, role |-> users[e].role])
    BY <1>4, Zenon DEF Login, Exchange
  <2>2. UNCHANGED <<autoProvision, users, tokens, boot>> /\ e \in DOMAIN users
    BY <1>4, Zenon DEF Login, Exchange, Found
  <2>3. boot' \in {"list", "create", "serving"}
    BY <2>2, Zenon DEF Sessions
  <2> QED
    BY <1>0, <2>1, <2>2, <2>3, Moved, SessionsKept
<1>5. ASSUME NEW h \in Handlers, NEW a \in Addresses, NEW q \in Roles, ExchangeUnknown(h, a, q)
      PROVE  Sessions'
  <2>1. /\ Goto(h, [does |-> "provision", row |-> NewRow(a, q, "random")])
        /\ UNCHANGED <<autoProvision, users, tokens, boot>>
    BY <1>5, Zenon DEF ExchangeUnknown
  <2>2. boot' \in {"list", "create", "serving"}
    BY <2>1, Zenon DEF Sessions
  <2> QED
    BY <1>0, <2>1, <2>2, Moved, SessionsKept
<1>6. ASSUME NEW h \in Handlers, NEW r, Goto(h, r), r.does # "issue",
             UNCHANGED <<autoProvision, users, tokens, boot>>
      PROVE  Sessions'
  <2>1. boot' \in {"list", "create", "serving"}
    BY <1>6, Zenon DEF Sessions
  <2> QED
    BY <1>0, <1>6, <2>1, Moved, SessionsKept, Zenon
<1>7. ASSUME NEW h \in Handlers, provision(h) PROVE Sessions'
  <2>1. CASE Goto(h, Idle) /\ UNCHANGED users
    BY <1>6, <1>7, <2>1, Zenon DEF provision, Idle
  <2>2. ASSUME Insert(req[h].row),
               Goto(h, [does |-> "issue", who |-> Len(users) + 1, role |-> req[h].row.role])
        PROVE  Sessions'
    <3> DEFINE r == [does |-> "issue", who |-> Len(users) + 1, role |-> req[h].row.role]
    <3>1. req[h].row \in Row
      BY <1>7 DEF AInv, Holds, Idle, provision
    <3>2. Goto(h, r)
      BY <2>2, Zenon
    <3>4. Len(users) + 1 \in DOMAIN users' /\ users'[Len(users) + 1] = req[h].row
      BY <2>2, <3>1, InsertRow, Zenon DEF AInv
    <3>5. r.does = "issue" /\ r.who \in DOMAIN users' /\ users'[r.who].role = r.role
      BY <3>4, Zenon
    <3>6. UNCHANGED <<tokens, autoProvision, boot>> /\ boot' \in {"list", "create", "serving"}
      BY <1>7, Zenon DEF provision, Sessions
    <3> HIDE DEF r
    <3> QED
      BY <1>0, <3>2, <3>5, <3>6, Moved, SessionsKept
  <2> QED
    BY <1>7, <2>1, <2>2, Zenon DEF provision
<1>8. ASSUME NEW h \in Handlers, Issue(h) PROVE Sessions'
  <2> DEFINE t == [who |-> req[h].who, role |-> req[h].role, left |-> TTL]
  <2>1. /\ req[h].does = "issue" /\ tokens' = tokens \cup {t} /\ Goto(h, Idle)
        /\ UNCHANGED <<autoProvision, users, boot>>
    BY <1>8, Zenon DEF Issue
  <2>2. req[h].who \in DOMAIN users /\ users[req[h].who].role = req[h].role /\ req[h].role \in Roles
    BY <2>1, Zenon DEF Sessions, AInv, Row
  <2>3. t \in [who : DOMAIN users, role : Roles, left : 1..TTL] /\ users[t.who].role = t.role
    BY <2>2, AccountsAssumption
  <2> HIDE DEF t
  <2>4. \A g \in Handlers : req'[g] = req[g] \/ req'[g].does = "nothing"
    BY <2>1, Moved DEF Idle
  <2> QED
    BY <2>1, <2>3, <2>4 DEF Sessions
<1>9. ASSUME NEW h \in Handlers, Fails(h) PROVE Sessions'
  BY <1>6, <1>9, Zenon DEF Fails, Idle
<1>10. ASSUME NEW h \in Handlers, NEW t, NEW e, Disable(h, t, e) PROVE Sessions'
  <2> DEFINE r == [does |-> "disable", who |-> e, outdated |-> FALSE]
  <2>1. Goto(h, r) /\ UNCHANGED <<autoProvision, users, tokens, boot>> /\ r.does = "disable"
    BY <1>10, Zenon DEF Disable
  <2> HIDE DEF r
  <2> QED
    BY <1>6, <2>1, Zenon
<1>11. ASSUME NEW h \in Handlers, SetDisabled(h) PROVE Sessions'
  <2>1. UNCHANGED <<autoProvision, tokens, boot>> /\ boot' \in {"list", "create", "serving"}
    BY <1>11, Zenon DEF SetDisabled, Sessions
  <2>2. ASSUME NEW g \in Handlers PROVE req'[g] = req[g] \/ req'[g].does \in {"nothing", "disable"}
    <3>1. \/ req'[g] = Idle \/ req'[g] = req[g]
          \/ req[g].does = "disable" /\ req'[g] = [req[g] EXCEPT !.outdated = TRUE]
      BY <1>11, Zenon DEF SetDisabled
    <3>2. CASE req[g].does = "disable" /\ req'[g] = [req[g] EXCEPT !.outdated = TRUE]
      <4>1. req[g] = [does |-> "disable", who |-> req[g].who, outdated |-> req[g].outdated]
        BY <3>2 DEF AInv, Holds, Idle
      <4> QED
        BY <3>2, <4>1, Zenon
    <3> QED
      BY <3>1, <3>2 DEF Idle
  <2> QED
    BY <1>0, <2>1, <2>2, SessionsKept, Zenon
<1>12. ASSUME NEW h \in Handlers, Serve(h) PROVE Sessions'
  BY <1>7, <1>8, <1>9, <1>11, <1>12, Zenon DEF Serve
<1>13. Sessions'
  BY <1>1, <1>2, <1>3, <1>4, <1>5, <1>10, <1>12, Zenon DEF AccountsNext
<1> QED
  BY <1>0, <1>13, Zenon

\* The role of an account never changes: no handler writes the column after
\* Create (user.Repository has no statement that does).
THEOREM RolesAreFixed == AccountsSpec => [][RolesKept]_accounts
<1>1. AInv /\ Sessions /\ [AccountsNext]_accounts => AInv' /\ Sessions' /\ RolesKept
  BY StepAInv, SessionsStep, Zenon
<1> QED
  BY InitAInv, SessionsInit, <1>1, PTL DEF AccountsSpec
-----------------------------------------------------------------------------
\* What the route table says of a route whose action a viewer has, and of the
\* accounts and the audit trail.
Tiered(route) ==
    /\ route[3] \in readActions => route[1] = "GET" /\ route[2] \notin Secrets
    /\ route \in UserRoutes \/ route[2] = "audit" => route[3] = "user.manage"

LEMMA RouteTiers == \A route \in Routes : Tiered(route)
<1>0. \A route \in UserRoutes : route[3] = "user.manage"
  BY DEF UserRoutes, RequireAction
<1>1. \A route \in UserRoutes : Tiered(route)
  BY <1>0, Zenon DEF Tiered, readActions
<1>2. ASSUME NEW route, route \notin UserRoutes, route[2] # "audit" \/ route[3] = "user.manage",
             route[3] \in readActions => route[1] = "GET" /\ route[2] \notin Secrets
      PROVE  Tiered(route)
  BY <1>2, Zenon DEF Tiered
<1>3. ASSUME NEW action, NEW verb, NEW paths, NEW route \in RequireAction(action, verb, paths),
             action \in readActions => verb = "GET" /\ paths \cap Secrets = {},
             "audit" \notin paths \/ action = "user.manage"
      PROVE  Tiered(route)
  <2>1. route[1] = verb /\ route[2] \in paths /\ route[3] = action
    BY <1>3 DEF RequireAction
  <2> QED
    BY <1>1, <1>2, <1>3, <2>1, Zenon
<1> USE DEF readActions, Secrets
<1>4. \A route \in InstanceRoutes \cup ClusterRoutes : Tiered(route)
  BY <1>3, Zenon DEF InstanceRoutes, ClusterRoutes
<1>5. \A route \in BackupRoutes \cup RemoteRoutes \cup TimescaleRoutes : Tiered(route)
  BY <1>3, Zenon DEF BackupRoutes, RemoteRoutes, TimescaleRoutes
<1>6. \A route \in ObservabilityRoutes \cup DataPlaneRoutes : Tiered(route)
  BY <1>3, Zenon DEF ObservabilityRoutes, DataPlaneRoutes
<1> QED
  BY <1>1, <1>4, <1>5, <1>6, Zenon DEF Routes

LEMMA SessionsTiered == Sessions => PrivilegeTiers
<1> SUFFICES ASSUME Sessions, NEW t \in tokens, NEW route \in Routes, Admits(t.role, route)
             PROVE  /\ route[1] # "GET" \/ route[2] \in Secrets => t.role # "viewer"
                    /\ route \in UserRoutes \/ route[2] = "audit" => t.role = "admin"
  BY DEF PrivilegeTiers, Sessions
<1>1. t.role \in Roles /\ Tiered(route)
  BY RouteTiers, Zenon DEF Sessions
<1>2. CASE t.role = "admin"
  BY <1>2, Zenon
<1>3. CASE t.role = "viewer"
  <2>1. route[3] \in readActions
    BY <1>3 DEF Admits, Can, grants
  <2>2. route[3] # "user.manage"
    BY <2>1, Zenon DEF readActions
  <2> QED
    BY <1>1, <1>3, <2>1, <2>2, Zenon DEF Tiered
<1>4. CASE t.role = "operator"
  <2>1. route[3] # "user.manage"
    BY <1>4 DEF Admits, Can, grants, readActions
  <2> QED
    BY <1>1, <1>4, <2>1, Zenon DEF Tiered
<1> QED
  BY <1>1, <1>2, <1>3, <1>4, Zenon DEF Roles

\* Whatever accounts are created, disabled and enabled while sessions live, no
\* session of a viewer's account reaches a route that changes something or hands
\* out a database, and only an administrator's reaches accounts and audit trail.
THEOREM TiersHold == AccountsSpec => []PrivilegeTiers
<1>1. AInv /\ Sessions /\ [AccountsNext]_accounts => AInv' /\ Sessions'
  BY StepAInv, SessionsStep, Zenon
<1> QED
  BY InitAInv, SessionsInit, SessionsTiered, <1>1, PTL DEF AccountsSpec

LEMMA AccountsTyped == AccountsSpec => []AccountsTypeOK
<1>1. AInv /\ Sessions /\ [AccountsNext]_accounts => AInv' /\ Sessions'
  BY StepAInv, SessionsStep, Zenon
<1>2. AInv /\ Sessions => AccountsTypeOK
  <2> SUFFICES ASSUME AInv, Sessions PROVE AccountsTypeOK
    OBVIOUS
  <2>1. \A h \in Handlers : req[h].does \in {"nothing", "issue", "provision", "disable"}
    BY DEF AInv, Holds, Idle
  <2> QED
    BY <2>1, Zenon DEF AInv, Sessions, AccountsTypeOK
<1> QED
  BY InitAInv, SessionsInit, <1>1, <1>2, PTL DEF AccountsSpec
-----------------------------------------------------------------------------
\* The parts share no variable: a step of the sum is a step of each or leaves it
\* alone.
LEMMA ServicesHaveParts ==
    ServicesSpec => AccountsSpec /\ ClustersSpec /\ DumpsSpec /\ CopiesSpec
<1>1. ServicesInit => AccountsInit /\ ClustersInit /\ DumpsInit /\ CopiesInit
  BY Zenon DEF ServicesInit
<1>2. [ServicesNext]_all => /\ [AccountsNext]_accounts /\ [ClustersNext]_clusters
                            /\ [DumpsNext]_dumps /\ [CopiesNext]_copies
  BY Zenon
  DEF ServicesNext, AccountsOnly, ClustersOnly, DumpsOnly, CopiesOnly, all
<1> QED
  BY <1>1, <1>2, PTL DEF ServicesSpec, AccountsSpec, ClustersSpec, DumpsSpec, CopiesSpec

\* Types of all four: among them that a token belongs to an account and that an
\* archive's key, a member's number and a clone's password stay what they are.
THEOREM ServicesTyped == ServicesSpec => []ServicesTypeOK
BY ServicesHaveParts, AccountsTyped, ClustersTyped, DumpsTyped, CopiesTyped, PTL DEF ServicesTypeOK
=============================================================================
