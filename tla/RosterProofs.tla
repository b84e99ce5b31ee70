---------------------------- MODULE RosterProofs ----------------------------
(***************************************************************************)
(* The host's list of users, for any clients and names and any number of   *)
(* statuses in flight: types, agreement between an undisturbed peer and    *)
(* the host, and exactness of the list while nobody is disturbed.          *)
(***************************************************************************)
EXTENDS Roster, TLAPS

----------------------------------------------------------------------------
(* Agreement, peer by peer *)

\* What is on its way between the host and an undisturbed peer: the core's
\* latest status, or a forced name the host lists the peer under already.
\* Agreement follows from the last part; the others make it inductive.
InTouch(p) ==
    /\ \A s \in requests[p] : s = core[p]
    /\ requests[p] # {} => renames[p] = {}
    /\ \A n \in renames[p] :
           users[p] = [name |-> n, ready |-> core[p].ready]
    /\ (IsEstablishedUser(p) /\ requests[p] = {} /\ renames[p] = {})
           => users[p] = core[p]

AllInTouch == \A p \in Peers \ disturbed : InTouch(p)

\* The host's core never gets a forced name.
HostUnforced == renames[Host] = {}

----------------------------------------------------------------------------
(* Exactness, while nobody is disturbed *)

\* A status on its way that the host will take as it is bears the sender's
\* listed name or one that is not listed; the host's own name never changes.
DirectNamesFree ==
    \A p \in Peers : \A s \in requests[p] :
        Direct(p) =>
            \/ IsEstablishedUser(p) /\ s.name = users[p].name
            \/ ~UsernameExists(s.name) /\ (p = Host => ~IsEstablishedUser(p))

\* Nobody else has such a status with the same name on its way.
InFlightNamesDiffer ==
    \A p, q \in Peers : \A s \in requests[p] : \A t \in requests[q] :
        (p # q /\ Direct(p)) => s.name # t.name

InOrder == Exact /\ UniqueNames /\ DirectNamesFree /\ InFlightNamesDiffer

\* The host broadcasts Start on the list as it is.
StartedReady == (disturbed = {} /\ started) => AllUsersReady(list)

\* The inductive invariant: Agreement is the last part of InTouch, RosterExact
\* the first two parts of InOrder, StartOnlyWhenReady follows from StartedReady
\* and Exact.
IInv ==
    /\ TypeOK
    /\ HostUnforced
    /\ AllInTouch
    /\ disturbed = {} => InOrder
    /\ StartedReady

----------------------------------------------------------------------------
(* Types *)

\* The two marks in `users' are no statuses.
LEMMA Marks ==
    /\ Absent # Silent
    /\ \A s \in Status : s # Absent /\ s # Silent
    /\ \A s \in Status : s = [name |-> s.name, ready |-> s.ready]
    /\ \A s \in Status : s.name \in Names /\ s.ready \in BOOLEAN
BY RosterAssumption DEF Status

\* Entering a status keeps the list a list: one status of a name.
LEMMA ReplacedIsList ==
    ASSUME NEW l, l \subseteq Status, NEW s \in Status,
           \A t, u \in l : t.name = u.name => t = u
    PROVE  /\ Replaced(l, s) \subseteq Status
           /\ \A t, u \in Replaced(l, s) : t.name = u.name => t = u
BY DEF Replaced, Removed

LEMMA RemovedIsList ==
    ASSUME NEW l, l \subseteq Status, NEW s,
           \A t, u \in l : t.name = u.name => t = u
    PROVE  /\ Removed(l, s) \subseteq Status
           /\ \A t, u \in Removed(l, s) : t.name = u.name => t = u
BY DEF Removed

LEMMA UpdateStatusKeepsTypes ==
    ASSUME TypeOK, NEW p \in Peers, NEW s \in Status, NEW base,
           base \subseteq Status,
           \A t, u \in base : t.name = u.name => t = u,
           UpdateStatus(p, base, s)
    PROVE  /\ users' \in [Peers -> Status \cup {Absent, Silent}]
           /\ list' \subseteq Status
           /\ \A t, u \in list' : t.name = u.name => t = u
           /\ started' \in BOOLEAN
<1>1. users' \in [Peers -> Status \cup {Absent, Silent}]
  BY DEF TypeOK, UpdateStatus
<1>2. /\ list' \subseteq Status
      /\ \A t, u \in list' : t.name = u.name => t = u
  BY ReplacedIsList DEF UpdateStatus
<1>3. started' \in BOOLEAN
  BY DEF UpdateStatus, AllUsersReady
<1> QED
  BY <1>1, <1>2, <1>3

LEMMA HandleStatusKeepsTypes ==
    ASSUME TypeOK, NEW p \in Peers, NEW s \in Status, HandleStatus(p, s)
    PROVE  TypeOK'
<1>1. core' \in [Peers -> Status] /\ requests' \in [Peers -> SUBSET Status]
  BY DEF HandleStatus, TypeOK
<1>2. CASE HandleNewName(p, s)
  <2>1. /\ Removed(list, users[p]) \subseteq Status
        /\ \A t, u \in Removed(list, users[p]) : t.name = u.name => t = u
    BY RemovedIsList DEF TypeOK
  <2> QED
    BY <1>1, <1>2, <2>1, UpdateStatusKeepsTypes DEF HandleNewName, TypeOK
<1>3. CASE HandleSameName(p, s)
  BY <1>1, <1>3, UpdateStatusKeepsTypes DEF HandleSameName, TypeOK
<1>4. CASE ForceRename(p, s)
  <2>1. PICK n \in Names :
            /\ UpdateStatus(p, list, [s EXCEPT !.name = n])
            /\ renames' = [renames EXCEPT ![p] = @ \cup {n}]
            /\ disturbed' \in {disturbed, disturbed \cup {p}}
    BY <1>4 DEF ForceRename, FreshNames, Disturb
  <2>2. [s EXCEPT !.name = n] \in Status
    BY DEF Status
  <2> QED
    BY <1>1, <2>1, <2>2, UpdateStatusKeepsTypes DEF TypeOK
<1> QED
  BY <1>2, <1>3, <1>4 DEF HandleStatus

LEMMA NextKeepsTypes == TypeOK /\ [Next]_rosterVars => TypeOK'
<1> SUFFICES ASSUME TypeOK, [Next]_rosterVars PROVE TypeOK'
  OBVIOUS
<1>1. CASE UNCHANGED rosterVars
  BY <1>1 DEF rosterVars, TypeOK
<1>2. CASE HandleSelect
  BY <1>2 DEF HandleSelect, AllUsersReady, TypeOK
<1>3. ASSUME NEW s \in Status, HandleHostStatus(s) PROVE TypeOK'
  BY <1>3, UpdateStatusKeepsTypes DEF HandleHostStatus, TypeOK, Peers
<1>4. ASSUME NEW p \in Peers, ConnectionEstablished(p) PROVE TypeOK'
  BY <1>4 DEF ConnectionEstablished, TypeOK
<1>5. ASSUME NEW p \in Peers, ConnectionClosed(p) PROVE TypeOK'
  BY <1>5, RemovedIsList DEF ConnectionClosed, TypeOK
<1>6. ASSUME NEW p \in Peers, NEW s \in Status, SendStatus(p, s) PROVE TypeOK'
  BY <1>6 DEF SendStatus, Disturb, TypeOK
<1>7. ASSUME NEW p \in Peers, NEW s \in Status, HandleStatus(p, s)
      PROVE  TypeOK'
  BY <1>7, HandleStatusKeepsTypes
<1>8. ASSUME NEW p \in Peers, NEW s \in Status, LoseStatus(p, s) PROVE TypeOK'
  BY <1>8 DEF LoseStatus, Disturb, TypeOK
<1>9. ASSUME NEW p \in Peers, NEW n \in Names, ReceiveRename(p, n)
      PROVE  TypeOK'
  BY <1>9 DEF ReceiveRename, TypeOK, Status
<1>10. ASSUME NEW p \in Peers, NEW n \in Names, LoseRename(p, n) PROVE TypeOK'
  BY <1>10 DEF LoseRename, Disturb, TypeOK
<1> QED
  BY <1>1, <1>2, <1>3, <1>4, <1>5, <1>6, <1>7, <1>8, <1>9, <1>10 DEF Next

----------------------------------------------------------------------------
(* Agreement *)

\* Whoever kept the discipline so far kept it before.
LEMMA DisturbedGrows ==
    ASSUME [Next]_rosterVars
    PROVE  disturbed \subseteq disturbed'
BY DEF Next, rosterVars, HandleSelect, HandleHostStatus, ConnectionEstablished,
       ConnectionClosed, SendStatus, HandleStatus, HandleNewName, HandleSameName,
       ForceRename, LoseStatus, ReceiveRename, LoseRename, Disturb

\* The host takes the status as it is, or it forces another name on a
\* newcomer; the requests of the others stay where they are.
LEMMA HandleStatusCases ==
    ASSUME TypeOK, NEW p \in Peers, NEW s \in Status, HandleStatus(p, s)
    PROVE  /\ p \in Clients /\ s \in requests[p]
           /\ requests' = [requests EXCEPT ![p] = @ \ {s}]
           /\ UNCHANGED core
           /\ \/ /\ users' = [users EXCEPT ![p] = s]
                 /\ UNCHANGED <<renames, disturbed>>
              \/ \E n \in FreshNames :
                    /\ users' = [users EXCEPT ![p] =
                                    [name |-> n, ready |-> s.ready]]
                    /\ renames' = [renames EXCEPT ![p] = @ \cup {n}]
                    /\ disturbed \subseteq disturbed'
<1>1. CASE HandleNewName(p, s) \/ HandleSameName(p, s)
  BY <1>1 DEF HandleStatus, HandleNewName, HandleSameName, UpdateStatus
<1>2. CASE ForceRename(p, s)
  <2>1. \A n : [s EXCEPT !.name = n] = [name |-> n, ready |-> s.ready]
    BY DEF Status
  <2> QED
    BY <1>2, <2>1 DEF HandleStatus, ForceRename, UpdateStatus, Disturb
<1> QED
  BY <1>1, <1>2 DEF HandleStatus

\* One step keeps one peer in touch with the host.
LEMMA NextKeepsInTouch ==
    ASSUME TypeOK, TypeOK', HostUnforced, [Next]_rosterVars,
           NEW q \in Peers \ disturbed', InTouch(q)
    PROVE  InTouch(q)'
<1> USE DEF InTouch, IsEstablishedUser
<1> q \in Peers \ disturbed
  BY DisturbedGrows
<1>1. CASE UNCHANGED rosterVars
  BY <1>1 DEF rosterVars
<1>2. CASE HandleSelect
  BY <1>2 DEF HandleSelect
<1>3. ASSUME NEW s \in Status, HandleHostStatus(s) PROVE InTouch(q)'
  BY <1>3 DEF HandleHostStatus, UpdateStatus, TypeOK, HostUnforced
<1>4. ASSUME NEW p \in Peers, ConnectionEstablished(p) PROVE InTouch(q)'
  <2>1. CASE p # q
    BY <1>4, <2>1 DEF ConnectionEstablished, TypeOK
  <2>2. CASE p = q
    <3>1. users[q] = Absent /\ users'[q] = Silent
      BY <1>4, <2>2 DEF ConnectionEstablished, TypeOK
    <3>2. \A n \in renames[q] : [name |-> n, ready |-> core[q].ready] \in Status
      BY DEF TypeOK, Status
    <3>3. renames[q] = {}
      BY <3>1, <3>2, Marks
    <3> QED
      BY <1>4, <2>2, <3>1, <3>3 DEF ConnectionEstablished
  <2> QED
    BY <2>1, <2>2
<1>5. ASSUME NEW p \in Peers, ConnectionClosed(p) PROVE InTouch(q)'
  BY <1>5, Marks DEF ConnectionClosed, TypeOK
<1>6. ASSUME NEW p \in Peers, NEW s \in Status, SendStatus(p, s)
      PROVE  InTouch(q)'
  BY <1>6 DEF SendStatus, Disturb, Undisciplined, TypeOK
<1>7. ASSUME NEW p \in Peers, NEW s \in Status, HandleStatus(p, s)
      PROVE  InTouch(q)'
  <2>1. CASE p # q
    BY <1>7, <2>1, HandleStatusCases DEF TypeOK
  <2>2. CASE p = q
    <3>1. s = core[q] /\ renames[q] = {} /\ requests'[q] = {}
      BY <1>7, <2>2, HandleStatusCases DEF TypeOK
    <3>2. CASE users'[q] = s /\ UNCHANGED renames
      BY <1>7, <2>2, <3>1, <3>2, HandleStatusCases DEF TypeOK
    <3>3. CASE \E n \in FreshNames :
                  /\ users'[q] = [name |-> n, ready |-> s.ready]
                  /\ renames'[q] = {n}
      BY <1>7, <2>2, <3>1, <3>3, HandleStatusCases DEF TypeOK
    <3> QED
      BY <1>7, <2>2, <3>1, <3>2, <3>3, HandleStatusCases DEF TypeOK
  <2> QED
    BY <2>1, <2>2
<1>8. ASSUME NEW p \in Peers, NEW s \in Status, LoseStatus(p, s)
      PROVE  InTouch(q)'
  BY <1>8 DEF LoseStatus, Disturb, TypeOK
<1>9. ASSUME NEW p \in Peers, NEW n \in Names, ReceiveRename(p, n)
      PROVE  InTouch(q)'
  <2>1. CASE p # q
    BY <1>9, <2>1 DEF ReceiveRename, TypeOK
  <2>2. CASE p = q
    <3>1. /\ users[q] = [name |-> n, ready |-> core[q].ready]
          /\ requests[q] = {}
      BY <1>9, <2>2 DEF ReceiveRename
    <3>2. core'[q] = [name |-> n, ready |-> core[q].ready]
      BY <1>9, <2>2 DEF ReceiveRename, TypeOK, Status
    <3>3. \A m \in renames[q] : m = n
      <4> SUFFICES ASSUME NEW m \in renames[q] PROVE m = n
        OBVIOUS
      <4>1. users[q].name = n
        BY <3>1
      <4>2. users[q] = [name |-> m, ready |-> core[q].ready]
        OBVIOUS
      <4>3. users[q].name = m
        BY <4>2
      <4> QED
        BY <4>1, <4>3
    <3> QED
      BY <1>9, <2>2, <3>1, <3>2, <3>3 DEF ReceiveRename, TypeOK
  <2> QED
    BY <2>1, <2>2
<1>10. ASSUME NEW p \in Peers, NEW n \in Names, LoseRename(p, n)
       PROVE  InTouch(q)'
  BY <1>10 DEF LoseRename, Disturb, TypeOK
<1> QED
  BY <1>1, <1>2, <1>3, <1>4, <1>5, <1>6, <1>7, <1>8, <1>9, <1>10 DEF Next

LEMMA NextKeepsHostUnforced ==
    ASSUME TypeOK, HostUnforced, [Next]_rosterVars
    PROVE  HostUnforced'
<1> Host \in Peers /\ Host \notin Clients
  BY RosterAssumption DEF Peers
<1>1. ASSUME NEW p \in Peers, NEW s \in Status, HandleStatus(p, s)
      PROVE  HostUnforced'
  BY <1>1, HandleStatusCases DEF HostUnforced, TypeOK
<1> QED
  BY <1>1 DEF HostUnforced, TypeOK, Next, rosterVars, HandleSelect,
       HandleHostStatus, ConnectionEstablished, ConnectionClosed, SendStatus,
       LoseStatus, ReceiveRename, LoseRename

----------------------------------------------------------------------------
(* Exactness *)

\* A name is listed exactly if an established user bears it.
LEMMA ListedNames ==
    ASSUME Exact, NEW n
    PROVE  UsernameExists(n) <=>
               \E q \in Peers : IsEstablishedUser(q) /\ users[q].name = n
BY DEF Exact, UsernameExists

\* The step all handlers of a status have in common: the only status of p on
\* its way is entered as t, in place of the entry p had, under p's own name or
\* one that neither is listed nor will be without a check.
LEMMA EnterKeepsOrder ==
    ASSUME TypeOK, InOrder,
           NEW p \in Peers, NEW t \in Status,
           requests' = [requests EXCEPT ![p] = {}],
           users' = [users EXCEPT ![p] = t],
           list' = {u \in list : /\ u.name # t.name
                                 /\ IsEstablishedUser(p)
                                       => u.name # users[p].name} \cup {t},
           \/ IsEstablishedUser(p) /\ t.name = users[p].name
           \/ ~UsernameExists(t.name),
           \A q \in Peers \ {p} :
               Direct(q) => \A u \in requests[q] : u.name # t.name
    PROVE  InOrder'
<1> USE DEF IsEstablishedUser
<1>1. /\ users'[p] = t /\ t \notin {Absent, Silent}
      /\ \A q \in Peers \ {p} : users'[q] = users[q]
      /\ requests'[p] = {}
      /\ \A q \in Peers \ {p} : requests'[q] = requests[q]
  BY Marks DEF TypeOK
<1>2. \A q \in Peers \ {p} : IsEstablishedUser(q) =>
          /\ users[q] \in list
          /\ users[q].name # t.name
          /\ IsEstablishedUser(p) => users[q].name # users[p].name
  <2>1. Exact /\ UniqueNames
    BY DEF InOrder
  <2> SUFFICES ASSUME NEW q \in Peers \ {p}, IsEstablishedUser(q)
               PROVE  /\ users[q] \in list
                      /\ users[q].name # t.name
                      /\ IsEstablishedUser(p) => users[q].name # users[p].name
    OBVIOUS
  <2>2. users[q] \in list
    BY <2>1 DEF Exact
  <2>3. IsEstablishedUser(p) => users[q].name # users[p].name
    BY <2>1 DEF UniqueNames
  <2>4. users[q].name # t.name
    BY <2>2, <2>3 DEF UsernameExists
  <2> QED
    BY <2>2, <2>3, <2>4
<1>3. Exact'
  <2>1. \A u \in list' : \E q \in Peers :
            users'[q] \notin {Absent, Silent} /\ u = users'[q]
    <3> SUFFICES ASSUME NEW u \in list', u # t
                 PROVE  \E q \in Peers :
                            users'[q] \notin {Absent, Silent} /\ u = users'[q]
      BY <1>1
    <3>1. u \in list /\ (IsEstablishedUser(p) => u.name # users[p].name)
      OBVIOUS
    <3>2. PICK q \in Peers : IsEstablishedUser(q) /\ u = users[q]
      BY <3>1 DEF InOrder, Exact
    <3>3. q # p
      BY <3>1, <3>2
    <3> QED
      BY <3>2, <3>3, <1>1
  <2>2. \A q \in Peers : users'[q] \notin {Absent, Silent} => users'[q] \in list'
    BY <1>1, <1>2
  <2> QED
    BY <2>1, <2>2 DEF Exact
<1>4. UniqueNames'
  BY <1>1, <1>2 DEF UniqueNames, InOrder
<1>5. DirectNamesFree'
  <2> SUFFICES ASSUME NEW q \in Peers, NEW u \in requests'[q], Direct(q)'
               PROVE  \/ IsEstablishedUser(q)' /\ u.name = users'[q].name
                      \/ /\ ~UsernameExists(u.name)'
                         /\ q = Host => ~IsEstablishedUser(q)'
    BY DEF DirectNamesFree
  <2>1. q # p /\ users'[q] = users[q] /\ u \in requests[q] /\ Direct(q)
    BY <1>1 DEF Direct
  <2>2. u.name # t.name
    BY <2>1
  <2>3. ~UsernameExists(u.name) => ~UsernameExists(u.name)'
    BY <2>2 DEF UsernameExists
  <2> QED
    BY <2>1, <2>3 DEF DirectNamesFree, InOrder
<1>6. InFlightNamesDiffer'
  BY <1>1 DEF InFlightNamesDiffer, InOrder, Direct
<1> QED
  BY <1>3, <1>4, <1>5, <1>6 DEF InOrder

\* A client's status, whichever way handle_status takes.
LEMMA HandleStatusKeepsOrder ==
    ASSUME TypeOK, AllInTouch, InOrder, disturbed = {}, disturbed' = {},
           NEW p \in Peers, NEW s \in Status, HandleStatus(p, s)
    PROVE  InOrder'
<1>1. /\ p \in Clients /\ p # Host /\ s \in requests[p]
      /\ requests' = [requests EXCEPT ![p] = {}]
  BY RosterAssumption DEF HandleStatus, AllInTouch, InTouch, TypeOK
<1>2. \A q \in Peers \ {p} :
          Direct(q) => \A u \in requests[q] : u.name # s.name
  BY <1>1 DEF InOrder, InFlightNamesDiffer
<1>3. CASE HandleNewName(p, s)
  <2>1. list' = {u \in list : /\ u.name # s.name
                              /\ IsEstablishedUser(p)
                                    => u.name # users[p].name} \cup {s}
    BY <1>3 DEF HandleNewName, UpdateStatus, Replaced, Removed
  <2> QED
    BY <1>1, <1>2, <1>3, <2>1, EnterKeepsOrder DEF HandleNewName, UpdateStatus
<1>4. CASE HandleSameName(p, s)
  <2>1. \/ IsEstablishedUser(p) /\ s.name = users[p].name
        \/ ~IsEstablishedUser(p) /\ ~UsernameExists(s.name)
    BY <1>1, <1>4 DEF HandleSameName, InOrder, DirectNamesFree, Direct,
                      IsConnectedUser, IsEstablishedUser
  <2>2. list' = {u \in list : /\ u.name # s.name
                              /\ IsEstablishedUser(p)
                                    => u.name # users[p].name} \cup {s}
    BY <1>4, <2>1 DEF HandleSameName, UpdateStatus, Replaced, Removed
  <2> QED
    BY <1>1, <1>2, <1>4, <2>1, <2>2, EnterKeepsOrder
       DEF HandleSameName, UpdateStatus
<1>5. CASE ForceRename(p, s)
  <2>1. ~IsEstablishedUser(p)
    BY <1>5 DEF ForceRename, IsConnectedUser, IsEstablishedUser
  <2>2. PICK n \in FreshNames :
            /\ UpdateStatus(p, list, [s EXCEPT !.name = n])
            /\ disturbed' = disturbed \cup
                   (IF \E q \in Peers \ {p} :
                           Direct(q) /\ \E t \in requests[q] : t.name = n
                    THEN {p} ELSE {})
    BY <1>5 DEF ForceRename, Disturb
  <2> DEFINE t == [name |-> n, ready |-> s.ready]
  <2>3. n \in Names /\ ~UsernameExists(n)
    BY <2>2 DEF FreshNames
  <2>4. t \in Status /\ t.name = n /\ t = [s EXCEPT !.name = n]
    BY <2>3 DEF Status
  <2>5. users' = [users EXCEPT ![p] = t] /\ list' = Replaced(list, t)
    BY <2>2, <2>4 DEF UpdateStatus
  <2>6. \A q \in Peers \ {p} :
            Direct(q) => \A u \in requests[q] : u.name # n
    BY <2>2
  <2> HIDE DEF t
  <2>7. list' = {u \in list : /\ u.name # t.name
                              /\ IsEstablishedUser(p)
                                    => u.name # users[p].name} \cup {t}
    BY <2>1, <2>5 DEF Replaced, Removed
  <2>8. ~UsernameExists(t.name)
    BY <2>3, <2>4
  <2>9. \A q \in Peers \ {p} :
            Direct(q) => \A u \in requests[q] : u.name # t.name
    BY <2>4, <2>6
  <2>10. t \in Status
    BY <2>4
  <2>11. users' = [users EXCEPT ![p] = t]
    BY <2>5
  <2> QED
    BY <1>1, <2>7, <2>8, <2>9, <2>10, <2>11, EnterKeepsOrder
<1> QED
  BY <1>3, <1>4, <1>5 DEF HandleStatus

\* The host's own status: the name is the one it had, or its first.
LEMMA HandleHostStatusKeepsOrder ==
    ASSUME TypeOK, AllInTouch, InOrder, disturbed = {},
           NEW s \in Status, HandleHostStatus(s)
    PROVE  InOrder'
<1>1. /\ Host \in Peers /\ Direct(Host) /\ s \in requests[Host]
      /\ requests' = [requests EXCEPT ![Host] = {}]
  BY DEF HandleHostStatus, AllInTouch, InTouch, TypeOK, Peers, Direct
<1>2. \A q \in Peers \ {Host} : \A u \in requests[q] : u.name # s.name
  BY <1>1 DEF InOrder, InFlightNamesDiffer
<1>3. \/ IsEstablishedUser(Host) /\ s.name = users[Host].name
      \/ ~IsEstablishedUser(Host) /\ ~UsernameExists(s.name)
  BY <1>1 DEF InOrder, DirectNamesFree
<1>4. list' = {u \in list : /\ u.name # s.name
                            /\ IsEstablishedUser(Host)
                                  => u.name # users[Host].name} \cup {s}
  BY <1>3 DEF HandleHostStatus, UpdateStatus, Replaced, Removed
<1> QED
  BY <1>1, <1>2, <1>3, <1>4, EnterKeepsOrder DEF HandleHostStatus, UpdateStatus

\* A peer that is disciplined sends a name that keeps the flight in order.
LEMMA SendStatusKeepsOrder ==
    ASSUME TypeOK, InOrder, disturbed = {}, disturbed' = {},
           NEW p \in Peers, NEW s \in Status, SendStatus(p, s)
    PROVE  InOrder'
<1>1. /\ requests[p] = {} /\ ~Clash(p, s.name) /\ ~HostRenames(p, s.name)
      /\ requests' = [requests EXCEPT ![p] = {s}]
      /\ UNCHANGED <<users, list>>
  BY DEF SendStatus, Disturb, Undisciplined, TypeOK
<1>2. /\ \A u \in requests'[p] : u = s
      /\ \A q \in Peers \ {p} : requests'[q] = requests[q]
  BY <1>1 DEF TypeOK
<1>3. Exact' /\ UniqueNames'
  BY <1>1 DEF InOrder, Exact, UniqueNames, IsEstablishedUser
<1>4. DirectNamesFree'
  BY <1>1, <1>2 DEF InOrder, DirectNamesFree, Direct, IsEstablishedUser,
                    UsernameExists, Clash, HostRenames
<1>5. InFlightNamesDiffer'
  BY <1>1, <1>2 DEF InOrder, InFlightNamesDiffer, Direct, IsEstablishedUser, Clash
<1> QED
  BY <1>3, <1>4, <1>5 DEF InOrder

\* Who leaves takes the own entry along and nobody else's.
LEMMA ConnectionClosedKeepsOrder ==
    ASSUME TypeOK, InOrder, NEW p \in Peers, ConnectionClosed(p)
    PROVE  InOrder'
<1> USE DEF IsEstablishedUser
<1>1. /\ p \in Clients /\ p # Host
      /\ users'[p] = Absent /\ requests'[p] = {}
      /\ \A q \in Peers \ {p} :
             users'[q] = users[q] /\ requests'[q] = requests[q]
      /\ list' = IF IsEstablishedUser(p) THEN Removed(list, users[p]) ELSE list
  BY RosterAssumption DEF ConnectionClosed, TypeOK
<1>2. \A u \in list : u \notin list' =>
          IsEstablishedUser(p) /\ u.name = users[p].name
  BY <1>1 DEF Removed
<1>3. list' \subseteq list
  BY <1>1 DEF Removed
<1>4. Exact'
  <2>1. \A u \in list' : \E q \in Peers :
            users'[q] \notin {Absent, Silent} /\ u = users'[q]
    <3> SUFFICES ASSUME NEW u \in list'
                 PROVE  \E q \in Peers :
                            users'[q] \notin {Absent, Silent} /\ u = users'[q]
      OBVIOUS
    <3>1. PICK q \in Peers : IsEstablishedUser(q) /\ u = users[q]
      BY <1>3 DEF InOrder, Exact
    <3>2. q # p
      BY <1>1, <3>1 DEF Removed
    <3> QED
      BY <1>1, <3>1, <3>2
  <2>2. \A q \in Peers : users'[q] \notin {Absent, Silent} => users'[q] \in list'
    BY <1>1, <1>2 DEF InOrder, Exact, UniqueNames
  <2> QED
    BY <2>1, <2>2 DEF Exact
<1>5. UniqueNames'
  BY <1>1 DEF InOrder, UniqueNames
<1>6. DirectNamesFree'
  BY <1>1, <1>3 DEF InOrder, DirectNamesFree, Direct, UsernameExists
<1>7. InFlightNamesDiffer'
  BY <1>1 DEF InOrder, InFlightNamesDiffer, Direct
<1> QED
  BY <1>4, <1>5, <1>6, <1>7 DEF InOrder

LEMMA ConnectionEstablishedKeepsOrder ==
    ASSUME TypeOK, InOrder, NEW p \in Peers, ConnectionEstablished(p)
    PROVE  InOrder'
<1>1. /\ users[p] = Absent /\ users'[p] = Silent /\ p # Host
      /\ \A q \in Peers \ {p} : users'[q] = users[q]
      /\ UNCHANGED <<requests, list>>
  BY RosterAssumption DEF ConnectionEstablished, TypeOK
<1>2. \A q \in Peers : (users'[q] \notin {Absent, Silent})
          <=> (users[q] \notin {Absent, Silent})
  BY <1>1
<1>3. Exact' /\ UniqueNames'
  BY <1>1, <1>2 DEF InOrder, Exact, UniqueNames, IsEstablishedUser
<1>4. DirectNamesFree' /\ InFlightNamesDiffer'
  BY <1>1, <1>2 DEF InOrder, DirectNamesFree, InFlightNamesDiffer, Direct,
                    IsEstablishedUser, UsernameExists
<1> QED
  BY <1>3, <1>4 DEF InOrder

LEMMA NextKeepsOrder ==
    ASSUME TypeOK, AllInTouch, disturbed = {} => InOrder, [Next]_rosterVars,
           disturbed' = {}
    PROVE  InOrder'
<1>1. disturbed = {}
  BY DisturbedGrows
<1>2. ASSUME UNCHANGED <<users, list, requests>> PROVE InOrder'
  BY <1>1, <1>2 DEF InOrder, Exact, UniqueNames, DirectNamesFree,
       InFlightNamesDiffer, Direct, IsEstablishedUser, UsernameExists
<1>3. ASSUME NEW s \in Status, HandleHostStatus(s) PROVE InOrder'
  BY <1>1, <1>3, HandleHostStatusKeepsOrder
<1>4. ASSUME NEW p \in Peers, ConnectionEstablished(p) PROVE InOrder'
  BY <1>1, <1>4, ConnectionEstablishedKeepsOrder
<1>5. ASSUME NEW p \in Peers, ConnectionClosed(p) PROVE InOrder'
  BY <1>1, <1>5, ConnectionClosedKeepsOrder
<1>6. ASSUME NEW p \in Peers, NEW s \in Status, SendStatus(p, s) PROVE InOrder'
  BY <1>1, <1>6, SendStatusKeepsOrder
<1>7. ASSUME NEW p \in Peers, NEW s \in Status, HandleStatus(p, s)
      PROVE  InOrder'
  BY <1>1, <1>7, HandleStatusKeepsOrder
<1>8. ASSUME NEW p \in Peers, NEW s \in Status, LoseStatus(p, s) PROVE FALSE
  BY <1>8 DEF LoseStatus, Disturb
<1>9. ASSUME NEW p \in Peers, NEW n \in Names, LoseRename(p, n) PROVE FALSE
  BY <1>9 DEF LoseRename, Disturb
<1>10. ASSUME NEW p \in Peers, NEW n \in Names, ReceiveRename(p, n)
       PROVE  InOrder'
  BY <1>2, <1>10 DEF ReceiveRename
<1>11. CASE HandleSelect \/ UNCHANGED rosterVars
  BY <1>2, <1>11 DEF HandleSelect, rosterVars
<1> QED
  BY <1>3, <1>4, <1>5, <1>6, <1>7, <1>8, <1>9, <1>10, <1>11 DEF Next

----------------------------------------------------------------------------
(* The start of the playback *)

\* Start is broadcast on the very list that the step leaves behind.
LEMMA NextKeepsStartedReady ==
    ASSUME TypeOK, StartedReady, [Next]_rosterVars
    PROVE  StartedReady'
<1> SUFFICES ASSUME disturbed' = {}, started' PROVE AllUsersReady(list')
  BY DEF StartedReady, AllUsersReady
<1>1. ASSUME NEW p, NEW base, NEW s, UpdateStatus(p, base, s)
      PROVE  AllUsersReady(list')
  BY <1>1 DEF UpdateStatus, AllUsersReady
<1>2. ASSUME NEW p \in Peers, NEW s \in Status, HandleStatus(p, s)
      PROVE  AllUsersReady(list')
  <2>1. PICK b, t : UpdateStatus(p, b, t)
    BY <1>2 DEF HandleStatus, HandleNewName, HandleSameName, ForceRename
  <2> QED
    BY <1>1, <2>1
<1>3. ASSUME NEW s \in Status, HandleHostStatus(s) PROVE AllUsersReady(list')
  BY <1>1, <1>3 DEF HandleHostStatus
<1>4. CASE HandleSelect
  BY <1>4 DEF HandleSelect, AllUsersReady
<1>5. CASE UNCHANGED rosterVars
  BY <1>5 DEF rosterVars, StartedReady, AllUsersReady
<1>6. CASE started' = FALSE
  BY <1>6
<1> QED
  BY <1>2, <1>3, <1>4, <1>5, <1>6
     DEF Next, ConnectionEstablished, ConnectionClosed, SendStatus, LoseStatus,
         ReceiveRename, LoseRename

----------------------------------------------------------------------------
(* The theorems *)

LEMMA InitIInv == Init => IInv
<1> SUFFICES ASSUME Init PROVE IInv
  OBVIOUS
<1>1. TypeOK
  BY DEF Init, TypeOK, Status
<1>2. \A p \in Peers : ~IsEstablishedUser(p)
  BY DEF Init, IsEstablishedUser
<1>3. HostUnforced /\ AllInTouch
  BY <1>2 DEF Init, HostUnforced, AllInTouch, InTouch, Peers
<1>4. Exact /\ UniqueNames
  BY <1>2 DEF Init, Exact, UniqueNames
<1>5. DirectNamesFree /\ InFlightNamesDiffer
  BY DEF Init, DirectNamesFree, InFlightNamesDiffer
<1>6. StartedReady
  BY DEF Init, StartedReady
<1> QED
  BY <1>1, <1>3, <1>4, <1>5, <1>6 DEF IInv, InOrder

LEMMA NextKeepsIInv == IInv /\ [Next]_rosterVars => IInv'
<1> SUFFICES ASSUME IInv, [Next]_rosterVars PROVE IInv'
  OBVIOUS
<1>1. TypeOK'
  BY NextKeepsTypes DEF IInv
<1>2. HostUnforced'
  BY NextKeepsHostUnforced DEF IInv
<1>3. AllInTouch'
  <2> SUFFICES ASSUME NEW q \in Peers \ disturbed' PROVE InTouch(q)'
    BY DEF AllInTouch
  <2>1. InTouch(q)
    BY DisturbedGrows DEF IInv, AllInTouch
  <2> QED
    BY <1>1, <2>1, NextKeepsInTouch DEF IInv
<1>4. disturbed' = {} => InOrder'
  BY NextKeepsOrder DEF IInv
<1>5. StartedReady'
  BY NextKeepsStartedReady DEF IInv
<1> QED
  BY <1>1, <1>2, <1>3, <1>4, <1>5 DEF IInv

LEMMA InductiveInvariant == Spec => []IInv
BY InitIInv, NextKeepsIInv, PTL DEF Spec

\* What the host and the cores keep about the users has the types of the code.
THEOREM TypeCorrect == Spec => []TypeOK
<1>1. IInv => TypeOK
  BY DEF IInv
<1> QED
  BY <1>1, InductiveInvariant, PTL

\* handle_status and remove_peer keep status_list exact and its names unique
\* as long as every peer keeps the discipline.
THEOREM ListIsExact == Spec => []RosterExact
<1>1. IInv => RosterExact
  BY DEF IInv, InOrder, RosterExact
<1> QED
  BY <1>1, InductiveInvariant, PTL

\* handle_all_users_ready broadcasts Start only if every user is ready.
THEOREM StartIsEarned == Spec => []StartOnlyWhenReady
<1>1. IInv => StartOnlyWhenReady
  <2> SUFFICES ASSUME IInv, disturbed = {}, started,
                      NEW p \in Peers, IsEstablishedUser(p)
               PROVE  users[p].ready
    BY DEF StartOnlyWhenReady
  <2>1. AllUsersReady(list) /\ users[p] \in list
    BY DEF IInv, InOrder, StartedReady, Exact
  <2> QED
    BY <2>1 DEF AllUsersReady
<1> QED
  BY <1>1, InductiveInvariant, PTL

\* A peer that keeps the discipline and the host agree on its name and its
\* readiness whenever nothing is on its way between them.
THEOREM PeersAgree == Spec => []Agreement
<1>1. IInv => Agreement
  BY DEF IInv, AllInTouch, InTouch, Agreement
<1> QED
  BY <1>1, InductiveInvariant, PTL
=============================================================================
