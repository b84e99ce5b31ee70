------------------------------- MODULE Roster -------------------------------
(***************************************************************************)
(* Who is in the room and who is ready: the part of the host's session     *)
(* (client/communicator/src/p2p/host.rs) that keeps the map `users' from   *)
(* peers to their last status and the list `status_list' that everybody    *)
(* sees, together with what the peers' cores send to it.                   *)
(*                                                                         *)
(* A status carries the user's name and whether the user is ready.  The    *)
(* list is a set ordered by name alone (client/core/src/user.rs), so a     *)
(* second status of the same name takes the place of the first.  A         *)
(* newcomer whose name is taken gets another one, which the host sends to  *)
(* it as a request of its own.                                             *)
(*                                                                         *)
(* Requests to and from the host travel on streams of their own: they may  *)
(* overtake each other, and a connection that closes while another one to  *)
(* the same peer stays open takes its requests with it.                    *)
(***************************************************************************)
EXTENDS Naturals, FiniteSets

CONSTANTS
    Host,         \* the peer that hosts the room
    Clients,      \* the other peers
    Names,        \* user names
    MaxInFlight,  \* bound: statuses of one peer on their way to the host
    MaxDisturbed, \* bound: peers that break the discipline (see disturbed)
    Absent,       \* the host has no connection to the peer
    Silent        \* connected, but no status received: Some(None) in `users'

Peers == {Host} \cup Clients
Status == [name : Names, ready : BOOLEAN]

ASSUME RosterAssumption ==
    /\ Host \notin Clients
    /\ MaxInFlight \in Nat /\ MaxDisturbed \in Nat
    /\ Absent # Silent /\ Absent \notin Status /\ Silent \notin Status

VARIABLES
    core,       \* core[p]: user name and readiness in the core of peer p
    requests,   \* requests[p]: statuses of p on their way to the host
    renames,    \* renames[p]: forced names on their way to p
    users,      \* users[p]: what the host knows of p
    list,       \* the statuses in the list, no two of the same name
    started,    \* whether the last event made the host broadcast Start
    disturbed   \* history: the peers that broke the discipline below

rosterVars == <<core, requests, renames, users, list, started, disturbed>>

TypeOK ==
    /\ core \in [Peers -> Status]
    /\ requests \in [Peers -> SUBSET Status]
    /\ renames \in [Peers -> SUBSET Names]
    /\ users \in [Peers -> Status \cup {Absent, Silent}]
    /\ list \subseteq Status
    /\ \A s, t \in list : s.name = t.name => s = t
    /\ started \in BOOLEAN
    /\ disturbed \subseteq Peers

----------------------------------------------------------------------------
(* Helpers, named as in host.rs *)

IsEstablishedUser(p) == users[p] \notin {Absent, Silent}
IsConnectedUser(p) == users[p] = Silent
UsernameExists(n) == \E s \in list : s.name = n
AllUsersReady(l) == \A s \in l : s.ready

\* status_list.users.remove and .replace compare names only.
Removed(l, s) == {t \in l : t.name # s.name}

\* Two slips, to show what TypeOK and RosterExact say: a status is inserted
\* beside an older one of its name, or only if there is none.
ReplacedBeside(l, s) == l \cup {s}
ReplacedIfNew(l, s) == IF \E t \in l : t.name = s.name THEN l ELSE l \cup {s}

Replaced(l, s) == Removed(l, s) \cup {s}

\* The names roll_new_username may come up with: not in the list.
FreshNames == {n \in Names : ~UsernameExists(n)}

\* Whether the host takes a status of p as it is, without a look at the names
\* the others use.
Direct(p) == p = Host \/ IsEstablishedUser(p)

\* A status of p under the name n races with somebody else's use of that name
\* in a way the host does not notice.
Clash(p, n) ==
    \/ /\ Direct(p)
       /\ UsernameExists(n)
       /\ IsEstablishedUser(p) => n # users[p].name
    \/ \E q \in Peers \ {p} :
           /\ Direct(p) \/ Direct(q)
           /\ \E s \in requests[q] : s.name = n

\* The host changes its own name: its old entry stays in the list.
HostRenames(p, n) == p = Host /\ IsEstablishedUser(p) /\ n # users[p].name

\* The discipline under which the list is exact: a peer sends no status while
\* one of its own or a forced name is under way, and takes no name in use.
Undisciplined(p, n) ==
    \/ requests[p] # {}
    \/ renames[p] # {}
    \/ Clash(p, n)
    \/ HostRenames(p, n)

Disturb(P) ==
    /\ disturbed' = disturbed \cup P
    /\ Cardinality(disturbed') <= MaxDisturbed

----------------------------------------------------------------------------
(* The peers' cores *)

\* Every step of a core that sends its status: the session is up (ConnectedMsg),
\* the player was paused or started or ran out of cache, the user changed the
\* name or the readiness in the interface.  What a core changes while it has
\* no session is part of the first status it sends in the next one.
SendStatus(p, s) ==
    /\ p = Host \/ users[p] # Absent
    /\ Cardinality(requests[p]) < MaxInFlight
    /\ core' = [core EXCEPT ![p] = s]
    /\ requests' = [requests EXCEPT ![p] = @ \cup {s}]
    /\ Disturb(IF Undisciplined(p, s.name) THEN {p} ELSE {})
    /\ started' = FALSE
    /\ UNCHANGED <<renames, users, list>>

\* A forced name arrives: the core takes it over and sends nothing back.
ReceiveRename(p, n) ==
    /\ n \in renames[p]
    /\ renames' = [renames EXCEPT ![p] = @ \ {n}]
    /\ core' = [core EXCEPT ![p].name = n]
    /\ started' = FALSE
    /\ UNCHANGED <<requests, users, list, disturbed>>

----------------------------------------------------------------------------
(* The host *)

\* The first connection to a peer.
ConnectionEstablished(p) ==
    /\ p \in Clients
    /\ users[p] = Absent
    /\ users' = [users EXCEPT ![p] = Silent]
    /\ started' = FALSE
    /\ UNCHANGED <<core, requests, renames, list, disturbed>>

\* The last connection to a peer closed: remove_peer, and whatever was under
\* way is gone.  Nobody checks whether the others are all ready now.
ConnectionClosed(p) ==
    /\ p \in Clients
    /\ users[p] # Absent
    /\ users' = [users EXCEPT ![p] = Absent]
    /\ list' = IF IsEstablishedUser(p) THEN Removed(list, users[p]) ELSE list
    /\ requests' = [requests EXCEPT ![p] = {}]
    /\ renames' = [renames EXCEPT ![p] = {}]
    /\ started' = FALSE
    /\ UNCHANGED <<core, disturbed>>

\* A slip, to show what StartOnlyWhenReady says: the readiness of all is looked
\* at before the status is entered.
UpdateStatusCheckedFirst(p, base, s) ==
    /\ list' = Replaced(base, s)
    /\ users' = [users EXCEPT ![p] = s]
    /\ started' = AllUsersReady(base)

\* update_status, then handle_all_users_ready; the list that is broadcast is
\* the new one.
UpdateStatus(p, base, s) ==
    /\ list' = Replaced(base, s)
    /\ users' = [users EXCEPT ![p] = s]
    /\ started' = AllUsersReady(list')

\* handle_status, an established user under a name nobody is listed under.
HandleNewName(p, s) ==
    /\ IsEstablishedUser(p)
    /\ ~UsernameExists(s.name)
    /\ UpdateStatus(p, Removed(list, users[p]), s)
    /\ UNCHANGED <<renames, disturbed>>

\* handle_status, an established user under a listed name (taken for the
\* user's own), or a newcomer under a new name.
HandleSameName(p, s) ==
    /\ \/ IsEstablishedUser(p) /\ UsernameExists(s.name)
       \/ IsConnectedUser(p) /\ ~UsernameExists(s.name)
    /\ UpdateStatus(p, list, s)
    /\ UNCHANGED <<renames, disturbed>>

\* A slip, to show what Agreement says: the newcomer is not told.
ForceRenameUntold(p, s) ==
    /\ IsConnectedUser(p)
    /\ UsernameExists(s.name)
    /\ \E n \in FreshNames : UpdateStatus(p, list, [s EXCEPT !.name = n])
    /\ UNCHANGED <<renames, disturbed>>

\* handle_status, a newcomer under a listed name: it gets another one.
ForceRename(p, s) ==
    /\ IsConnectedUser(p)
    /\ UsernameExists(s.name)
    /\ \E n \in FreshNames :
           /\ UpdateStatus(p, list, [s EXCEPT !.name = n])
           /\ renames' = [renames EXCEPT ![p] = @ \cup {n}]
           /\ Disturb(IF \E q \in Peers \ {p} :
                             Direct(q) /\ \E t \in requests[q] : t.name = n
                      THEN {p} ELSE {})

\* A status request of a client.
HandleStatus(p, s) ==
    /\ p \in Clients
    /\ s \in requests[p]
    /\ HandleNewName(p, s) \/ HandleSameName(p, s) \/ ForceRename(p, s)
    /\ requests' = [requests EXCEPT ![p] = @ \ {s}]
    /\ UNCHANGED core

\* A status of the host's own core: update_status without handle_status.
HandleHostStatus(s) ==
    /\ s \in requests[Host]
    /\ UpdateStatus(Host, list, s)
    /\ requests' = [requests EXCEPT ![Host] = @ \ {s}]
    /\ UNCHANGED <<core, renames, disturbed>>

\* A Select, or a Playlist that makes the host select: the readiness of all is
\* looked at again.
HandleSelect ==
    /\ started' = AllUsersReady(list)
    /\ UNCHANGED <<core, requests, renames, users, list, disturbed>>

----------------------------------------------------------------------------
(* The network: a connection closes, another one to the same peer stays open *)

LoseStatus(p, s) ==
    /\ p \in Clients
    /\ s \in requests[p]
    /\ requests' = [requests EXCEPT ![p] = @ \ {s}]
    /\ Disturb({p})
    /\ started' = FALSE
    /\ UNCHANGED <<core, renames, users, list>>

LoseRename(p, n) ==
    /\ n \in renames[p]
    /\ renames' = [renames EXCEPT ![p] = @ \ {n}]
    /\ Disturb({p})
    /\ started' = FALSE
    /\ UNCHANGED <<core, requests, users, list>>

----------------------------------------------------------------------------

Init ==
    /\ core \in [Peers -> [name : Names, ready : {FALSE}]]
    /\ requests = [p \in Peers |-> {}]
    /\ renames = [p \in Peers |-> {}]
    /\ users = [p \in Peers |-> Absent]
    /\ list = {}
    /\ started = FALSE
    /\ disturbed = {}

Next ==
    \/ HandleSelect
    \/ \E s \in Status : HandleHostStatus(s)
    \/ \E p \in Peers :
           \/ ConnectionEstablished(p)
           \/ ConnectionClosed(p)
           \/ \E s \in Status :
                  \/ SendStatus(p, s)
                  \/ HandleStatus(p, s)
                  \/ LoseStatus(p, s)
           \/ \E n \in Names :
                  \/ ReceiveRename(p, n)
                  \/ LoseRename(p, n)

Spec == Init /\ [][Next]_rosterVars

----------------------------------------------------------------------------
(* Properties *)

\* The list is exact: it shows every user that sent a status, under the name
\* and with the readiness the host knows of it, and nobody else.
Exact == list = {users[p] : p \in {q \in Peers : IsEstablishedUser(q)}}

\* No two users go by the same name.
UniqueNames ==
    \A p, q \in Peers :
        (IsEstablishedUser(p) /\ IsEstablishedUser(q) /\ p # q)
            => users[p].name # users[q].name

\* While all peers are disciplined the list is exact and names are unique,
\* whatever newcomers call themselves and whoever leaves when.
RosterExact == disturbed = {} => Exact /\ UniqueNames

\* While all peers are disciplined, playback is started for the room only if
\* every user in it is ready, the ones under a forced name included.
StartOnlyWhenReady ==
    (disturbed = {} /\ started) =>
        \A p \in Peers : IsEstablishedUser(p) => users[p].ready

\* When nothing is under way between the host and an established peer that
\* kept the discipline, the host knows the peer by the name and the readiness
\* its own core has, whatever the other peers did.
Agreement ==
    \A p \in Peers \ disturbed :
        (IsEstablishedUser(p) /\ requests[p] = {} /\ renames[p] = {})
            => users[p] = core[p]
=============================================================================
