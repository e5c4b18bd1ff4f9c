--------------------------- MODULE SharingProofs ---------------------------
(***************************************************************************)
(* Proofs about saved results and who may see them, for every set of       *)
(* users, groups and connections and every request the clients send.       *)
(***************************************************************************)
EXTENDS Sharing, TLAPS

Phases == {"idle", "fetch", "admin", "acl", "owner", "ownerbits", "bits", "member",
           "lookup", "group", "leader", "lead", "write", "refused"}

SeenRecord == [grp : SUBSET Actions, all : SUBSET Actions,
               group : Groups \cup {NoGroup}, serial : Nat]

TablesOK ==
    /\ users \in [Users -> {"none", "user", "admin"}]
    /\ groups \in [Groups -> Users \cup {NoUser}]
    /\ members \in [Groups \X Users -> {"none", "member", "leader"}]
    /\ results \in [Ids -> ResultRow \cup {NoRow}]
    /\ nextId \in 1..(MaxResults + 1)
    /\ acls \in [Ids \X Users -> (SUBSET Actions) \cup {NoACL}]
    /\ limited \subseteq Users
    /\ saves \in 0..MaxResults

\* A connection without a request remembers nothing; one with a request is
\* where a request of its kind may be.
ConnOK(c) ==
    /\ phase[c] = "idle" => req[c] = NoReq /\ seen[c] = NoSeen
    /\ phase[c] # "idle" => req[c] \in AllRequests
    /\ phase[c] = "fetch" => req[c].kind \in {"get", "chown"}
    /\ phase[c] \in {"lookup", "group", "leader", "lead"} => req[c].kind \notin Checked

ConnsOK ==
    /\ req \in [Conns -> AllRequests \cup {NoReq}]
    /\ phase \in [Conns -> Phases]
    /\ seen \in [Conns -> SeenRecord]
    /\ \A c \in Conns : ConnOK(c)

\* AUTOINCREMENT is ahead of every row.
IdsOK == \A i \in Ids : Exists(i) => i < nextId

\* What a request has read of a result is still that result's, or the result
\* is gone for good.
SeenIsSame ==
    \A c \in Conns : seen[c].serial # 0 =>
        /\ req[c].id < nextId
        /\ Exists(req[c].id) => results[req[c].id].serial = seen[c].serial

\* What the statements of CanAccess have established once a request r is in
\* phase ph with what it has seen, when nothing has changed since.
Established(r, ph, sn) ==
    /\ ph \in {"acl", "owner", "ownerbits", "bits", "member"} => users[r.by] # "admin"
    /\ ph \in {"owner", "ownerbits", "bits", "member"} => Needs(r.kind) \notin acls[<<r.id, r.by>>]
    /\ ph = "ownerbits" => IsOwner(r.by, r.id)
    /\ ph \in {"bits", "member"} => ~IsOwner(r.by, r.id)
    /\ ph = "member" =>
          /\ Readable(r.id)
          /\ sn.grp = results[r.id].pGroup
          /\ sn.all = results[r.id].pAll
          /\ sn.group = results[r.id].group
    /\ ph = "write" => CanAccess(r.by, r.id, Needs(r.kind))
    /\ ph = "refused" => ~CanAccess(r.by, r.id, Needs(r.kind))

CalmAsks == \A c \in calm : c \in Conns /\ Asks(c)

CheckSoFar == \A c \in calm : Established(req[c], phase[c], seen[c])

\* What holds of a request r of connection c in phase ph that the rule has not
\* allowed so far, unless both its result and its requester have changed: the
\* requester owns the result or not, as was read; the public bits that were
\* read are not enough; nor are the group's, if the result is still the one
\* that was read or the requester is in the groups that he was in.
Track(c, r, ph, sn) ==
    /\ ph = "ownerbits" => IsOwner(r.by, r.id)
    /\ ph \in {"bits", "member"} => ~IsOwner(r.by, r.id)
    /\ ph = "member" =>
          /\ sn.group \in Groups
          /\ Needs(r.kind) \notin sn.all
          /\ Needs(r.kind) \in sn.grp =>
                /\ c \notin edited => /\ Readable(r.id)
                                      /\ results[r.id].pGroup = sn.grp
                                      /\ results[r.id].group = sn.group
                /\ c \notin turned => ~IsMember(r.by, sn.group)
    /\ ph # "write"

Excused(c) == c \in edited /\ c \in turned

OnTrack(c) ==
    Asks(c) /\ c \notin allowed /\ ~Excused(c) => Track(c, req[c], phase[c], seen[c])

RightSoFar ==
    /\ \A c \in Conns : Rule(c) => c \in allowed
    /\ \A c \in Conns : OnTrack(c)

TablesInv == TablesOK /\ Referential /\ IdsOK

IInv == TablesInv /\ ConnsOK /\ SeenIsSame /\ CheckSoFar /\ RightSoFar /\ CalmAsks

\* No step puts a new result in the place of an old one.
NoReuse ==
    /\ nextId' >= nextId
    /\ \A i \in Ids : i < nextId /\ results'[i] # NoRow =>
          results[i] # NoRow /\ results'[i].serial = results[i].serial

-----------------------------------------------------------------------------
LEMMA Consts ==
    /\ MaxResults \in Nat /\ Ids \subseteq Nat
    /\ NoUser \notin Users /\ NoGroup \notin Groups /\ Null \notin Groups
    /\ Edited \subseteq Users
    /\ \A c \in Conns : Requests[c] \subseteq AllRequests
BY SharingAssumption DEF Ids

LEMMA RowFacts ==
    ASSUME NEW row \in ResultRow
    PROVE  /\ row # NoRow
           /\ row.owner \in Users /\ row.group \in Groups \cup {Null} /\ row.serial \in Nat
           /\ row.pOwner \in SUBSET Actions /\ row.pGroup \in SUBSET Actions
           /\ row.pAll \in SUBSET Actions
<1>1. row.owner \in Users
  BY DEF ResultRow
<1>2. NoRow.owner = NoUser
  BY DEF NoRow
<1>3. row # NoRow
  BY <1>1, <1>2, Consts
<1> QED BY <1>3 DEF ResultRow

LEMMA RequestFacts ==
    ASSUME NEW r \in AllRequests
    PROVE  /\ r.kind \in Kinds /\ r.by \in Users /\ r.user \in Users /\ r.id \in Ids
           /\ r.group \in Groups \cup {NoGroup} /\ r.item \in Items
           /\ r.role \in {"member", "leader"}
           /\ r.owner \in SUBSET Actions /\ r.grp \in SUBSET Actions /\ r.all \in SUBSET Actions
BY DEF AllRequests

LEMMA ACLFacts == \A s \in SUBSET Actions : s # NoACL
BY DEF Actions, NoACL

\* A table whose key is a pair, with one row replaced.
LEMMA PairUpdate ==
    ASSUME NEW A, NEW B, NEW R, NEW f \in [A \X B -> R], NEW a, NEW b, NEW x \in R, NEW g,
           g = [f EXCEPT ![<<a, b>>] = x]
    PROVE  /\ g \in [A \X B -> R]
           /\ \A i \in A : \A j \in B : g[<<i, j>>] = f[<<i, j>>] \/ (i = a /\ j = b /\ g[<<i, j>>] = x)
<1>1. ASSUME NEW i \in A, NEW j \in B
      PROVE  g[<<i, j>>] = f[<<i, j>>] \/ (i = a /\ j = b /\ g[<<i, j>>] = x)
  <2>1. <<i, j>> \in A \X B
    OBVIOUS
  <2>2. ASSUME NEW D, f \in [D -> R], NEW k \in D, NEW l, g = [f EXCEPT ![l] = x]
        PROVE  (k # l => g[k] = f[k]) /\ (k = l => g[k] = x)
    BY <2>2
  <2>3. /\ <<i, j>> # <<a, b>> => g[<<i, j>>] = f[<<i, j>>]
        /\ <<i, j>> = <<a, b>> => g[<<i, j>>] = x
    BY <2>1, <2>2
  <2>4. <<i, j>> = <<a, b>> => i = a /\ j = b
    OBVIOUS
  <2> QED BY <2>3, <2>4
<1>2. g \in [A \X B -> R]
  <2> DEFINE D == A \X B
  <2>1. f \in [D -> R]
    OBVIOUS
  <2> HIDE DEF D
  <2>2. g \in [D -> R]
    BY <2>1
  <2> QED BY <2>2 DEF D
<1> QED BY <1>1, <1>2

\* Steps that leave the tables alone.
LEMMA SameTables ==
    ASSUME TablesInv, UNCHANGED <<tables, saves>>
    PROVE  TablesInv' /\ NoReuse
<1>1. TablesOK' /\ Referential' /\ IdsOK'
  BY DEF TablesInv, TablesOK, Referential, IdsOK, Exists, tables
<1>2. NoReuse
  BY DEF TablesInv, TablesOK, NoReuse, tables
<1> QED BY <1>1, <1>2 DEF TablesInv

-----------------------------------------------------------------------------
\* The statements that write, one by one.

LEMMA InsertKeeps ==
    ASSUME TablesInv, NEW c \in Conns, req[c] \in AllRequests, NEW o \in Users, Insert(c, o),
           UNCHANGED <<users, groups, members, acls, limited>>
    PROVE  TablesInv' /\ NoReuse
<1>1. CASE UNCHANGED <<results, nextId, saves>>
  BY <1>1, SameTables DEF tables
<1>2. CASE ~UNCHANGED <<results, nextId, saves>>
  <2> DEFINE row == [owner |-> o, item |-> req[c].item, pOwner |-> req[c].owner,
                     pGroup |-> req[c].grp, pAll |-> req[c].all, group |-> req[c].group,
                     serial |-> saves + 1]
  <2>1. /\ users[o] # "none" /\ GroupRef(req[c].group) /\ saves < MaxResults /\ nextId \in Ids
        /\ results' = [results EXCEPT ![nextId] = row]
        /\ nextId' = nextId + 1 /\ saves' = saves + 1
    BY <1>2 DEF Insert, FreshId
  <2>2. saves \in Nat /\ nextId \in Nat /\ nextId <= MaxResults
    BY <2>1, Consts DEF TablesInv, TablesOK, Ids
  <2>3. row \in ResultRow /\ row.owner = o /\ row.group = req[c].group
    BY <2>1, <2>2, RequestFacts DEF ResultRow, GroupRef
  <2> HIDE DEF row
  <2>4. /\ results \in [Ids -> ResultRow \cup {NoRow}]
        /\ results'[nextId] = row
        /\ \A i \in Ids \ {nextId} : results'[i] = results[i]
    BY <2>1 DEF TablesInv, TablesOK
  <2>5. TablesOK'
    BY <2>1, <2>2, <2>3, <2>4, Consts DEF TablesInv, TablesOK, Ids
  <2>6. Referential'
    <3>1. /\ \A i \in Ids : results'[i] # NoRow =>
                /\ users[results'[i].owner] # "none"
                /\ results'[i].group # Null => groups[results'[i].group] # NoUser
          /\ \A i \in Ids : results[i] # NoRow => results'[i] # NoRow
      BY <2>1, <2>3, <2>4, RowFacts DEF TablesInv, Referential, Exists, GroupRef
    <3> QED BY <3>1 DEF TablesInv, Referential, Exists
  <2>7. IdsOK'
    <3> SUFFICES ASSUME NEW i \in Ids, results'[i] # NoRow PROVE i < nextId + 1
      BY <2>1 DEF IdsOK, Exists
    <3>1. i = nextId \/ i < nextId
      BY <2>4 DEF TablesInv, IdsOK, Exists
    <3>2. i \in Nat
      BY Consts
    <3> HIDE DEF TablesInv
    <3> QED BY <2>2, <3>1, <3>2
  <2>8. NoReuse
    BY <2>1, <2>2, <2>4, Consts DEF NoReuse
  <2> QED BY <2>5, <2>6, <2>7, <2>8 DEF TablesInv
<1> QED BY <1>1, <1>2

\* Results go, with the rows of result_acls that refer to them or to left.
LEMMA DropKeeps ==
    ASSUME TablesInv, NEW gone \in SUBSET Ids, NEW left \in SUBSET Users,
           DropResults(gone), DropACLs(gone, left),
           users' \in [Users -> {"none", "user", "admin"}],
           \A u \in Users : users'[u] = "none" /\ users[u] # "none" =>
              u \in left /\ u \notin limited /\ Owned(u) \subseteq gone,
           UNCHANGED <<groups, members, nextId, limited, saves>>
    PROVE  TablesInv' /\ NoReuse
<1>1. \A i \in Ids : results'[i] = (IF i \in gone THEN NoRow ELSE results[i])
  BY DEF DropResults
<1>2. \A i \in Ids : \A u \in Users :
         acls'[<<i, u>>] = (IF i \in gone \/ u \in left THEN NoACL ELSE acls[<<i, u>>])
  BY DEF DropACLs
<1>3. TablesOK'
  <2>1. results' \in [Ids -> ResultRow \cup {NoRow}]
    BY DEF DropResults, TablesInv, TablesOK
  <2>2. acls' \in [Ids \X Users -> (SUBSET Actions) \cup {NoACL}]
    <3> DEFINE D == Ids \X Users
               R == (SUBSET Actions) \cup {NoACL}
    <3>1. \A p \in D : acls[p] \in R
      BY DEF TablesInv, TablesOK
    <3>2. acls' = [p \in D |-> IF p[1] \in gone \/ p[2] \in left THEN NoACL ELSE acls[p]]
      BY DEF DropACLs
    <3>3. NoACL \in R
      OBVIOUS
    <3> HIDE DEF D, R
    <3>4. acls' \in [D -> R]
      BY <3>1, <3>2, <3>3
    <3> QED BY <3>4 DEF D, R
  <2> QED BY <2>1, <2>2 DEF TablesInv, TablesOK
<1>4. Referential'
  <2>1. ASSUME NEW i \in Ids, results'[i] # NoRow
        PROVE  /\ users'[results'[i].owner] # "none"
               /\ results'[i].group # Null => groups[results'[i].group] # NoUser
    <3>1. i \notin gone /\ results'[i] = results[i] /\ results[i] # NoRow
      BY <1>1, <2>1
    <3>2. results[i] \in ResultRow
      BY <3>1 DEF TablesInv, TablesOK
    <3>3. results[i].owner \in Users /\ users[results[i].owner] # "none"
      BY <3>1, <3>2, RowFacts DEF TablesInv, Referential, Exists
    <3>4. users'[results[i].owner] # "none"
      BY <3>1, <3>3 DEF Owned, Exists
    <3> QED BY <3>1, <3>4 DEF TablesInv, Referential, Exists
  <2>2. ASSUME NEW i \in Ids, NEW u \in Users, acls'[<<i, u>>] # NoACL
        PROVE  results'[i] # NoRow /\ users'[u] # "none"
    <3>1. i \notin gone /\ u \notin left /\ acls[<<i, u>>] # NoACL
      BY <1>2, <2>2
    <3> QED BY <1>1, <3>1 DEF TablesInv, Referential, Exists
  <2>3. \A u \in limited : users'[u] # "none"
    BY DEF TablesInv, TablesOK, Referential
  <2> QED BY <2>1, <2>2, <2>3 DEF TablesInv, Referential, Exists
<1>5. IdsOK' /\ NoReuse
  BY <1>1, Consts DEF TablesInv, TablesOK, IdsOK, Exists, NoReuse
<1> QED BY <1>3, <1>4, <1>5 DEF TablesInv

\* One row is replaced by one of the same result with an owner and a group
\* that are there.
LEMMA UpdateKeeps ==
    ASSUME TablesInv, NEW id \in Ids, NEW row \in ResultRow, results[id] # NoRow,
           results' = [results EXCEPT ![id] = row],
           row.serial = results[id].serial,
           users[row.owner] # "none", GroupRef(row.group),
           UNCHANGED <<users, groups, members, nextId, acls, limited, saves>>
    PROVE  TablesInv' /\ NoReuse
<1>1. /\ results \in [Ids -> ResultRow \cup {NoRow}]
      /\ results'[id] = row
      /\ \A i \in Ids \ {id} : results'[i] = results[i]
      /\ row # NoRow
  BY RowFacts DEF TablesInv, TablesOK
<1>2. TablesOK'
  BY <1>1 DEF TablesInv, TablesOK
<1>3. Referential'
  <2>1. /\ \A i \in Ids : results'[i] # NoRow =>
              /\ users[results'[i].owner] # "none"
              /\ results'[i].group # Null => groups[results'[i].group] # NoUser
        /\ \A i \in Ids : results[i] # NoRow => results'[i] # NoRow
    BY <1>1 DEF TablesInv, Referential, Exists, GroupRef
  <2> QED BY <2>1 DEF TablesInv, Referential, Exists
<1>4. IdsOK' /\ NoReuse
  BY <1>1 DEF TablesInv, TablesOK, IdsOK, Exists, NoReuse
<1> QED BY <1>2, <1>3, <1>4 DEF TablesInv

\* A grant to a user that is there on a result that is there, or one grant less.
LEMMA GrantKeeps ==
    ASSUME TablesInv, NEW id \in Ids, NEW u \in Users, NEW p \in (SUBSET Actions) \cup {NoACL},
           p # NoACL => Exists(id) /\ users[u] # "none",
           acls' = [acls EXCEPT ![<<id, u>>] = p],
           UNCHANGED <<users, groups, members, results, nextId, limited, saves>>
    PROVE  TablesInv' /\ NoReuse
<1>1. /\ acls' \in [Ids \X Users -> (SUBSET Actions) \cup {NoACL}]
      /\ \A i \in Ids : \A v \in Users :
            acls'[<<i, v>>] = acls[<<i, v>>] \/ (i = id /\ v = u /\ acls'[<<i, v>>] = p)
  <2> DEFINE R == (SUBSET Actions) \cup {NoACL}
  <2>1. acls \in [Ids \X Users -> R] /\ p \in R
    BY DEF TablesInv, TablesOK
  <2> HIDE DEF R
  <2>2. /\ acls' \in [Ids \X Users -> R]
        /\ \A i \in Ids : \A v \in Users :
              acls'[<<i, v>>] = acls[<<i, v>>] \/ (i = id /\ v = u /\ acls'[<<i, v>>] = p)
    BY <2>1, PairUpdate, Zenon
  <2> QED BY <2>2 DEF R
<1>2. TablesOK'
  BY <1>1 DEF TablesInv, TablesOK
<1>3. Referential'
  BY <1>1 DEF TablesInv, Referential, Exists
<1>4. IdsOK' /\ NoReuse
  BY DEF TablesInv, TablesOK, IdsOK, Exists, NoReuse
<1> QED BY <1>2, <1>3, <1>4 DEF TablesInv

\* A new group.
LEMMA NewGroupKeeps ==
    ASSUME TablesInv, NEW g \in Groups, NEW u \in Users, InsertGroup(g, u),
           UNCHANGED <<users, members, results, nextId, acls, limited, saves>>
    PROVE  TablesInv' /\ NoReuse
<1>1. /\ groups' \in [Groups -> Users \cup {NoUser}]
      /\ \A h \in Groups : groups[h] # NoUser => groups'[h] # NoUser
  BY Consts DEF InsertGroup, TablesInv, TablesOK
<1>2. TablesOK'
  BY <1>1 DEF TablesInv, TablesOK
<1>3. Referential'
  <2>1. \A i \in Ids : Exists(i) => results[i].group \in Groups \cup {Null}
    BY RowFacts DEF TablesInv, TablesOK, Exists
  <2> QED BY <1>1, <2>1 DEF TablesInv, Referential, Exists
<1>4. IdsOK' /\ NoReuse
  BY DEF TablesInv, TablesOK, IdsOK, Exists, NoReuse
<1> QED BY <1>2, <1>3, <1>4 DEF TablesInv

\* A row of group_members of a group that is there, or one row less.
LEMMA MemberKeeps ==
    ASSUME TablesInv, NEW g, NEW u, NEW m \in {"none", "member", "leader"},
           m # "none" => GroupRef(g),
           members' = [members EXCEPT ![<<g, u>>] = m],
           UNCHANGED <<users, groups, results, nextId, acls, limited, saves>>
    PROVE  TablesInv' /\ NoReuse
<1>1. /\ members' \in [Groups \X Users -> {"none", "member", "leader"}]
      /\ \A h \in Groups : \A v \in Users :
            members'[<<h, v>>] = members[<<h, v>>] \/ (h = g /\ members'[<<h, v>>] = m)
  <2> DEFINE R == {"none", "member", "leader"}
  <2>1. members \in [Groups \X Users -> R] /\ m \in R
    BY DEF TablesInv, TablesOK
  <2> HIDE DEF R
  <2>2. /\ members' \in [Groups \X Users -> R]
        /\ \A h \in Groups : \A v \in Users :
              members'[<<h, v>>] = members[<<h, v>>] \/ (h = g /\ v = u /\ members'[<<h, v>>] = m)
    BY <2>1, PairUpdate, Zenon
  <2> QED BY <2>2 DEF R
<1>2. TablesOK'
  BY <1>1 DEF TablesInv, TablesOK
<1>3. Referential'
  BY <1>1 DEF TablesInv, Referential, Exists, GroupRef
<1>4. IdsOK' /\ NoReuse
  BY DEF TablesInv, TablesOK, IdsOK, Exists, NoReuse
<1> QED BY <1>2, <1>3, <1>4 DEF TablesInv

\* A group goes.
LEMMA RemoveGroupKeeps ==
    ASSUME TablesInv, NEW g, RemoveGroup(g),
           UNCHANGED <<users, nextId, acls, limited, saves>>
    PROVE  TablesInv' /\ NoReuse
<1>1. /\ groups' \in [Groups -> Users \cup {NoUser}]
      /\ \A h \in Groups : h # g => groups'[h] = groups[h]
  BY DEF RemoveGroup, TablesInv, TablesOK
<1>2. /\ members' \in [Groups \X Users -> {"none", "member", "leader"}]
      /\ \A h \in Groups : \A v \in Users :
            members'[<<h, v>>] # "none" => h # g /\ members[<<h, v>>] # "none"
  <2>1. members' = [p \in Groups \X Users |-> IF p[1] = g THEN "none" ELSE members[p]]
    BY DEF RemoveGroup, CascadeGroup
  <2> DEFINE D == Groups \X Users
             R == {"none", "member", "leader"}
  <2>2. (\A p \in D : members[p] \in R) /\ "none" \in R
    BY DEF TablesInv, TablesOK
  <2>3. members' \in [D -> R]
    <3> HIDE DEF D, R
    <3>1. members' = [p \in D |-> IF p[1] = g THEN "none" ELSE members[p]]
      BY <2>1 DEF D
    <3> QED BY <2>2, <3>1
  <2> QED BY <2>1, <2>3
<1>3. ASSUME NEW i \in Ids
      PROVE  /\ results'[i] = NoRow <=> results[i] = NoRow
             /\ results[i] = NoRow \/ results[i] \in ResultRow
             /\ results'[i] # NoRow =>
                   /\ results'[i] \in ResultRow
                   /\ results'[i].serial = results[i].serial
                   /\ results'[i].owner = results[i].owner
                   /\ results'[i].group = Null \/ (results'[i].group = results[i].group /\ results[i].group # g)
  <2>1. results'[i] = IF Exists(i) /\ results[i].group = g
                      THEN [results[i] EXCEPT !.group = Null] ELSE results[i]
    BY DEF RemoveGroup, CascadeGroup
  <2>2. results[i] = NoRow \/ results[i] \in ResultRow
    BY DEF TablesInv, TablesOK
  <2>3. CASE results[i] = NoRow
    BY <2>1, <2>3 DEF Exists
  <2>4. CASE results[i] \in ResultRow
    <3> DEFINE row == [results[i] EXCEPT !.group = Null]
    <3>1. /\ row \in ResultRow /\ row.serial = results[i].serial
          /\ row.owner = results[i].owner /\ row.group = Null
      BY <2>4 DEF ResultRow
    <3>2. results'[i] = row \/ (results'[i] = results[i] /\ results[i].group # g)
      <4>1. Exists(i)
        BY <2>4, RowFacts DEF Exists
      <4>2. CASE results[i].group = g
        BY <2>1, <4>1, <4>2
      <4>3. CASE results[i].group # g
        BY <2>1, <4>3
      <4> QED BY <4>2, <4>3
    <3>3. results[i] # NoRow /\ row # NoRow
      BY <2>4, <3>1, RowFacts
    <3> HIDE DEF row
    <3> QED BY <2>4, <3>1, <3>2, <3>3
  <2> QED BY <2>2, <2>3, <2>4
<1>4. TablesOK'
  <2>1. results' \in [Ids -> ResultRow \cup {NoRow}]
    <3>1. results' = [i \in Ids |-> results'[i]]
      BY DEF RemoveGroup, CascadeGroup
    <3> QED BY <1>3, <3>1
  <2> QED BY <1>1, <1>2, <2>1 DEF TablesInv, TablesOK
<1>5. Referential'
  <2>1. ASSUME NEW i \in Ids, results'[i] # NoRow
        PROVE  /\ users[results'[i].owner] # "none"
               /\ results'[i].group # Null => groups'[results'[i].group] # NoUser
    <3>1. results[i] # NoRow /\ results[i] \in ResultRow
      BY <1>3, <2>1
    <3>2. /\ users[results[i].owner] # "none"
          /\ results[i].group # Null => groups[results[i].group] # NoUser
          /\ results[i].group \in Groups \cup {Null}
      BY <3>1, RowFacts DEF TablesInv, Referential, Exists
    <3> QED BY <1>1, <1>3, <2>1, <3>2
  <2>2. \A i \in Ids : results[i] # NoRow => results'[i] # NoRow
    BY <1>3
  <2> QED BY <1>1, <1>2, <2>1, <2>2 DEF TablesInv, Referential, Exists
<1>6. IdsOK' /\ NoReuse
  BY <1>3 DEF TablesInv, TablesOK, IdsOK, Exists, NoReuse
<1> QED BY <1>4, <1>5, <1>6 DEF TablesInv

\* A user comes.
LEMMA NewUserKeeps ==
    ASSUME TablesInv, NEW u \in Users, CreateUser(u)
    PROVE  TablesInv' /\ NoReuse
<1>1. /\ users' \in [Users -> {"none", "user", "admin"}]
      /\ \A v \in Users : users[v] # "none" => users'[v] # "none"
  BY DEF CreateUser, TablesInv, TablesOK
<1>2. UNCHANGED <<groups, members, results, nextId, acls, limited, saves>>
  BY DEF CreateUser
<1>3. TablesOK'
  BY <1>1, <1>2 DEF TablesInv, TablesOK
<1>4. Referential'
  <2>1. \A i \in Ids : Exists(i) => results[i].owner \in Users
    BY RowFacts DEF TablesInv, TablesOK, Exists
  <2> QED BY <1>1, <1>2, <2>1 DEF TablesInv, TablesOK, Referential, Exists
<1>5. IdsOK' /\ NoReuse
  BY <1>2 DEF TablesInv, TablesOK, IdsOK, Exists, NoReuse
<1> QED BY <1>3, <1>4, <1>5 DEF TablesInv

-----------------------------------------------------------------------------
\* Every step keeps the tables together and reuses no id.
LEMMA TableStep ==
    ASSUME TablesInv, ConnsOK, Serve \/ EditUsers
    PROVE  TablesInv' /\ NoReuse
<1>0. \A c \in Conns : phase[c] # "idle" => req[c] \in AllRequests
  BY DEF ConnsOK, ConnOK
<1>1. ASSUME NEW c \in Conns, Check(c) \/ \E r \in Requests[c] : Arrive(c, r)
      PROVE  TablesInv' /\ NoReuse
  BY <1>1, SameTables DEF Check, Arrive, Fetch, CheckAdmin, CheckACL, CheckOwner, CheckOwnerBits,
                          ReadBits, CheckMember, Refuse, StatementFails
<1>2. ASSUME NEW c \in Conns, ImportLookup(c) \/ GetResult(c) \/ FindGroup(c) \/ CheckLeader(c)
      PROVE  TablesInv' /\ NoReuse
  BY <1>2, SameTables DEF ImportLookup, GetResult, FindGroup, CheckLeader
<1>3. ASSUME NEW c \in Conns, SaveResult(c) PROVE TablesInv' /\ NoReuse
  <2>1. req[c] \in AllRequests /\ req[c].by \in Users
    BY <1>0, <1>3, RequestFacts DEF SaveResult, Writing, At
  <2> QED BY <1>3, <2>1, InsertKeeps DEF SaveResult
<1>4. ASSUME NEW c \in Conns, ImportResult(c) PROVE TablesInv' /\ NoReuse
  <2>1. req[c] \in AllRequests /\ req[c].user \in Users
    BY <1>0, <1>4, RequestFacts DEF ImportResult, Writing, At
  <2> QED BY <1>4, <2>1, InsertKeeps DEF ImportResult
<1>5. ASSUME NEW c \in Conns, DeleteResult(c) PROVE TablesInv' /\ NoReuse
  <2>1. req[c].id \in Ids
    BY <1>0, <1>5, RequestFacts DEF DeleteResult, Writing, At
  <2>2. /\ DropResults({req[c].id}) /\ DropACLs({req[c].id}, {})
        /\ UNCHANGED <<users, groups, members, nextId, limited, saves>>
    BY <1>5 DEF DeleteResult, DeleteRow
  <2>3. users' \in [Users -> {"none", "user", "admin"}] /\ users' = users
    BY <2>2 DEF TablesInv, TablesOK
  <2>4. {req[c].id} \in SUBSET Ids /\ {} \in SUBSET Users
    BY <2>1
  <2>5. \A u \in Users : users'[u] = "none" /\ users[u] # "none" =>
              u \in {} /\ u \notin limited /\ Owned(u) \subseteq {req[c].id}
    BY <2>3
  <2> QED BY <2>2, <2>3, <2>4, <2>5, DropKeeps
<1>6. ASSUME NEW c \in Conns, NEW row \in ResultRow, results[req[c].id] # NoRow, req[c].id \in Ids,
             UpdateRow(c, row), row.group = req[c].group, row.serial = results[req[c].id].serial,
             UNCHANGED <<users, groups, members, nextId, acls, limited, saves>>
      PROVE  TablesInv' /\ NoReuse
  <2>1. CASE UNCHANGED results
    BY <1>6, <2>1, SameTables DEF tables
  <2>2. CASE ~UNCHANGED results
    <3>1. /\ results' = [results EXCEPT ![req[c].id] = row]
          /\ GroupRef(row.group) /\ users[row.owner] # "none"
      BY <1>6, <2>2 DEF UpdateRow
    <3> QED BY <1>6, <3>1, UpdateKeeps
  <2> QED BY <2>1, <2>2
<1>7. ASSUME NEW c \in Conns, UpdateResultPermissions(c) PROVE TablesInv' /\ NoReuse
  <2> DEFINE r == req[c]
             row == [results[r.id] EXCEPT !.pOwner = r.owner, !.pGroup = r.grp, !.pAll = r.all,
                                          !.group = r.group]
  <2>0. r \in AllRequests /\ r.id \in Ids
    BY <1>0, <1>7, RequestFacts DEF UpdateResultPermissions, Writing, At
  <2>1. UNCHANGED <<users, groups, members, nextId, acls, limited, saves>>
    BY <1>7 DEF UpdateResultPermissions
  <2>2. CASE UNCHANGED results
    BY <2>1, <2>2, SameTables DEF tables
  <2>3. CASE ~UNCHANGED results
    <3>1. results[r.id] # NoRow /\ UpdateRow(c, row)
      BY <1>7, <2>3 DEF UpdateResultPermissions
    <3>2. GroupRef(r.group)
      BY <2>3, <3>1 DEF UpdateRow
    <3>3. results[r.id] \in ResultRow
      BY <2>0, <3>1 DEF TablesInv, TablesOK
    <3>4. row \in ResultRow /\ row.group = r.group /\ row.serial = results[r.id].serial
      <4>1. /\ r.owner \in SUBSET Actions /\ r.grp \in SUBSET Actions /\ r.all \in SUBSET Actions
            /\ r.group \in Groups
        BY <2>0, <3>2, RequestFacts DEF GroupRef
      <4> HIDE DEF r
      <4> QED BY <3>3, <4>1 DEF ResultRow
    <3> HIDE DEF row
    <3> QED BY <1>6, <2>0, <2>1, <3>1, <3>4
  <2> QED BY <2>2, <2>3
<1>8. ASSUME NEW c \in Conns, ChangeResultOwner(c) PROVE TablesInv' /\ NoReuse
  <2> DEFINE r == req[c]
             row == [results[r.id] EXCEPT !.owner = r.user, !.group = r.group]
  <2>0. r \in AllRequests /\ r.id \in Ids
    BY <1>0, <1>8, RequestFacts DEF ChangeResultOwner, Writing, At
  <2>1. UNCHANGED <<users, groups, members, nextId, acls, limited, saves>>
    BY <1>8 DEF ChangeResultOwner
  <2>2. CASE UNCHANGED results
    BY <2>1, <2>2, SameTables DEF tables
  <2>3. CASE ~UNCHANGED results
    <3>1. results[r.id] # NoRow /\ UpdateRow(c, row)
      BY <1>8, <2>3 DEF ChangeResultOwner
    <3>2. GroupRef(r.group)
      BY <2>3, <3>1 DEF UpdateRow
    <3>3. results[r.id] \in ResultRow
      BY <2>0, <3>1 DEF TablesInv, TablesOK
    <3>4. row \in ResultRow /\ row.group = r.group /\ row.serial = results[r.id].serial
      <4>1. r.user \in Users /\ r.group \in Groups
        BY <2>0, <3>2, RequestFacts DEF GroupRef
      <4> HIDE DEF r
      <4> QED BY <3>3, <4>1 DEF ResultRow
    <3> HIDE DEF row
    <3> QED BY <1>6, <2>0, <2>1, <3>1, <3>4
  <2> QED BY <2>2, <2>3
<1>9. ASSUME NEW c \in Conns, AddResultACL(c) \/ RemoveResultACL(c) PROVE TablesInv' /\ NoReuse
  <2>1. req[c].id \in Ids /\ req[c].user \in Users /\ req[c].grp \in SUBSET Actions
    BY <1>0, <1>9, RequestFacts DEF AddResultACL, RemoveResultACL, Writing, At
  <2>2. UNCHANGED <<users, groups, members, results, nextId, limited, saves>>
    BY <1>9 DEF AddResultACL, RemoveResultACL
  <2>3. CASE UNCHANGED acls
    BY <2>2, <2>3, SameTables DEF tables
  <2>4. CASE acls' = [acls EXCEPT ![<<req[c].id, req[c].user>>] = NoACL]
    BY <2>1, <2>2, <2>4, GrantKeeps
  <2>5. CASE /\ acls' = [acls EXCEPT ![<<req[c].id, req[c].user>>] = req[c].grp]
             /\ Exists(req[c].id) /\ users[req[c].user] # "none"
    BY <2>1, <2>2, <2>5, GrantKeeps
  <2> QED BY <1>9, <2>3, <2>4, <2>5 DEF AddResultACL, RemoveResultACL, AddACL, RemoveACL
<1>10. ASSUME NEW c \in Conns, CreateGroup(c) \/ ImportGroup(c) PROVE TablesInv' /\ NoReuse
  <2>1. req[c].by \in Users /\ req[c].user \in Users
    BY <1>0, <1>10, RequestFacts DEF CreateGroup, ImportGroup, Writing, At
  <2>2. UNCHANGED <<users, members, results, nextId, acls, limited, saves>>
    BY <1>10 DEF CreateGroup, ImportGroup
  <2>3. CASE UNCHANGED groups
    BY <2>2, <2>3, SameTables DEF tables
  <2>4. ASSUME NEW u \in Users, MayCreate(req[c].group), InsertGroup(req[c].group, u)
        PROVE  TablesInv' /\ NoReuse
    BY <2>2, <2>4, NewGroupKeeps DEF MayCreate
  <2> QED BY <1>10, <2>1, <2>3, <2>4 DEF CreateGroup, ImportGroup
<1>11. ASSUME NEW c \in Conns, AddLeader(c) \/ AddGroupMember(c) \/ RemoveGroupMember(c)
       PROVE  TablesInv' /\ NoReuse
  <2>1. req[c].role \in {"member", "leader"}
    BY <1>0, <1>11, RequestFacts DEF AddLeader, AddGroupMember, RemoveGroupMember, Writing, At
  <2>2. UNCHANGED <<users, groups, results, nextId, acls, limited, saves>>
    BY <1>11 DEF AddLeader, AddGroupMember, RemoveGroupMember
  <2>3. CASE UNCHANGED members
    BY <2>2, <2>3, SameTables DEF tables
  <2>4. ASSUME NEW u, NEW m \in {"none", "member", "leader"}, m # "none" => GroupRef(req[c].group),
               members' = [members EXCEPT ![<<req[c].group, u>>] = m]
        PROVE  TablesInv' /\ NoReuse
    BY <2>2, <2>4, MemberKeeps
  <2>5. CASE RemoveGroupMember(c)
    BY <2>4, <2>5 DEF RemoveGroupMember, RemoveMember
  <2>6. CASE AddLeader(c)
    BY <2>3, <2>4, <2>6 DEF AddLeader, AddMember
  <2>7. CASE AddGroupMember(c)
    BY <2>1, <2>3, <2>4, <2>7 DEF AddGroupMember, AddMember
  <2> QED BY <1>11, <2>5, <2>6, <2>7
<1>12. ASSUME NEW c \in Conns, DeleteGroup(c) PROVE TablesInv' /\ NoReuse
  BY <1>12, RemoveGroupKeeps DEF DeleteGroup
<1>13. ASSUME NEW u \in Users, CreateUser(u) PROVE TablesInv' /\ NoReuse
  BY <1>13, NewUserKeeps
<1>14. ASSUME NEW u \in Users, SaveUser(u) \/ DeleteUser(u) PROVE TablesInv' /\ NoReuse
  <2>1. /\ DropResults(Owned(u)) /\ DropACLs(Owned(u), {u})
        /\ UNCHANGED <<groups, members, nextId, limited, saves>>
    BY <1>14 DEF SaveUser, DeleteUser, CascadeUser
  <2>2. /\ users' \in [Users -> {"none", "user", "admin"}]
        /\ \A v \in Users : users'[v] = "none" /\ users[v] # "none" => v = u /\ u \notin limited
    BY <1>14 DEF SaveUser, DeleteUser, TablesInv, TablesOK
  <2>3. Owned(u) \in SUBSET Ids /\ {u} \in SUBSET Users
    BY DEF Owned
  <2>4. \A v \in Users : users'[v] = "none" /\ users[v] # "none" =>
              v \in {u} /\ v \notin limited /\ Owned(v) \subseteq Owned(u)
    BY <2>2
  <2> QED BY <2>1, <2>2, <2>3, <2>4, DropKeeps
<1>15. ASSUME NEW u \in Users, SetUserLimits(u) PROVE TablesInv' /\ NoReuse
  BY <1>15 DEF SetUserLimits, TablesInv, TablesOK, Referential, IdsOK, Exists, NoReuse
<1> HIDE DEF TablesInv, NoReuse
<1>16. CASE EditUsers
  BY <1>13, <1>14, <1>15, <1>16, Consts DEF EditUsers
<1>17. ASSUME NEW c \in Conns, Write(c) PROVE TablesInv' /\ NoReuse
  BY <1>2, <1>3, <1>4, <1>5, <1>7, <1>8, <1>9, <1>10, <1>11, <1>12, <1>17 DEF Write
<1> QED BY <1>1, <1>16, <1>17 DEF Serve

-----------------------------------------------------------------------------
\* The connections.

\* Every connection but c is where it was.
Others(c) == \A d \in Conns \ {c} : phase'[d] = phase[d] /\ req'[d] = req[d] /\ seen'[d] = seen[d]

\* What a step does to the connection that takes it: it answers, it takes a
\* request, or it goes on with the request it has.
Ended(c) == phase'[c] = "idle" /\ req'[c] = NoReq /\ seen'[c] = NoSeen

Began(c) ==
    /\ phase[c] = "idle" /\ seen'[c] = NoSeen
    /\ req'[c].kind \in Checked => phase'[c] \in {"fetch", "admin"}

Advanced(c) ==
    /\ phase[c] # "idle" /\ req'[c] = req[c]
    /\ \/ seen'[c].serial = seen[c].serial
       \/ Exists(req[c].id) /\ seen'[c].serial = results[req[c].id].serial

Moved(c) == Others(c) /\ (Ended(c) \/ Began(c) \/ Advanced(c))

LEMMA FinishFacts ==
    ASSUME ConnsOK, NEW c \in Conns, Finish(c)
    PROVE  ConnsOK' /\ Others(c) /\ Ended(c)
<1>1. NoReq \in AllRequests \cup {NoReq} /\ "idle" \in Phases /\ NoSeen \in SeenRecord
  BY DEF Phases, NoSeen, SeenRecord
<1>2. /\ req' \in [Conns -> AllRequests \cup {NoReq}] /\ req'[c] = NoReq
      /\ \A d \in Conns \ {c} : req'[d] = req[d]
  BY <1>1 DEF ConnsOK, Finish
<1>3. /\ phase' \in [Conns -> Phases] /\ phase'[c] = "idle"
      /\ \A d \in Conns \ {c} : phase'[d] = phase[d]
  BY <1>1 DEF ConnsOK, Finish
<1>4. /\ seen' \in [Conns -> SeenRecord] /\ seen'[c] = NoSeen
      /\ \A d \in Conns \ {c} : seen'[d] = seen[d]
  BY <1>1 DEF ConnsOK, Finish
<1>5. Others(c) /\ Ended(c)
  BY <1>2, <1>3, <1>4 DEF Others, Ended
<1>6. ASSUME NEW d \in Conns PROVE ConnOK(d)'
  <2>1. CASE d = c
    BY <1>2, <1>3, <1>4, <2>1 DEF ConnOK
  <2>2. CASE d # c
    BY <1>5, <2>2 DEF ConnsOK, ConnOK, Others
  <2> QED BY <2>1, <2>2
<1> QED BY <1>2, <1>3, <1>4, <1>5, <1>6 DEF ConnsOK

\* The request of c goes on to phase ph, having seen s.
LEMMA AdvanceFacts ==
    ASSUME ConnsOK, NEW c \in Conns, phase[c] # "idle",
           NEW ph \in Phases \ {"idle", "fetch"},
           ph \in {"lookup", "group", "leader", "lead"} => req[c].kind \notin Checked,
           GoTo(c, ph), NEW s \in SeenRecord, seen' = [seen EXCEPT ![c] = s],
           \/ s.serial = seen[c].serial
           \/ Exists(req[c].id) /\ s.serial = results[req[c].id].serial
    PROVE  ConnsOK' /\ Others(c) /\ Advanced(c) /\ phase'[c] = ph /\ seen'[c] = s
<1>1. req' = req /\ phase' = [phase EXCEPT ![c] = ph]
  BY DEF GoTo
<1>2. /\ phase' \in [Conns -> Phases] /\ phase'[c] = ph
      /\ \A d \in Conns \ {c} : phase'[d] = phase[d]
  BY <1>1 DEF ConnsOK
<1>3. /\ seen' \in [Conns -> SeenRecord] /\ seen'[c] = s
      /\ \A d \in Conns \ {c} : seen'[d] = seen[d]
  BY DEF ConnsOK
<1>4. Others(c) /\ Advanced(c)
  BY <1>1, <1>2, <1>3 DEF Others, Advanced
<1>5. ASSUME NEW d \in Conns PROVE ConnOK(d)'
  <2>1. CASE d = c
    <3>1. req[c] \in AllRequests
      BY DEF ConnsOK, ConnOK
    <3> QED BY <1>1, <1>2, <2>1, <3>1 DEF ConnOK
  <2>2. CASE d # c
    BY <1>4, <2>2 DEF ConnsOK, ConnOK, Others
  <2> QED BY <2>1, <2>2
<1>6. req' \in [Conns -> AllRequests \cup {NoReq}]
  BY <1>1 DEF ConnsOK
<1> QED BY <1>2, <1>3, <1>4, <1>5, <1>6 DEF ConnsOK

\* The same when it has seen nothing new.
LEMMA GoOnFacts ==
    ASSUME ConnsOK, NEW c \in Conns, phase[c] # "idle",
           NEW ph \in Phases \ {"idle", "fetch"},
           ph \in {"lookup", "group", "leader", "lead"} => req[c].kind \notin Checked,
           GoTo(c, ph), UNCHANGED seen
    PROVE  ConnsOK' /\ Others(c) /\ Advanced(c) /\ phase'[c] = ph /\ seen'[c] = seen[c]
<1>1. seen[c] \in SeenRecord /\ seen' = [seen EXCEPT ![c] = seen[c]]
  BY DEF ConnsOK
<1> QED BY <1>1, AdvanceFacts

\* The same when it has seen the result's serial.
LEMMA SerialFacts ==
    ASSUME TablesInv, ConnsOK, NEW c \in Conns, phase[c] # "idle", Exists(req[c].id),
           GoTo(c, "write"), seen' = [seen EXCEPT ![c].serial = results[req[c].id].serial]
    PROVE  ConnsOK' /\ Others(c) /\ Advanced(c) /\ phase'[c] = "write"
<1>1. PICK s : s = [seen[c] EXCEPT !.serial = results[req[c].id].serial]
  OBVIOUS
<1>2. results[req[c].id] \in ResultRow
  BY RequestFacts DEF TablesInv, TablesOK, ConnsOK, ConnOK, Exists
<1>3. results[req[c].id].serial \in Nat
  BY <1>2, RowFacts
<1>4. s \in SeenRecord /\ s.serial = results[req[c].id].serial
  BY <1>1, <1>3 DEF ConnsOK, SeenRecord
<1>5. seen' = [seen EXCEPT ![c] = s]
  BY <1>1 DEF ConnsOK
<1>6. "write" \in Phases \ {"idle", "fetch"}
  BY DEF Phases
<1> QED BY <1>4, <1>5, <1>6, AdvanceFacts

\* A statement of CanAccess establishes what the next one builds on, and keeps
\* a request that has not been allowed from being granted.
Builds(c) ==
    Asks(c) /\ Established(req[c], phase[c], seen[c])
        => Ended(c) \/ Established(req[c], phase'[c], seen'[c])

Tracks(c) ==
    Asks(c) /\ ~Rule(c) /\ ~Excused(c) /\ Track(c, req[c], phase[c], seen[c])
        => Ended(c) \/ Track(c, req[c], phase'[c], seen'[c])

LEMMA CheckStep ==
    ASSUME TablesInv, ConnsOK, NEW c \in Conns, Check(c)
    PROVE  ConnsOK' /\ Moved(c) /\ Builds(c) /\ Tracks(c) /\ UNCHANGED <<tables, saves>>
<1> DEFINE Goal == ConnsOK' /\ Moved(c) /\ Builds(c) /\ Tracks(c)
<1>18. UNCHANGED <<tables, saves>>
  BY DEF Check, Fetch, CheckAdmin, CheckACL, CheckOwner, CheckOwnerBits, ReadBits, CheckMember,
         Refuse, StatementFails
<1> SUFFICES Goal
  BY <1>18
<1>0. PICK r \in AllRequests : r = req[c]
  BY DEF Check, Fetch, CheckAdmin, CheckACL, CheckOwner, CheckOwnerBits, ReadBits, CheckMember,
         Refuse, StatementFails, At, Busy, ConnsOK, ConnOK
<1>1. phase[c] # "idle"
  BY DEF Check, Fetch, CheckAdmin, CheckACL, CheckOwner, CheckOwnerBits, ReadBits, CheckMember,
         Refuse, StatementFails, At, Busy
<1>2. r.id \in Ids /\ r.by \in Users
  BY RequestFacts
<1>3. \A ph \in {"admin", "acl", "owner", "ownerbits", "bits", "member", "write", "refused"} :
         /\ ph \in Phases \ {"idle", "fetch"}
         /\ ph \notin {"lookup", "group", "leader", "lead"}
  BY DEF Phases
<1>4. ASSUME Finish(c) PROVE Goal
  BY <1>4, FinishFacts DEF Moved, Builds, Tracks
<1>5. ASSUME NEW ph \in {"admin", "acl", "owner", "ownerbits", "bits", "member", "write", "refused"},
             GoTo(c, ph), UNCHANGED seen
      PROVE  ConnsOK' /\ Moved(c) /\ phase'[c] = ph /\ seen'[c] = seen[c]
  BY <1>1, <1>3, <1>5, GoOnFacts DEF Moved
<1>6. ASSUME Exists(r.id), GoTo(c, "write"),
             seen' = [seen EXCEPT ![c].serial = results[r.id].serial]
      PROVE  ConnsOK' /\ Moved(c) /\ phase'[c] = "write"
  BY <1>0, <1>1, <1>6, SerialFacts DEF Moved
<1>7. ASSUME phase'[c] \in {"admin", "acl", "owner", "refused"} PROVE Tracks(c)
  BY <1>7 DEF Tracks, Track
<1>8. ASSUME phase'[c] = "write", CanAccess(r.by, r.id, Needs(r.kind)) PROVE Builds(c) /\ Tracks(c)
  <2>1. Builds(c)
    BY <1>0, <1>8 DEF Builds, Established
  <2>2. Tracks(c)
    BY <1>0, <1>8 DEF Tracks, Rule
  <2> QED BY <2>1, <2>2
<1>8a. ASSUME phase'[c] = "refused", Established(r, phase[c], seen[c]) => ~CanAccess(r.by, r.id, Needs(r.kind))
       PROVE  Builds(c)
  BY <1>0, <1>8a DEF Builds, Established
<1>9. CASE Fetch(c)
  <2>1. CASE Finish(c)
    BY <1>4, <2>1
  <2>2. CASE GoTo(c, "admin") /\ UNCHANGED seen
    <3>1. ConnsOK' /\ Moved(c) /\ phase'[c] = "admin"
      BY <1>5, <2>2
    <3>2. Builds(c)
      BY <3>1 DEF Builds, Established
    <3> QED BY <1>7, <3>1, <3>2
  <2>3. CASE /\ Readable(r.id) /\ r.kind = "chown" /\ GoTo(c, "write")
             /\ seen' = [seen EXCEPT ![c].serial = results[r.id].serial]
    <3>1. ConnsOK' /\ Moved(c)
      BY <1>6, <2>3 DEF Readable
    <3>2. Builds(c) /\ Tracks(c)
      BY <1>0, <2>3 DEF Builds, Tracks, Asks, Checked
    <3> QED BY <3>1, <3>2
  <2> QED BY <1>0, <1>9, <2>1, <2>2, <2>3 DEF Fetch
<1>10. CASE CheckAdmin(c)
  <2>1. CASE users[r.by] = "admin"
    <3>1. GoTo(c, "write") /\ UNCHANGED seen
      BY <1>0, <1>10, <2>1 DEF CheckAdmin
    <3>2. CanAccess(r.by, r.id, Needs(r.kind))
      BY <2>1 DEF CanAccess
    <3> QED BY <1>5, <1>8, <3>1, <3>2
  <2>2. CASE users[r.by] # "admin"
    <3>1. GoTo(c, "acl") /\ UNCHANGED seen
      BY <1>0, <1>10, <2>2 DEF CheckAdmin
    <3>2. ConnsOK' /\ Moved(c) /\ phase'[c] = "acl"
      BY <1>5, <3>1
    <3>3. Builds(c)
      BY <1>0, <2>2, <3>2 DEF Builds, Established
    <3> QED BY <1>7, <3>2, <3>3
  <2> QED BY <2>1, <2>2
<1>11. CASE CheckACL(c)
  <2>1. CASE Needs(r.kind) \in acls[<<r.id, r.by>>]
    <3>1. GoTo(c, "write") /\ seen' = [seen EXCEPT ![c].serial = results[r.id].serial]
      BY <1>0, <1>11, <2>1 DEF CheckACL
    <3>2. CanAccess(r.by, r.id, Needs(r.kind))
      BY <2>1 DEF CanAccess
    <3>3. acls[<<r.id, r.by>>] # NoACL
      BY <2>1 DEF Needs, NoACL
    <3>4. Exists(r.id)
      BY <1>2, <3>3 DEF TablesInv, Referential
    <3> QED BY <1>6, <1>8, <3>1, <3>2, <3>4
  <2>2. CASE Needs(r.kind) \notin acls[<<r.id, r.by>>]
    <3>1. GoTo(c, "owner") /\ UNCHANGED seen /\ phase[c] = "acl"
      BY <1>0, <1>11, <2>2 DEF CheckACL, At
    <3>2. ConnsOK' /\ Moved(c) /\ phase'[c] = "owner"
      BY <1>5, <3>1
    <3>3. Builds(c)
      <4> HIDE DEF Needs
      <4> QED BY <1>0, <2>2, <3>1, <3>2 DEF Builds, Established
    <3> QED BY <1>7, <3>2, <3>3
  <2> QED BY <2>1, <2>2
<1>12. CASE CheckOwner(c)
  <2>1. CASE IsOwner(r.by, r.id)
    <3>1. GoTo(c, "ownerbits") /\ UNCHANGED seen /\ phase[c] = "owner"
      BY <1>0, <1>12, <2>1 DEF CheckOwner, At
    <3>2. ConnsOK' /\ Moved(c) /\ phase'[c] = "ownerbits"
      BY <1>5, <3>1
    <3>3. Builds(c) /\ Tracks(c)
      BY <1>0, <2>1, <3>1, <3>2 DEF Builds, Established, Tracks, Track
    <3> QED BY <3>2, <3>3
  <2>2. CASE ~IsOwner(r.by, r.id)
    <3>1. GoTo(c, "bits") /\ UNCHANGED seen /\ phase[c] = "owner"
      BY <1>0, <1>12, <2>2 DEF CheckOwner, At
    <3>2. ConnsOK' /\ Moved(c) /\ phase'[c] = "bits"
      BY <1>5, <3>1
    <3>3. Builds(c) /\ Tracks(c)
      BY <1>0, <2>2, <3>1, <3>2 DEF Builds, Established, Tracks, Track
    <3> QED BY <3>2, <3>3
  <2> QED BY <2>1, <2>2
<1>13. CASE CheckOwnerBits(c)
  <2>0. phase[c] = "ownerbits"
    BY <1>13 DEF CheckOwnerBits, At
  <2>1. CASE Readable(r.id) /\ Needs(r.kind) \in results[r.id].pOwner
    <3>1. GoTo(c, "write") /\ seen' = [seen EXCEPT ![c].serial = results[r.id].serial]
      BY <1>0, <1>13, <2>1 DEF CheckOwnerBits
    <3>2. ConnsOK' /\ Moved(c) /\ phase'[c] = "write"
      BY <1>6, <2>1, <3>1 DEF Readable
    <3>3. IsOwner(r.by, r.id) => CanAccess(r.by, r.id, Needs(r.kind))
      BY <2>1 DEF CanAccess
    <3>4. Builds(c)
      BY <1>0, <2>0, <3>2, <3>3 DEF Builds, Established
    <3>5. Tracks(c)
      BY <1>0, <2>0, <3>2, <3>3 DEF Tracks, Track, Rule
    <3> QED BY <3>2, <3>4, <3>5
  <2>2. CASE ~(Readable(r.id) /\ Needs(r.kind) \in results[r.id].pOwner)
    <3>1. GoTo(c, "refused") /\ UNCHANGED seen
      BY <1>0, <1>13, <2>2 DEF CheckOwnerBits
    <3>2. ConnsOK' /\ Moved(c) /\ phase'[c] = "refused"
      BY <1>5, <3>1
    <3>3. Established(r, phase[c], seen[c]) => ~CanAccess(r.by, r.id, Needs(r.kind))
      BY <2>0, <2>2 DEF Established, CanAccess
    <3> QED BY <1>7, <1>8a, <3>2, <3>3
  <2> QED BY <2>1, <2>2
<1>14. CASE ReadBits(c)
  <2>0. phase[c] = "bits"
    BY <1>14 DEF ReadBits, At
  <2>1. CASE Readable(r.id)
    <3>1. PICK s : s = [grp |-> results[r.id].pGroup, all |-> results[r.id].pAll,
                        group |-> results[r.id].group, serial |-> results[r.id].serial]
      OBVIOUS
    <3>2. GoTo(c, "member") /\ seen' = [seen EXCEPT ![c] = s]
      BY <1>0, <1>14, <2>1, <3>1 DEF ReadBits
    <3>3. results[r.id] \in ResultRow
      BY <1>2, <2>1 DEF TablesInv, TablesOK, Readable, Exists
    <3>4. /\ s \in SeenRecord /\ s.serial = results[r.id].serial
          /\ s.group \in Groups
      BY <2>1, <3>1, <3>3, RowFacts DEF SeenRecord, Readable
    <3>5. ConnsOK' /\ Moved(c) /\ phase'[c] = "member" /\ seen'[c] = s
      BY <1>0, <1>1, <1>3, <2>1, <3>2, <3>4, AdvanceFacts DEF Moved, Readable
    <3>6. /\ s.grp = results[r.id].pGroup /\ s.all = results[r.id].pAll
          /\ s.group = results[r.id].group
      BY <3>1
    <3>7. Builds(c)
      BY <1>0, <2>0, <2>1, <3>5, <3>6 DEF Builds, Established
    <3>8. Tracks(c)
      <4> SUFFICES ASSUME Asks(c), ~Rule(c), Track(c, r, "bits", seen[c])
                   PROVE  Track(c, r, "member", s)
        BY <1>0, <2>0, <3>5 DEF Tracks
      <4>1. ~IsOwner(r.by, r.id)
        BY DEF Track
      <4>2. ~CanAccess(r.by, r.id, Needs(r.kind))
        BY <1>0 DEF Rule
      <4>3. /\ Needs(r.kind) \notin s.all
            /\ ~(IsMember(r.by, s.group) /\ Needs(r.kind) \in s.grp)
        BY <2>1, <3>6, <4>1, <4>2 DEF CanAccess
      <4> QED BY <2>1, <3>4, <3>6, <4>1, <4>3 DEF Track
    <3> QED BY <3>5, <3>7, <3>8
  <2>2. CASE ~Readable(r.id)
    <3>1. GoTo(c, "refused") /\ UNCHANGED seen
      BY <1>0, <1>14, <2>2 DEF ReadBits
    <3>2. ConnsOK' /\ Moved(c) /\ phase'[c] = "refused"
      BY <1>5, <3>1
    <3>3. Established(r, phase[c], seen[c]) => ~CanAccess(r.by, r.id, Needs(r.kind))
      BY <2>0, <2>2 DEF Established, CanAccess
    <3> QED BY <1>7, <1>8a, <3>2, <3>3
  <2> QED BY <2>1, <2>2
<1>15. CASE CheckMember(c)
  <2> DEFINE Granted == \/ IsMember(r.by, seen[c].group) /\ Needs(r.kind) \in seen[c].grp
                        \/ Needs(r.kind) \in seen[c].all
  <2>0. phase[c] = "member" /\ GoTo(c, IF Granted THEN "write" ELSE "refused") /\ UNCHANGED seen
    BY <1>0, <1>15 DEF CheckMember, At
  <2>0a. Established(r, "member", seen[c]) => (Granted <=> CanAccess(r.by, r.id, Needs(r.kind)))
    BY DEF Established, CanAccess
  <2>1. CASE Granted
    <3>1. ConnsOK' /\ Moved(c) /\ phase'[c] = "write"
      BY <1>5, <2>0, <2>1
    <3>2. Builds(c)
      BY <1>0, <2>0, <2>0a, <2>1, <3>1 DEF Builds, Established
    <3>3. Tracks(c)
      <4> SUFFICES ASSUME Asks(c), ~Rule(c), ~Excused(c), Track(c, r, "member", seen[c])
                   PROVE  FALSE
        BY <1>0, <2>0 DEF Tracks
      <4>1. IsMember(r.by, seen[c].group) /\ Needs(r.kind) \in seen[c].grp /\ ~IsOwner(r.by, r.id)
        BY <2>1 DEF Track
      <4>2. c \notin edited
        BY <4>1 DEF Track, Excused
      <4>3. /\ Readable(r.id) /\ results[r.id].pGroup = seen[c].grp
            /\ results[r.id].group = seen[c].group
        BY <4>1, <4>2 DEF Track
      <4>4. CanAccess(r.by, r.id, Needs(r.kind))
        BY <4>1, <4>3 DEF CanAccess
      <4> QED BY <1>0, <4>4 DEF Rule
    <3> QED BY <3>1, <3>2, <3>3
  <2>2. CASE ~Granted
    <3>1. ConnsOK' /\ Moved(c) /\ phase'[c] = "refused"
      BY <1>5, <2>0, <2>2
    <3> QED BY <1>7, <1>8a, <2>0, <2>0a, <2>2, <3>1
  <2> QED BY <2>1, <2>2
<1>16. CASE Refuse(c) \/ StatementFails(c)
  BY <1>4, <1>16 DEF Refuse, StatementFails
<1>17. Goal
  <2> HIDE DEF Goal
  <2> QED BY <1>9, <1>10, <1>11, <1>12, <1>13, <1>14, <1>15, <1>16 DEF Check
<1> QED BY <1>17

\* A request that arrives starts at the first statement of its handler.
LEMMA ArriveStep ==
    ASSUME ConnsOK, NEW c \in Conns, NEW r \in Requests[c], Arrive(c, r)
    PROVE  ConnsOK' /\ Others(c) /\ Began(c)
<1>1. r \in AllRequests
  BY Consts
<1>2. PICK q : q = IF r.kind = "save" /\ r.owner = {} THEN [r EXCEPT !.owner = Actions] ELSE r
  OBVIOUS
<1>3. q \in AllRequests /\ q.kind = r.kind
  <2>1. [r EXCEPT !.owner = Actions] \in AllRequests /\ [r EXCEPT !.owner = Actions].kind = r.kind
    BY <1>1 DEF AllRequests
  <2> QED BY <1>1, <1>2, <2>1
<1>4. PICK ph : ph = First(q.kind)
  OBVIOUS
<1>5. /\ ph \in Phases \ {"idle"}
      /\ ph = "fetch" => q.kind \in {"get", "chown"}
      /\ ph \in {"lookup", "group", "leader", "lead"} => q.kind \notin Checked
      /\ q.kind \in Checked => ph \in {"fetch", "admin"}
  <2>1. q.kind \in Kinds
    BY <1>3, RequestFacts
  <2> QED BY <1>4, <2>1 DEF First, Kinds, Checked, Phases
<1>6. /\ phase[c] = "idle" /\ seen' = seen
      /\ req' = [req EXCEPT ![c] = q]
      /\ phase' = [phase EXCEPT ![c] = ph]
  BY <1>2, <1>3, <1>4 DEF Arrive, Busy
<1>7. /\ req' \in [Conns -> AllRequests \cup {NoReq}] /\ req'[c] = q
      /\ \A d \in Conns \ {c} : req'[d] = req[d]
  BY <1>3, <1>6 DEF ConnsOK
<1>8. /\ phase' \in [Conns -> Phases] /\ phase'[c] = ph
      /\ \A d \in Conns \ {c} : phase'[d] = phase[d]
  BY <1>5, <1>6 DEF ConnsOK
<1>9. seen[c] = NoSeen
  BY <1>6 DEF ConnsOK, ConnOK
<1>10. Others(c) /\ Began(c)
  BY <1>5, <1>6, <1>7, <1>8, <1>9 DEF Others, Began
<1>11. ASSUME NEW d \in Conns PROVE ConnOK(d)'
  <2>1. CASE d = c
    BY <1>3, <1>5, <1>7, <1>8, <2>1 DEF ConnOK
  <2>2. CASE d # c
    BY <1>10, <2>2 DEF ConnsOK, ConnOK, Others
  <2> QED BY <2>1, <2>2
<1> QED BY <1>6, <1>7, <1>8, <1>10, <1>11 DEF ConnsOK

\* A write answers the request, except in the handlers of groups and of an
\* import, which CanAccess has no part in.
LEMMA WriteStep ==
    ASSUME ConnsOK, NEW c \in Conns, Write(c)
    PROVE  ConnsOK' /\ Moved(c) /\ (Ended(c) \/ req[c].kind \notin Checked)
<1>1. ASSUME Finish(c) PROVE ConnsOK' /\ Moved(c) /\ (Ended(c) \/ req[c].kind \notin Checked)
  BY <1>1, FinishFacts DEF Moved
<1>2. ASSUME NEW ph \in {"write", "lead", "leader"}, phase[c] # "idle", req[c].kind \notin Checked,
             GoTo(c, ph), UNCHANGED seen
      PROVE  ConnsOK' /\ Moved(c) /\ (Ended(c) \/ req[c].kind \notin Checked)
  <2>1. ph \in Phases \ {"idle", "fetch"}
    BY DEF Phases
  <2> QED BY <1>2, <2>1, GoOnFacts DEF Moved
<1>3. CASE SaveResult(c) \/ ImportResult(c)
  BY <1>1, <1>3 DEF SaveResult, ImportResult, Insert
<1>4. CASE GetResult(c) \/ DeleteResult(c) \/ AddResultACL(c) \/ RemoveResultACL(c)
  BY <1>1, <1>4 DEF GetResult, DeleteResult, AddResultACL, RemoveResultACL
<1>5. CASE UpdateResultPermissions(c) \/ ChangeResultOwner(c)
  BY <1>1, <1>5 DEF UpdateResultPermissions, ChangeResultOwner, UpdateRow
<1>6. CASE ImportGroup(c) \/ AddLeader(c) \/ DeleteGroup(c) \/ AddGroupMember(c) \/ RemoveGroupMember(c)
  BY <1>1, <1>6 DEF ImportGroup, AddLeader, DeleteGroup, AddGroupMember, RemoveGroupMember, AddMember
<1>7. CASE ImportLookup(c) \/ FindGroup(c) \/ CheckLeader(c)
  <2>1. phase[c] \in {"lookup", "group", "leader"}
    BY <1>7 DEF ImportLookup, FindGroup, CheckLeader, At
  <2>2. phase[c] # "idle" /\ req[c].kind \notin Checked
    BY <2>1 DEF ConnsOK, ConnOK
  <2>3. Finish(c) \/ ((GoTo(c, "write") \/ GoTo(c, "leader")) /\ UNCHANGED seen)
    BY <1>7 DEF ImportLookup, FindGroup, CheckLeader
  <2> QED BY <1>1, <1>2, <2>2, <2>3
<1>8. CASE CreateGroup(c)
  <2>1. phase[c] # "idle" /\ req[c].kind \notin Checked
    BY <1>8 DEF CreateGroup, Writing, At, Checked
  <2>2. Finish(c) \/ (GoTo(c, "lead") /\ UNCHANGED seen)
    BY <1>8 DEF CreateGroup
  <2> QED BY <1>1, <1>2, <2>1, <2>2
<1> QED BY <1>3, <1>4, <1>5, <1>6, <1>7, <1>8 DEF Write

-----------------------------------------------------------------------------
LEMMA SeenStep ==
    ASSUME TablesInv, TablesInv', NoReuse, ConnsOK, SeenIsSame, NEW c \in Conns, Moved(c)
    PROVE  SeenIsSame'
<1> SUFFICES ASSUME NEW d \in Conns, seen'[d].serial # 0
             PROVE  /\ req'[d].id < nextId'
                    /\ results'[req'[d].id] # NoRow => results'[req'[d].id].serial = seen'[d].serial
  BY DEF SeenIsSame, Exists
<1>1. ~Ended(d) /\ ~Began(d)
  BY DEF Ended, Began, NoSeen
<1>2. phase[d] # "idle"
  <2>1. CASE seen'[d] = seen[d] /\ phase'[d] = phase[d]
    BY <2>1 DEF ConnsOK, ConnOK, NoSeen
  <2>2. CASE Advanced(d)
    BY <2>2 DEF Advanced
  <2> QED BY <1>1, <2>1, <2>2 DEF Moved, Others
<1>3. PICK id \in Ids : id = req[d].id
  BY <1>2, RequestFacts DEF ConnsOK, ConnOK
<1>4. req'[d].id = id
  BY <1>1, <1>3 DEF Moved, Others, Advanced
<1>5. id < nextId /\ (Exists(id) => results[id].serial = seen'[d].serial)
  <2>1. CASE seen'[d].serial = seen[d].serial
    BY <1>3, <2>1 DEF SeenIsSame
  <2>2. CASE Exists(id) /\ seen'[d].serial = results[id].serial
    BY <2>2 DEF TablesInv, IdsOK
  <2> QED BY <1>1, <1>3, <2>1, <2>2 DEF Moved, Others, Advanced
<1>6. id \in Nat /\ nextId \in Nat /\ nextId' \in Nat
  BY Consts DEF TablesInv, TablesOK
<1>7. id < nextId'
  <2>1. nextId' >= nextId
    BY DEF NoReuse
  <2> HIDE DEF TablesInv, NoReuse
  <2> QED BY <1>5, <1>6, <2>1
<1>8. results'[id] # NoRow => results'[id].serial = seen'[d].serial
  BY <1>5 DEF NoReuse, Exists
<1> QED BY <1>4, <1>7, <1>8

\* What a request has established holds as long as nothing changes.
LEMMA SameEstablished ==
    ASSUME UNCHANGED tables, NEW d \in Conns, NEW r, NEW ph, NEW sn, Established(r, ph, sn),
           req'[d] = r, phase'[d] = ph, seen'[d] = sn
    PROVE  Established(req[d], phase[d], seen[d])'
BY DEF tables, Established, Readable, IsOwner, IsMember, Exists, CanAccess

LEMMA CheckSoFarStep ==
    ASSUME TablesInv, ConnsOK, CheckSoFar, Serve \/ EditUsers, Observe
    PROVE  CheckSoFar'
<1> SUFFICES ASSUME NEW d \in calm' PROVE Established(req[d], phase[d], seen[d])'
  BY DEF CheckSoFar
<1>1. /\ d \in Conns /\ req'[d].kind \in Checked
      /\ phase[d] # "idle" => d \in calm /\ UNCHANGED tables
  BY DEF Observe, Asks, Busy
<1>2. ~Ended(d)
  BY <1>1 DEF Ended, NoReq, Checked
<1>3. ASSUME phase[d] # "idle", req'[d] = req[d], phase'[d] = phase[d], seen'[d] = seen[d]
      PROVE  Established(req[d], phase[d], seen[d])'
  <2>1. Established(req[d], phase[d], seen[d])
    BY <1>1, <1>3 DEF CheckSoFar
  <2> HIDE DEF Established
  <2> QED BY <1>1, <1>3, <2>1, SameEstablished
<1>4. ASSUME phase[d] = "idle", req'[d] = req[d] PROVE FALSE
  <2>1. req[d] = NoReq
    BY <1>1, <1>4 DEF ConnsOK, ConnOK
  <2> QED BY <1>1, <1>4, <2>1 DEF NoReq, Checked
<1>5. CASE EditUsers
  <2>1. UNCHANGED reqVars
    BY <1>5 DEF EditUsers, CreateUser, SaveUser, DeleteUser, SetUserLimits
  <2>2. req'[d] = req[d] /\ phase'[d] = phase[d] /\ seen'[d] = seen[d]
    BY <2>1 DEF reqVars
  <2> QED BY <1>3, <1>4, <2>2
<1>6. ASSUME NEW c \in Conns, Others(c), c # d
      PROVE  Established(req[d], phase[d], seen[d])'
  <2>1. req'[d] = req[d] /\ phase'[d] = phase[d] /\ seen'[d] = seen[d]
    BY <1>1, <1>6 DEF Others
  <2> QED BY <1>3, <1>4, <2>1
<1>7. ASSUME NEW c \in Conns, Check(c)
      PROVE  Established(req[d], phase[d], seen[d])'
  <2>1. Moved(c) /\ Builds(c)
    BY <1>7, CheckStep
  <2>2. CASE c = d
    <3>1. phase[d] # "idle"
      BY <1>7, <2>2 DEF Check, Fetch, CheckAdmin, CheckACL, CheckOwner, CheckOwnerBits, ReadBits,
                        CheckMember, Refuse, StatementFails, At, Busy
    <3>2. req'[d] = req[d]
      BY <1>2, <2>1, <2>2, <3>1 DEF Moved, Began, Advanced
    <3>3. Established(req[d], phase[d], seen[d])
      BY <1>1, <3>1 DEF CheckSoFar
    <3>4. Established(req[d], phase'[d], seen'[d])
      BY <1>1, <1>2, <2>1, <2>2, <3>2, <3>3 DEF Builds, Asks
    <3> HIDE DEF Established
    <3> QED BY <1>1, <3>1, <3>2, <3>4, SameEstablished
  <2> QED BY <1>6, <2>1, <2>2 DEF Moved
<1>8. ASSUME NEW c \in Conns, Write(c)
      PROVE  Established(req[d], phase[d], seen[d])'
  <2>1. Moved(c) /\ (Ended(c) \/ req[c].kind \notin Checked)
    BY <1>8, WriteStep
  <2>2. CASE c = d
    <3>1. phase[d] # "idle"
      BY <1>8, <2>2 DEF Write, SaveResult, ImportLookup, ImportResult, GetResult, DeleteResult,
                        UpdateResultPermissions, ChangeResultOwner, AddResultACL, RemoveResultACL,
                        CreateGroup, ImportGroup, AddLeader, FindGroup, CheckLeader, DeleteGroup,
                        AddGroupMember, RemoveGroupMember, Writing, At
    <3>2. req'[d] = req[d]
      BY <1>2, <2>1, <2>2, <3>1 DEF Moved, Began, Advanced
    <3> QED BY <1>1, <1>2, <2>1, <2>2, <3>2
  <2> QED BY <1>6, <2>1, <2>2 DEF Moved
<1>9. ASSUME NEW c \in Conns, NEW r \in Requests[c], Arrive(c, r)
      PROVE  Established(req[d], phase[d], seen[d])'
  <2>1. Others(c) /\ Began(c)
    BY <1>9, ArriveStep
  <2>2. CASE c = d
    <3>1. phase'[d] \in {"fetch", "admin"}
      BY <1>1, <2>1, <2>2 DEF Began
    <3> QED BY <3>1 DEF Established
  <2> QED BY <1>6, <2>1, <2>2
<1> QED BY <1>5, <1>7, <1>8, <1>9 DEF Serve

\* A request that the rule has not allowed stays on track, whatever the others
\* do: who becomes or ceases to be the owner sees both the row and his standing
\* change.
LEMMA RightStep ==
    ASSUME TablesInv, ConnsOK, RightSoFar, Serve \/ EditUsers, Observe
    PROVE  RightSoFar'
<1>1. \A d \in Conns : Rule(d)' => d \in allowed'
  BY DEF Observe
<1>2. ASSUME NEW d \in Conns, Asks(d)', d \notin allowed', ~Excused(d)'
      PROVE  Track(d, req[d], phase[d], seen[d])'
  <2>1. ~Ended(d)
    BY <1>2 DEF Ended, NoReq, Asks, Checked
  <2>2. ASSUME NEW c \in Conns, NEW r \in Requests[c], Arrive(c, r), c = d
        PROVE  Track(d, req[d], phase[d], seen[d])'
    <3>1. phase'[d] \in {"fetch", "admin"}
      BY <1>2, <2>2, ArriveStep DEF Began, Asks
    <3> QED BY <3>1 DEF Track
  <2>3. ASSUME Asks(d), req'[d] = req[d]
        PROVE  /\ d \notin allowed /\ ~Rule(d) /\ ~Excused(d)
               /\ Track(d, req[d], phase[d], seen[d])
               /\ d \in edited' <=> d \in edited \/ Edits(d)
               /\ d \in turned' <=> d \in turned \/ Turns(d)
               /\ ~(Edits(d) /\ Turns(d))
    <3>1. d \notin allowed
      BY <1>2, <2>3 DEF Observe
    <3>2. /\ d \in edited' <=> d \in edited \/ Edits(d)
          /\ d \in turned' <=> d \in turned \/ Turns(d)
      BY <1>2, <2>3 DEF Observe
    <3>3. ~Excused(d) /\ ~(Edits(d) /\ Turns(d))
      BY <1>2, <3>2 DEF Excused
    <3>4. ~Rule(d) /\ Track(d, req[d], phase[d], seen[d])
      BY <2>3, <3>1, <3>3 DEF RightSoFar, OnTrack
    <3> QED BY <3>1, <3>2, <3>3, <3>4
  <2>4. ASSUME req'[d] = req[d], phase'[d] = phase[d], seen'[d] = seen[d]
        PROVE  Track(d, req[d], phase[d], seen[d])'
    <3>0. Asks(d)
      BY <1>2, <2>4 DEF Asks
    <3>1. /\ ~Excused(d) /\ Track(d, req[d], phase[d], seen[d])
          /\ d \in edited' <=> d \in edited \/ Edits(d)
          /\ d \in turned' <=> d \in turned \/ Turns(d)
          /\ ~(Edits(d) /\ Turns(d))
      BY <2>3, <2>4, <3>0
    <3>2. PICK r : r = req[d]
      OBVIOUS
    <3>3. PICK sn : sn = seen[d]
      OBVIOUS
    <3>3a. PICK ph : ph = phase[d]
      OBVIOUS
    <3>4. (results'[r.id] # NoRow /\ results'[r.id].owner = r.by) <=> IsOwner(r.by, r.id)
      <4>1. CASE results'[r.id] = results[r.id]
        BY <4>1 DEF IsOwner, Exists
      <4>2. CASE results'[r.id] # results[r.id]
        <5>1. ~Turns(d)
          BY <3>1, <3>2, <4>2 DEF Edits
        <5> QED BY <2>4, <3>2, <5>1 DEF Turns, IsOwner, Exists
      <4> QED BY <4>1, <4>2
    <3>5. /\ d \notin edited' => d \notin edited /\ results'[r.id] = results[r.id]
          /\ d \notin turned' => d \notin turned
      BY <3>1, <3>2 DEF Edits
    <3>6. ASSUME d \notin turned', NEW h \in Groups
          PROVE  members'[<<h, r.by>>] # "none" <=> members[<<h, r.by>>] # "none"
      BY <2>4, <3>1, <3>2, <3>6 DEF Turns, IsMember
    <3>7. Track(d, r, ph, sn)
      BY <3>1, <3>2, <3>3, <3>3a
    <3>8. req'[d] = r /\ phase'[d] = ph /\ seen'[d] = sn
      BY <2>4, <3>2, <3>3, <3>3a
    <3> HIDE DEF Needs
    <3>9. /\ ph = "ownerbits" => IsOwner(r.by, r.id)
          /\ ph \in {"bits", "member"} => ~IsOwner(r.by, r.id)
          /\ ph # "write"
      BY <3>7 DEF Track
    <3>10. ASSUME ph = "member"
           PROVE  /\ sn.group \in Groups
                  /\ Needs(r.kind) \notin sn.all
                  /\ Needs(r.kind) \in sn.grp =>
                        /\ d \notin edited' => /\ results'[r.id] # NoRow
                                               /\ results'[r.id].group # Null
                                               /\ results'[r.id].pGroup = sn.grp
                                               /\ results'[r.id].group = sn.group
                        /\ d \notin turned' => ~(members'[<<sn.group, r.by>>] # "none")
      BY <3>5, <3>6, <3>7, <3>10 DEF Track, Readable, Exists, IsMember
    <3> QED BY <3>4, <3>8, <3>9, <3>10 DEF Track, IsOwner, IsMember, Readable, Exists
  <2>5. CASE EditUsers
    <3>1. UNCHANGED reqVars
      BY <2>5 DEF EditUsers, CreateUser, SaveUser, DeleteUser, SetUserLimits
    <3> QED BY <2>4, <3>1 DEF reqVars
  <2>6. ASSUME NEW c \in Conns, Others(c), c # d
        PROVE  Track(d, req[d], phase[d], seen[d])'
    BY <2>4, <2>6 DEF Others
  <2>7. ASSUME NEW c \in Conns, Check(c), c = d
        PROVE  Track(d, req[d], phase[d], seen[d])'
    <3>1. Moved(d) /\ Tracks(d) /\ UNCHANGED tables
      BY <2>7, CheckStep
    <3>2. phase[d] # "idle"
      BY <2>7 DEF Check, Fetch, CheckAdmin, CheckACL, CheckOwner, CheckOwnerBits, ReadBits,
                  CheckMember, Refuse, StatementFails, At, Busy
    <3>3. req'[d] = req[d]
      BY <2>1, <3>1, <3>2 DEF Moved, Began, Advanced
    <3>4. Asks(d)
      BY <1>2, <3>3 DEF Asks
    <3>5. /\ ~Rule(d) /\ ~Excused(d) /\ Track(d, req[d], phase[d], seen[d])
          /\ d \in edited' <=> d \in edited \/ Edits(d)
          /\ d \in turned' <=> d \in turned \/ Turns(d)
      BY <2>3, <3>3, <3>4
    <3>6. Track(d, req[d], phase'[d], seen'[d])
      BY <2>1, <3>1, <3>4, <3>5 DEF Tracks
    <3>7. ~Edits(d) /\ ~Turns(d)
      BY <3>1, <3>3 DEF tables, Edits, Turns, IsOwner, IsMember, Exists
    <3>8. (d \in edited' <=> d \in edited) /\ (d \in turned' <=> d \in turned)
      BY <3>5, <3>7
    <3> HIDE DEF Needs
    <3> QED BY <3>1, <3>3, <3>6, <3>8 DEF tables, Track, IsOwner, IsMember, Readable, Exists
  <2>8. ASSUME NEW c \in Conns, Write(c), c = d
        PROVE  Track(d, req[d], phase[d], seen[d])'
    <3>1. Moved(d) /\ (Ended(d) \/ req[d].kind \notin Checked)
      BY <2>8, WriteStep
    <3>2. phase[d] # "idle"
      BY <2>8 DEF Write, SaveResult, ImportLookup, ImportResult, GetResult, DeleteResult,
                  UpdateResultPermissions, ChangeResultOwner, AddResultACL, RemoveResultACL,
                  CreateGroup, ImportGroup, AddLeader, FindGroup, CheckLeader, DeleteGroup,
                  AddGroupMember, RemoveGroupMember, Writing, At
    <3>3. req'[d] = req[d]
      BY <2>1, <3>1, <3>2 DEF Moved, Began, Advanced
    <3> QED BY <1>2, <2>1, <3>1, <3>3 DEF Asks
  <2>9. ASSUME NEW c \in Conns, Check(c) \/ Write(c) \/ \E r \in Requests[c] : Arrive(c, r)
        PROVE  Others(c)
    BY <2>9, CheckStep, WriteStep, ArriveStep DEF Moved
  <2> QED BY <2>2, <2>5, <2>6, <2>7, <2>8, <2>9 DEF Serve
<1>3. \A d \in Conns : OnTrack(d)'
  BY <1>2 DEF OnTrack
<1> QED BY <1>1, <1>3 DEF RightSoFar

-----------------------------------------------------------------------------
LEMMA InitHolds ==
    ASSUME Init
    PROVE  IInv
<1>1. TablesOK
  <2> DEFINE R == (SUBSET Actions) \cup {NoACL}
             D == Ids \X Users
             E == Groups \X Users
  <2>1. acls \in [D -> R]
    <3>1. acls = [p \in D |-> NoACL] /\ NoACL \in R
      BY DEF Init
    <3> HIDE DEF D, R
    <3> QED BY <3>1
  <2>2. members \in [E -> {"none", "member", "leader"}]
    <3>1. members = [p \in E |-> "none"]
      BY DEF Init
    <3> HIDE DEF E
    <3> QED BY <3>1
  <2> QED BY <2>1, <2>2, Consts DEF Init, TablesOK
<1>2. Referential /\ IdsOK
  <2>1. /\ \A i \in Ids : results[i] = NoRow
        /\ \A i \in Ids : \A u \in Users : acls[<<i, u>>] = NoACL
        /\ \A g \in Groups : \A u \in Users : members[<<g, u>>] = "none"
        /\ limited = {}
    BY DEF Init
  <2> QED BY <2>1 DEF Referential, IdsOK, Exists
<1>3. ConnsOK
  BY DEF Init, ConnsOK, ConnOK, Phases, SeenRecord, NoSeen
<1>4. SeenIsSame /\ CheckSoFar /\ CalmAsks
  BY DEF Init, SeenIsSame, CheckSoFar, CalmAsks, NoSeen
<1>5. RightSoFar
  <2>1. \A c \in Conns : ~Asks(c)
    BY DEF Init, Asks, NoReq, Checked
  <2> QED BY <2>1 DEF RightSoFar, OnTrack, Rule
<1> QED BY <1>1, <1>2, <1>3, <1>4, <1>5 DEF IInv, TablesInv

LEMMA StepHolds ==
    ASSUME IInv, [Next]_vars
    PROVE  IInv' /\ [NoReuse]_vars
<1>1. CASE UNCHANGED vars
  <2>1. UNCHANGED <<tables, saves>> /\ UNCHANGED reqVars /\ UNCHANGED history
    BY <1>1 DEF vars
  <2>2. TablesInv'
    BY <2>1, SameTables DEF IInv
  <2>3. ConnsOK' /\ CalmAsks'
    BY <2>1 DEF IInv, ConnsOK, ConnOK, CalmAsks, Asks, reqVars, history
  <2>4. SeenIsSame'
    BY <2>1 DEF IInv, SeenIsSame, Exists, reqVars, tables
  <2>5. CheckSoFar'
    BY <2>1 DEF IInv, CheckSoFar, Established, Readable, IsOwner, IsMember, Exists, CanAccess,
                reqVars, tables, history
  <2>6. RightSoFar'
    <3> HIDE DEF Needs
    <3> QED BY <2>1 DEF IInv, RightSoFar, OnTrack, Excused, Rule, Asks, Track, Readable, IsOwner,
                        IsMember, Exists, CanAccess, reqVars, tables, history
  <2> QED BY <1>1, <2>2, <2>3, <2>4, <2>5, <2>6 DEF IInv
<1>2. CASE Next
  <2>1. (Serve \/ EditUsers) /\ Observe
    BY <1>2 DEF Next
  <2>2. TablesInv' /\ NoReuse
    BY <2>1, TableStep DEF IInv
  <2>3. ConnsOK' /\ SeenIsSame'
    <3>1. CASE EditUsers
      <4>1. UNCHANGED reqVars
        BY <3>1 DEF EditUsers, CreateUser, SaveUser, DeleteUser, SetUserLimits
      <4>2. ConnsOK'
        BY <4>1 DEF IInv, ConnsOK, ConnOK, reqVars
      <4>3. ASSUME NEW c \in Conns PROVE SeenIsSame'
        <5>1. CASE Moved(c)
          BY <2>2, <5>1, SeenStep DEF IInv
        <5>2. CASE phase[c] # "idle"
          BY <4>1, <5>1, <5>2 DEF Moved, Others, Advanced, reqVars
        <5>3. CASE phase[c] = "idle"
          <6>1. req[c] = NoReq /\ seen[c] = NoSeen
            BY <5>3 DEF IInv, ConnsOK, ConnOK
          <6> QED BY <4>1, <5>1, <5>3, <6>1 DEF Moved, Others, Ended, reqVars
        <5> QED BY <5>2, <5>3
      <4>4. Conns = {} => SeenIsSame'
        BY DEF SeenIsSame
      <4> QED BY <4>2, <4>3, <4>4
    <3>2. CASE Serve
      <4>1. PICK c \in Conns : Check(c) \/ Write(c) \/ \E r \in Requests[c] : Arrive(c, r)
        BY <3>2 DEF Serve
      <4>2. ConnsOK' /\ Moved(c)
        BY <4>1, CheckStep, WriteStep, ArriveStep DEF IInv, Moved
      <4> QED BY <2>2, <4>2, SeenStep DEF IInv
    <3> QED BY <2>1, <3>1, <3>2
  <2>4. CheckSoFar'
    BY <2>1, CheckSoFarStep DEF IInv
  <2>5. CalmAsks'
    BY <2>1 DEF Observe, CalmAsks, Asks
  <2>6. RightSoFar'
    BY <2>1, RightStep DEF IInv
  <2> QED BY <2>2, <2>3, <2>4, <2>5, <2>6 DEF IInv
<1> QED BY <1>1, <1>2

-----------------------------------------------------------------------------
\* The tables hang together, a request is where its handler can be, what it has
\* read of a result stays that result's, what the statements of CanAccess have
\* established holds while nothing changes, and what they can still grant is
\* bounded when something does.
THEOREM Invariance == Spec => []IInv
<1>1. Init => IInv
  BY InitHolds
<1>2. IInv /\ [Next]_vars => IInv'
  BY StepHolds
<1> QED BY <1>1, <1>2, PTL DEF Spec

\* The tables and the requests keep their types, with any number of users,
\* groups, connections and results.
THEOREM TypeCorrect == Spec => []TypeOK
<1>1. IInv => TypeOK
  BY DEF IInv, TablesInv, TablesOK, ConnsOK, TypeOK
<1> QED BY <1>1, Invariance, PTL

\* No statement of any handler or of the user store, in whatever order they
\* run, leaves a result without its owner, a grant without its result and
\* user, a member of a group that is gone or limits of a user that is gone:
\* the FOREIGN KEY clauses of internal/schema and the checks of the INSERTs
\* and UPDATEs are enough.
THEOREM TablesHangTogether == Spec => []Referential
<1>1. IInv => Referential
  BY DEF IInv, TablesInv
<1> QED BY <1>1, Invariance, PTL

\* CanAccess, which runs its statements one after the other, decides as the
\* rule "Admin > ACL > Owner > Group > All" does at one moment, whenever no
\* table changes while a request is checked: what it grants is allowed, and
\* what it refuses is not.
THEOREM CheckDecidesByTheRule == Spec => []CheckIsTheRule
<1>1. IInv => CheckIsTheRule
  <2> SUFFICES ASSUME IInv, NEW c \in calm
               PROVE  (phase[c] = "write" => Rule(c)) /\ (phase[c] = "refused" => ~Rule(c))
    BY DEF CheckIsTheRule
  <2>1. Established(req[c], phase[c], seen[c])
    BY DEF IInv, CheckSoFar
  <2>2. phase[c] \in {"write", "refused"} => Asks(c)
    BY DEF IInv, CalmAsks
  <2> QED BY <2>1, <2>2 DEF Established, Rule
<1> QED BY <1>1, Invariance, PTL

\* Whatever else happens to results, groups and users between the statements of
\* CanAccess, a request is granted only what the rule allowed at one moment
\* while it ran, unless its result was edited and its requester's ownership or
\* memberships changed during it.
THEOREM GrantsWereRight == Spec => []GrantWasRight
<1>1. IInv => GrantWasRight
  <2> SUFFICES ASSUME IInv, NEW c \in Conns, Asks(c), phase[c] = "write", c \notin allowed
               PROVE  c \in edited /\ c \in turned
    BY DEF GrantWasRight
  <2> QED BY DEF IInv, RightSoFar, OnTrack, Track, Excused
<1> QED BY <1>1, Invariance, PTL

\* A write that follows a check lands on the result that was checked or on
\* none: AUTOINCREMENT never gives the id of a deleted result to a new one.
THEOREM WriteHitsWhatWasChecked == Spec => []SameResult
<1>1. IInv => SameResult
  BY DEF IInv, SeenIsSame, SameResult
<1> QED BY <1>1, Invariance, PTL

\* The same as a property of steps: the counter of saved_results never goes
\* back, and a row below it is deleted or changed but never replaced by
\* another result.
THEOREM IdsAreNotReused == Spec => [][NoReuse]_vars
<1>1. IInv /\ [Next]_vars => [NoReuse]_vars
  BY StepHolds
<1> QED BY <1>1, Invariance, PTL DEF Spec

=============================================================================
