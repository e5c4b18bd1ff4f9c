-------------------------- MODULE ServerStoresProofs --------------------------
(***************************************************************************)
(* Proofs about the stores of a server and the start that brings them up,  *)
(* for every set of users and subscriptions, every JSONL file, every       *)
(* roles.json that begins with admin and any number of cut-off starts.     *)
(***************************************************************************)
EXTENDS ServerStores, TLAPS, FiniteSetTheorems, WellFoundedInduction

\* A user is indexed under its id.
Keyed == \A id \in UserIds : byID[id] # NoUser => byID[id].id = id

\* ListIsIndex of one user: not in the list, or at one place of it, or at
\* several after a file with several lines.
Once(id) ==
    /\ byID[id] = NoUser => \A i \in 1..Len(all) : all[i].id # id
    /\ byID[id] # NoUser =>
          \E i \in 1..Len(all) :
              /\ all[i] = byID[id]
              /\ id \in twice \/ \A j \in 1..Len(all) : all[j].id = id => j = i

StoreInv == UsersTypeOK /\ Keyed /\ \A id \in UserIds \ half : Once(id)

\* An UpdateUser in progress names a user and has fields left to set.
UpdOK ==
    /\ upd \in [id : UserIds \cup {0}, todo : SUBSET Changes]
    /\ upd # NoUpd => upd.id \in UserIds

\* The last that Open has still to write back of a user is what it has put into
\* the index.
SyncOK ==
    \A i \in 1..Len(sync) :
        (\A j \in 1..Len(sync) : sync[j].id = sync[i].id => j <= i) => byID[sync[i].id] = sync[i]

\* The schema is built in the order of the versions, and a migration that the
\* version read by Migrate makes superfluous is there.
Suffixes == {<<2, 3, 4, 6>>, <<3, 4, 6>>, <<4, 6>>, <<6>>}

SchemaInv ==
    /\ applied \subseteq MigrationSet /\ versions = applied
    /\ current \in MigrationSet \cup {0}
    /\ \A m, n \in MigrationSet : m < n /\ n \in applied => m \in applied
    /\ start = "migrate" =>
          /\ pending \in Suffixes
          /\ \A m \in MigrationSet : m < pending[1] => m \in applied
          /\ current = 0 \/ current \in applied
    /\ start \notin {"down", "migrate"} => applied = MigrationSet

\* The first role to be inserted is admin, and inserting begins at the first.
RolesInv ==
    /\ roles \subseteq Range(RolesFile)
    /\ todoRoles \in Seq(Range(RolesFile))
    /\ roles # {} => "admin" \in roles
    /\ start = "insert" /\ roles = {} => todoRoles = RolesFile
    /\ start \in {"admin", "up"} => roles # {}

BeforeUsers == {"down", "migrate", "users"}
BeforeSubs  == BeforeUsers \cup {"sync", "subs"}

SubsInv ==
    /\ Subs!TypeOK
    /\ start = "seed" => seed \subseteq subs
    /\ start \notin BeforeSubs => Subs!SubsAgree

UsersInv ==
    /\ StoreInv
    /\ UpdOK
    /\ start = "sync" => SyncOK
    /\ start \notin BeforeUsers => MemoryIsTable

IInv == start \in Phases /\ UsersInv /\ SubsInv /\ SchemaInv /\ RolesInv

-----------------------------------------------------------------------------
(* Users and rows *)

LEMMA UserFacts ==
    /\ \A u \in User : u.id \in UserIds /\ u # NoUser
    /\ \A r \in Row : r # NoRow
    /\ 0 \notin UserIds
<1>1. \A u \in User : u.id \in UserIds /\ u.id # 0
  BY UserStoreAssumption DEF User
<1>2. NoUser.id = 0 /\ NoRow.role = "none"
  BY DEF NoUser, NoRow
<1>3. \A r \in Row : r.role # "none"
  BY DEF Row, Roles
<1> QED BY <1>1, <1>2, <1>3, UserStoreAssumption

\* What memory has of a user is what the row has.
Agrees(u, r) ==
    IF u = NoUser THEN r = NoRow
    ELSE /\ r # NoRow
         /\ r.off = u.off
         /\ r.pass <=> u.pass = "hash"
         /\ u.roleID # NoRole => r.role = u.roleID

LEMMA MemoryIsTableDef ==
    MemoryIsTable <=>
        \A id \in UserIds \ (unsaved \cup hidden \cup Ids(sync)) : Agrees(byID[id], table[id])
BY DEF MemoryIsTable, Agrees

LEMMA MemoryIsTableNext ==
    MemoryIsTable' <=>
        \A id \in UserIds \ (unsaved' \cup hidden' \cup Ids(sync')) : Agrees(byID'[id], table'[id])
BY DEF MemoryIsTable, Agrees

\* saveToSQL and loadFromSQL lose nothing that has a column.
LEMMA SavedAgrees ==
    ASSUME NEW u \in User
    PROVE  RowOf(u) \in Row /\ Agrees(u, RowOf(u))
<1>1. /\ u.role \in Roles /\ u.roleID \in Roles \cup {NoRole} /\ u.off \in BOOLEAN
      /\ u # NoUser
  BY UserFacts DEF User
<1>2. /\ RowOf(u).role = (IF u.roleID # NoRole THEN u.roleID ELSE u.role)
      /\ RowOf(u).off = u.off
      /\ RowOf(u).pass = (u.pass = "hash")
  BY DEF RowOf
<1>3. RowOf(u) \in Row
  BY <1>1 DEF RowOf, Row
<1>4. RowOf(u) # NoRow
  BY <1>3, UserFacts
<1> HIDE DEF RowOf
<1> QED BY <1>1, <1>2, <1>3, <1>4 DEF Agrees

LEMMA LoadedAgrees ==
    ASSUME NEW id \in UserIds, NEW r \in Row
    PROVE  /\ FromRow(id, r) \in User
           /\ FromRow(id, r).id = id
           /\ Agrees(FromRow(id, r), r)
<1>1. r.role \in Roles /\ r.pass \in BOOLEAN /\ r.off \in BOOLEAN /\ r # NoRow
  BY UserFacts DEF Row
<1>2. FromRow(id, r) \in User
  BY <1>1 DEF FromRow, User
<1>3. /\ FromRow(id, r).id = id
      /\ FromRow(id, r).roleID = r.role
      /\ FromRow(id, r).off = r.off
      /\ FromRow(id, r).pass = (IF r.pass THEN "hash" ELSE "none")
  BY DEF FromRow
<1>4. FromRow(id, r) # NoUser
  BY <1>2, UserFacts
<1>5. r.pass <=> FromRow(id, r).pass = "hash"
  BY <1>1, <1>3
<1> QED BY <1>1, <1>2, <1>3, <1>4, <1>5 DEF Agrees

\* s lists what f has on D, each element of D once.
ListsOnce(s, f, D) ==
    /\ Len(s) \in Nat /\ s = [i \in 1..Len(s) |-> s[i]]
    /\ \E p \in [1..Len(s) -> D] :
          /\ \A i \in 1..Len(s) : s[i] = f[p[i]]
          /\ \A i, j \in 1..Len(s) : p[i] = p[j] => i = j
          /\ \A d \in D : \E i \in 1..Len(s) : p[i] = d

\* InOrder lists a finite set.
LEMMA InOrderLists ==
    ASSUME NEW f, NEW D, IsFiniteSet(D), NEW s \in InOrder(f, D)
    PROVE  ListsOnce(s, f, D)
<1> DEFINE n == Cardinality(D)
<1>1. n \in Nat
  BY FS_CardinalityType
<1> HIDE DEF n
<1>2. PICK p \in Bijection(1..n, D) : s = [i \in 1..n |-> f[p[i]]]
  BY DEF InOrder, n
<1>3. /\ p \in [1..n -> D]
      /\ \A i, j \in 1..n : p[i] = p[j] => i = j
      /\ \A d \in D : \E i \in 1..n : p[i] = d
  BY <1>2 DEF Bijection, Injection, Surjection, IsInjective
<1>4. Len(s) = n /\ DOMAIN s = 1..n
  BY <1>1, <1>2
<1>5. s = [i \in 1..Len(s) |-> s[i]]
  BY <1>2, <1>4
<1>6. \A i \in 1..n : s[i] = f[p[i]]
  BY <1>2
<1> QED BY <1>1, <1>3, <1>4, <1>5, <1>6 DEF ListsOnce

-----------------------------------------------------------------------------
(* Opening the user store *)

LEMMA TypeFacts ==
    ASSUME UsersTypeOK
    PROVE  /\ Len(all) \in Nat /\ DOMAIN all = 1..Len(all)
           /\ \A i \in 1..Len(all) : all[i] \in User
           /\ Len(sync) \in Nat /\ \A i \in 1..Len(sync) : sync[i] \in User
BY DEF UsersTypeOK

\* A non-empty set of places of a list has a greatest member.
LEMMA GreatestMember ==
    ASSUME NEW n \in Nat, NEW T \in SUBSET (1..n), T # {}
    PROVE  \E x \in T : \A y \in T : y <= x
<1> DEFINE M == {n - y : y \in T}
<1>1. M \in SUBSET Nat /\ M # {}
  OBVIOUS
<1>2. PICK m \in M : \A y \in M : ~(<<y, m>> \in OpToRel(<, Nat))
  <2> HIDE DEF M
  <2> QED BY <1>1, NatLessThanWellFounded, WFMin
<1>3. \A y \in M : ~(y < m)
  <2> HIDE DEF M
  <2> QED BY <1>1, <1>2 DEF OpToRel
<1>4. PICK x \in T : m = n - x
  BY <1>2
<1>5. \A y \in T : ~(n - y < n - x)
  BY <1>3, <1>4
<1>6. \A y \in T : y \in Nat /\ x \in Nat
  OBVIOUS
<1> QED BY <1>4, <1>5, <1>6

\* The index of a list: the last entry of every id.
LEMMA IndexedFacts ==
    ASSUME NEW us \in Files
    PROVE  /\ Len(us) \in Nat /\ DOMAIN us = 1..Len(us)
           /\ us \in Seq(User)
           /\ \A i \in 1..Len(us) : us[i] \in User
           /\ Indexed(us) \in [UserIds -> User \cup {NoUser}]
           /\ \A i \in 1..Len(us) : IsLast(us, i) => Indexed(us)[us[i].id] = us[i]
           /\ \A id \in UserIds :
                 \/ \E i \in 1..Len(us) : us[i].id = id /\ IsLast(us, i)
                 \/ /\ \A i \in 1..Len(us) : us[i].id # id
                    /\ Indexed(us)[id] = NoUser
<1>1. us \in Seq(User)
  BY UserStoreAssumption
<1>2. Len(us) \in Nat /\ DOMAIN us = 1..Len(us) /\ \A i \in 1..Len(us) : us[i] \in User
  BY <1>1
<1>3. ASSUME NEW i \in 1..Len(us), IsLast(us, i)
      PROVE  Indexed(us)[us[i].id] = us[i]
  <2> DEFINE k == CHOOSE j \in DOMAIN us : us[j].id = us[i].id /\ IsLast(us, j)
  <2>1. k \in DOMAIN us /\ us[k].id = us[i].id /\ IsLast(us, k)
    BY <1>2, <1>3
  <2>2. us[i].id \in UserIds /\ us[i].id \in Ids(us)
    BY <1>2, UserFacts DEF Ids
  <2>3. Indexed(us)[us[i].id] = us[k]
    BY <2>2 DEF Indexed
  <2> HIDE DEF k
  <2>4. i <= k /\ k <= i /\ k \in Nat /\ i \in Nat
    BY <1>2, <1>3, <2>1 DEF IsLast
  <2> QED BY <2>3, <2>4
<1>4. ASSUME NEW id \in UserIds, \A i \in 1..Len(us) : us[i].id # id
      PROVE  Indexed(us)[id] = NoUser
  BY <1>2, <1>4 DEF Indexed, Ids
<1>4a. ASSUME NEW id \in UserIds, NEW m \in 1..Len(us), us[m].id = id
       PROVE  \E i \in 1..Len(us) : us[i].id = id /\ IsLast(us, i)
  <2> DEFINE T == {i \in 1..Len(us) : us[i].id = id}
  <2>1. T \in SUBSET (1..Len(us)) /\ T # {}
    BY <1>4a
  <2>2. PICK x \in T : \A y \in T : y <= x
    <3> HIDE DEF T
    <3> QED BY <1>2, <2>1, GreatestMember
  <2> QED BY <1>2, <2>2 DEF IsLast
<1>5. \A id \in UserIds : Indexed(us)[id] \in User \cup {NoUser}
  <2> SUFFICES ASSUME NEW id \in UserIds PROVE Indexed(us)[id] \in User \cup {NoUser}
    OBVIOUS
  <2>1. CASE \E i \in 1..Len(us) : us[i].id = id
    <3>1. PICK i \in 1..Len(us) : us[i].id = id /\ IsLast(us, i)
      BY <1>4a, <2>1
    <3>2. Indexed(us)[id] = us[i]
      BY <1>3, <3>1
    <3> QED BY <1>2, <3>1, <3>2
  <2>2. CASE \A i \in 1..Len(us) : us[i].id # id
    BY <1>4, <2>2
  <2> QED BY <2>1, <2>2
<1>6. Indexed(us) = [id \in UserIds |-> Indexed(us)[id]]
  BY DEF Indexed
<1>7. Indexed(us) \in [UserIds -> User \cup {NoUser}]
  <2> HIDE DEF Indexed
  <2> QED BY <1>5, <1>6
<1>8. \A id \in UserIds :
          \/ \E i \in 1..Len(us) : us[i].id = id /\ IsLast(us, i)
          \/ /\ \A i \in 1..Len(us) : us[i].id # id
             /\ Indexed(us)[id] = NoUser
  BY <1>4, <1>4a, Zenon
<1> QED BY <1>1, <1>2, <1>3, <1>7, <1>8

\* From the table: every row becomes one entry.
LEMMA OpenFromSQLKeeps ==
    ASSUME StoreInv, OpenFromSQL
    PROVE  StoreInv' /\ MemoryIsTable' /\ SyncOK'
<1>0. table \in [UserIds -> Row \cup {NoRow}] /\ file \in Files
  BY DEF StoreInv, UsersTypeOK
<1>1. /\ all' \in InOrder(Loaded, Rows) /\ byID' = Loaded /\ sync' = <<>>
      /\ unsaved' = {} /\ half' = {} /\ hidden' = {} /\ twice' = {}
      /\ table' = table /\ file' = file
  BY DEF OpenFromSQL
<1>2. \A id \in UserIds :
          /\ id \in Rows => table[id] \in Row
          /\ id \notin Rows => table[id] = NoRow
  BY <1>0 DEF Rows
<1>3. \A id \in UserIds :
          /\ id \in Rows => /\ Loaded[id] \in User /\ Loaded[id].id = id
                            /\ Loaded[id] # NoUser
          /\ id \notin Rows => Loaded[id] = NoUser
          /\ Agrees(Loaded[id], table[id])
  <2> SUFFICES ASSUME NEW id \in UserIds
               PROVE  /\ id \in Rows => /\ Loaded[id] \in User /\ Loaded[id].id = id
                                        /\ Loaded[id] # NoUser
                      /\ id \notin Rows => Loaded[id] = NoUser
                      /\ Agrees(Loaded[id], table[id])
    OBVIOUS
  <2>1. CASE id \in Rows
    <3>1. Loaded[id] = FromRow(id, table[id]) /\ table[id] \in Row
      BY <1>2, <2>1 DEF Loaded
    <3> QED BY <2>1, <3>1, LoadedAgrees, UserFacts
  <2>2. CASE id \notin Rows
    <3>1. Loaded[id] = NoUser /\ table[id] = NoRow
      BY <1>2, <2>2 DEF Loaded
    <3> QED BY <2>2, <3>1 DEF Agrees
  <2> QED BY <2>1, <2>2
<1>4. Rows \subseteq UserIds /\ IsFiniteSet(Rows)
  BY UserStoreAssumption, FS_Subset DEF Rows
<1>5. /\ Len(all') \in Nat /\ all' = [i \in 1..Len(all') |-> all'[i]]
      /\ \E p \in [1..Len(all') -> Rows] :
            /\ \A i \in 1..Len(all') : all'[i] = Loaded[p[i]]
            /\ \A i, j \in 1..Len(all') : p[i] = p[j] => i = j
            /\ \A d \in Rows : \E i \in 1..Len(all') : p[i] = d
  <2>1. ListsOnce(all', Loaded, Rows)
    BY <1>1, <1>4, InOrderLists
  <2> QED BY <2>1 DEF ListsOnce
<1>6. PICK p \in [1..Len(all') -> Rows] :
            /\ \A i \in 1..Len(all') : all'[i] = Loaded[p[i]]
            /\ \A i, j \in 1..Len(all') : p[i] = p[j] => i = j
            /\ \A d \in Rows : \E i \in 1..Len(all') : p[i] = d
  BY <1>5
<1>7. \A i \in 1..Len(all') : /\ p[i] \in Rows /\ p[i] \in UserIds
                              /\ all'[i] \in User /\ all'[i].id = p[i]
  BY <1>3, <1>4, <1>6
<1>8. all' \in Seq(User)
  BY <1>5, <1>7
<1>9. Loaded \in [UserIds -> User \cup {NoUser}]
  <2>1. Loaded = [id \in UserIds |-> Loaded[id]]
    BY DEF Loaded
  <2> QED BY <1>3, <2>1
<1>10. UsersTypeOK'
  BY <1>0, <1>1, <1>8, <1>9 DEF UsersTypeOK
<1>11. Keyed'
  BY <1>1, <1>3 DEF Keyed
<1>12. \A id \in UserIds : Once(id)'
  <2> SUFFICES ASSUME NEW id \in UserIds PROVE Once(id)'
    OBVIOUS
  <2>1. CASE id \in Rows
    <3>1. PICK i \in 1..Len(all') : p[i] = id
      BY <1>6, <2>1
    <3>2. all'[i] = byID'[id] /\ \A j \in 1..Len(all') : all'[j].id = id => j = i
      BY <1>1, <1>6, <1>7, <3>1
    <3>3. byID'[id] # NoUser
      BY <1>1, <1>3, <2>1
    <3> QED BY <3>1, <3>2, <3>3 DEF Once
  <2>2. CASE id \notin Rows
    BY <1>1, <1>3, <1>7, <2>2 DEF Once
  <2> QED BY <2>1, <2>2
<1>13. MemoryIsTable'
  BY <1>1, <1>3, MemoryIsTableNext
<1>14. SyncOK'
  BY <1>1 DEF SyncOK
<1> QED BY <1>10, <1>11, <1>12, <1>13, <1>14 DEF StoreInv

\* From the file: what the table has beside it is hidden, and its lines are to
\* be written.
LEMMA OpenFromFileKeeps ==
    ASSUME StoreInv, OpenFromFile
    PROVE  StoreInv' /\ MemoryIsTable' /\ SyncOK'
<1>0. table \in [UserIds -> Row \cup {NoRow}] /\ file \in Files
  BY DEF StoreInv, UsersTypeOK
<1>1. PICK us \in Files : us = file
  BY <1>0
<1>2. /\ Len(us) \in Nat /\ DOMAIN us = 1..Len(us) /\ us \in Seq(User)
      /\ \A i \in 1..Len(us) : us[i] \in User
      /\ Indexed(us) \in [UserIds -> User \cup {NoUser}]
      /\ \A i \in 1..Len(us) : IsLast(us, i) => Indexed(us)[us[i].id] = us[i]
      /\ \A id \in UserIds :
            \/ \E i \in 1..Len(us) : us[i].id = id /\ IsLast(us, i)
            \/ /\ \A i \in 1..Len(us) : us[i].id # id
               /\ Indexed(us)[id] = NoUser
  BY IndexedFacts
<1>3. PICK ix : ix = Indexed(us)
  OBVIOUS
<1>4. PICK ids : ids = Ids(us)
  OBVIOUS
<1>4a. PICK re : re = Repeated(us)
  OBVIOUS
<1>5. /\ all' = us /\ byID' = ix /\ sync' = us
      /\ unsaved' = {} /\ half' = {} /\ hidden' = Rows \ ids /\ twice' = re
      /\ table' = table /\ file' = file
  BY <1>1, <1>3, <1>4, <1>4a DEF OpenFromFile
<1>6. /\ ix \in [UserIds -> User \cup {NoUser}]
      /\ \A i \in 1..Len(us) : IsLast(us, i) => ix[us[i].id] = us[i]
      /\ \A id \in UserIds :
            \/ \E i \in 1..Len(us) : us[i].id = id /\ IsLast(us, i)
            \/ /\ \A i \in 1..Len(us) : us[i].id # id
               /\ ix[id] = NoUser
  BY <1>2, <1>3
<1>7. \A i \in 1..Len(us) : us[i].id \in UserIds /\ us[i] # NoUser
  BY <1>2, UserFacts
<1>7a. \A id : id \in ids <=> \E i \in 1..Len(us) : us[i].id = id
  BY <1>2, <1>4 DEF Ids
<1>7b. re \subseteq UserIds /\ \A i \in 1..Len(us) : us[i].id \in re \/ IsLast(us, i)
  BY <1>2, <1>4a, <1>7 DEF Repeated
<1>8. UsersTypeOK'
  <2>1. Rows \subseteq UserIds
    BY DEF Rows
  <2> QED BY <1>0, <1>2, <1>5, <1>6, <1>7b, <2>1 DEF UsersTypeOK
<1>9. \A id \in UserIds : ix[id] # NoUser => ix[id].id = id
  BY <1>6
<1>10. Keyed'
  BY <1>5, <1>9 DEF Keyed
<1>11. \A id \in UserIds : Once(id)'
  <2> SUFFICES ASSUME NEW id \in UserIds PROVE Once(id)'
    OBVIOUS
  <2>1. CASE \E i \in 1..Len(us) : us[i].id = id /\ IsLast(us, i)
    <3>1. PICK i \in 1..Len(us) : us[i].id = id /\ IsLast(us, i)
      BY <2>1
    <3>2. ix[id] = us[i] /\ ix[id] # NoUser
      BY <1>6, <1>7, <3>1
    <3>3. id \in re \/ \A j \in 1..Len(us) : us[j].id = id => j = i
      <4> SUFFICES ASSUME id \notin re, NEW j \in 1..Len(us), us[j].id = id PROVE j = i
        OBVIOUS
      <4>1. IsLast(us, j)
        BY <1>7b
      <4>2. i <= j /\ j <= i
        BY <1>2, <3>1, <4>1 DEF IsLast
      <4> QED BY <4>2
    <3> QED BY <1>5, <3>2, <3>3 DEF Once
  <2>2. CASE (\A i \in 1..Len(us) : us[i].id # id) /\ ix[id] = NoUser
    BY <1>5, <2>2 DEF Once
  <2> QED BY <1>6, <2>1, <2>2
<1>12. MemoryIsTable'
  <2> SUFFICES ASSUME NEW id \in UserIds, id \notin ids, id \notin Rows
               PROVE  Agrees(ix[id], table[id])
    BY <1>4, <1>5, MemoryIsTableNext
  <2>1. ix[id] = NoUser
    BY <1>6, <1>7a
  <2>2. table[id] = NoRow
    BY DEF Rows
  <2> QED BY <2>1, <2>2 DEF Agrees
<1>13. SyncOK'
  <2> SUFFICES ASSUME NEW i \in 1..Len(us), \A j \in 1..Len(us) : us[j].id = us[i].id => j <= i
               PROVE  ix[us[i].id] = us[i]
    BY <1>5 DEF SyncOK
  <2>1. IsLast(us, i)
    BY <1>2 DEF IsLast
  <2> QED BY <1>6, <2>1
<1> QED BY <1>8, <1>10, <1>11, <1>12, <1>13 DEF StoreInv

\* saveToSQL leaves the other users alone.
LEMMA SaveFacts ==
    ASSUME UsersTypeOK, NEW u \in User, NEW ok \in BOOLEAN, SaveToSQL(u, ok)
    PROVE  /\ table' \in [UserIds -> Row \cup {NoRow}]
           /\ unsaved' \subseteq UserIds /\ hidden' \subseteq UserIds
           /\ \A id \in UserIds : id # u.id =>
                 /\ table'[id] = table[id]
                 /\ id \in unsaved' <=> id \in unsaved
                 /\ id \in hidden' <=> id \in hidden
           /\ u.id \notin unsaved' => Agrees(u, table'[u.id])
<1>1. u.id \in UserIds
  BY UserFacts
<1>2. RowOf(u) \in Row /\ Agrees(u, RowOf(u))
  BY SavedAgrees
<1>3. CASE ok
  <2>1. table' = [table EXCEPT ![u.id] = RowOf(u)] /\ unsaved' = unsaved \ {u.id}
        /\ hidden' = hidden \ {u.id}
    BY <1>3 DEF SaveToSQL
  <2> QED BY <1>1, <1>2, <2>1 DEF UsersTypeOK
<1>4. CASE ~ok
  <2>1. table' = table /\ unsaved' = unsaved \cup {u.id} /\ hidden' = hidden \ {u.id}
    BY <1>4 DEF SaveToSQL
  <2> QED BY <1>1, <2>1 DEF UsersTypeOK
<1> QED BY <1>3, <1>4

\* What the index has of u is saved, or known not to be; the others agree as
\* they did.
LEMMA SaveAgrees ==
    ASSUME UsersTypeOK, NEW u \in User, NEW ok \in BOOLEAN, SaveToSQL(u, ok), MemoryIsTable,
           byID'[u.id] = u \/ u.id \in Ids(sync'),
           \A id \in UserIds : id # u.id => byID'[id] = byID[id],
           \A id \in UserIds : id # u.id /\ id \in Ids(sync) => id \in Ids(sync')
    PROVE  MemoryIsTable'
<1> SUFFICES ASSUME NEW id \in UserIds, id \notin unsaved', id \notin hidden', id \notin Ids(sync')
             PROVE  Agrees(byID'[id], table'[id])
  BY MemoryIsTableNext
<1>1. /\ \A i \in UserIds : i # u.id =>
                 /\ table'[i] = table[i]
                 /\ i \in unsaved' <=> i \in unsaved
                 /\ i \in hidden' <=> i \in hidden
      /\ u.id \notin unsaved' => Agrees(u, table'[u.id])
  BY SaveFacts
<1>2. CASE id = u.id
  BY <1>1, <1>2
<1>3. CASE id # u.id
  BY <1>1, <1>3, MemoryIsTableDef
<1> QED BY <1>2, <1>3

\* One user is written back.
LEMMA SyncOneKeeps ==
    ASSUME StoreInv, MemoryIsTable, SyncOK, NEW ok \in BOOLEAN, SyncOne(ok)
    PROVE  StoreInv' /\ MemoryIsTable' /\ SyncOK'
<1>0. UsersTypeOK /\ Keyed
  BY DEF StoreInv
<1>1. /\ sync # <<>> /\ SaveToSQL(Head(sync), ok) /\ sync' = Tail(sync)
      /\ file' = file /\ all' = all /\ byID' = byID /\ half' = half /\ twice' = twice
  BY DEF SyncOne
<1>2. PICK u : u = Head(sync)
  OBVIOUS
<1>3. /\ u \in User /\ u = sync[1]
      /\ Len(sync) \in Nat /\ Len(sync) >= 1 /\ DOMAIN sync = 1..Len(sync)
      /\ sync' \in Seq(User) /\ Len(sync') = Len(sync) - 1 /\ DOMAIN sync' = 1..Len(sync')
      /\ \A i \in 1..Len(sync') : sync'[i] = sync[i + 1]
  <2>1. sync \in Seq(User) /\ sync # <<>>
    BY <1>0, <1>1 DEF UsersTypeOK
  <2>2. Len(sync) \in Nat /\ Len(sync) >= 1 /\ Head(sync) = sync[1] /\ sync[1] \in User
        /\ DOMAIN sync = 1..Len(sync)
    BY <2>1
  <2>3. /\ Tail(sync) \in Seq(User) /\ Len(Tail(sync)) = Len(sync) - 1
        /\ \A i \in 1..(Len(sync) - 1) : Tail(sync)[i] = sync[i + 1]
    BY <2>1
  <2>4. DOMAIN Tail(sync) = 1..Len(Tail(sync))
    BY <2>3
  <2> QED BY <1>1, <1>2, <2>2, <2>3, <2>4
<1>4. SaveToSQL(u, ok)
  BY <1>1, <1>2
<1>4a. \A j \in 1..Len(sync) : j = 1 \/ (j - 1 \in 1..Len(sync') /\ sync'[j - 1] = sync[j])
  BY <1>3
<1>4b. byID[u.id] = u \/ u.id \in Ids(sync')
  <2>1. CASE \A j \in 1..Len(sync) : sync[j].id = u.id => j = 1
    <3>1. 1 \in 1..Len(sync)
      BY <1>3
    <3>2. \A j \in 1..Len(sync) : sync[j].id = sync[1].id => j <= 1
      BY <1>3, <2>1
    <3> QED BY <1>3, <3>1, <3>2 DEF SyncOK
  <2>2. CASE \E j \in 1..Len(sync) : sync[j].id = u.id /\ j # 1
    <3>1. PICK j \in 1..Len(sync) : sync[j].id = u.id /\ j # 1
      BY <2>2
    <3>2. j - 1 \in DOMAIN sync' /\ sync'[j - 1].id = u.id
      BY <1>3, <1>4a, <3>1
    <3> QED BY <3>2 DEF Ids
  <2> QED BY <2>1, <2>2
<1>4c. \A id \in UserIds : id # u.id /\ id \in Ids(sync) => id \in Ids(sync')
  <2> SUFFICES ASSUME NEW id \in UserIds, id # u.id, id \in Ids(sync) PROVE id \in Ids(sync')
    OBVIOUS
  <2>1. PICK j \in 1..Len(sync) : sync[j].id = id
    BY <1>3 DEF Ids
  <2>2. j - 1 \in DOMAIN sync' /\ sync'[j - 1].id = id
    BY <1>3, <1>4a, <2>1
  <2> QED BY <2>2 DEF Ids
<1>5. MemoryIsTable'
  BY <1>0, <1>1, <1>3, <1>4, <1>4b, <1>4c, SaveAgrees, Zenon
<1>6. /\ table' \in [UserIds -> Row \cup {NoRow}]
      /\ unsaved' \subseteq UserIds /\ hidden' \subseteq UserIds
  BY <1>0, <1>3, <1>4, SaveFacts
<1>7. UsersTypeOK'
  BY <1>0, <1>1, <1>3, <1>6 DEF UsersTypeOK
<1>8. Keyed' /\ \A id \in UserIds \ half' : Once(id)'
  BY <1>0, <1>1 DEF StoreInv, Keyed, Once
<1>9. SyncOK'
  <2> SUFFICES ASSUME NEW i \in 1..Len(sync'),
                      \A j \in 1..Len(sync') : sync'[j].id = sync'[i].id => j <= i
               PROVE  byID'[sync'[i].id] = sync'[i]
    BY DEF SyncOK
  <2>1. i + 1 \in 1..Len(sync) /\ sync'[i] = sync[i + 1]
    BY <1>3
  <2>2. ASSUME NEW j \in 1..Len(sync), sync[j].id = sync[i + 1].id PROVE j <= i + 1
    <3>1. CASE j = 1
      BY <1>3, <3>1
    <3>2. CASE j - 1 \in 1..Len(sync') /\ sync'[j - 1] = sync[j]
      <4>1. j - 1 <= i
        BY <2>1, <2>2, <3>2
      <4> QED BY <1>3, <4>1
    <3> QED BY <1>4a, <3>1, <3>2
  <2> QED BY <1>1, <2>1, <2>2 DEF SyncOK
<1> QED BY <1>5, <1>7, <1>8, <1>9 DEF StoreInv

LEMMA ForgetKeeps ==
    ASSUME StoreInv, Forget
    PROVE  StoreInv' /\ UpdOK'
<1>1. /\ all' = <<>> /\ byID' = [id \in UserIds |-> NoUser] /\ sync' = <<>> /\ upd' = NoUpd
      /\ unsaved' = {} /\ half' = {} /\ hidden' = {} /\ twice' = {}
      /\ file' = file /\ table' = table
  BY DEF Forget
<1>2. UsersTypeOK'
  BY <1>1 DEF StoreInv, UsersTypeOK
<1>3. Keyed' /\ \A id \in UserIds \ half' : Once(id)'
  BY <1>1 DEF Keyed, Once
<1>4. UpdOK'
  BY <1>1 DEF UpdOK, NoUpd
<1> QED BY <1>2, <1>3, <1>4 DEF StoreInv

-----------------------------------------------------------------------------
(* The methods *)

\* A user that the index does not have is not in the list either, and is then
\* at its end.
LEMMA CreateKeeps ==
    ASSUME StoreInv, MemoryIsTable, NEW u \in User, NEW ok \in BOOLEAN, Create(u, ok)
    PROVE  StoreInv' /\ MemoryIsTable'
<1>0. UsersTypeOK /\ Keyed /\ \A id \in UserIds \ half : Once(id)
  BY DEF StoreInv
<1>1. /\ byID[u.id] = NoUser
      /\ all' = Append(all, u) /\ byID' = [byID EXCEPT ![u.id] = u]
      /\ SaveToSQL(u, ok) /\ file' = file /\ sync' = sync /\ half' = half /\ twice' = twice
  BY DEF Create
<1>2. u.id \in UserIds /\ u # NoUser
  BY UserFacts
<1>3. /\ byID' \in [UserIds -> User \cup {NoUser}]
      /\ byID'[u.id] = u /\ \A id \in UserIds : id # u.id => byID'[id] = byID[id]
  BY <1>0, <1>1, <1>2 DEF UsersTypeOK
<1>4. /\ Len(all) \in Nat /\ Len(all') = Len(all) + 1 /\ all' \in Seq(User)
      /\ \A i \in 1..Len(all) : all'[i] = all[i]
      /\ all'[Len(all) + 1] = u
  BY <1>0, <1>1 DEF UsersTypeOK
<1>5. MemoryIsTable'
  BY <1>0, <1>1, <1>3, SaveAgrees
<1>6. UsersTypeOK'
  <2>1. /\ table' \in [UserIds -> Row \cup {NoRow}]
        /\ unsaved' \subseteq UserIds /\ hidden' \subseteq UserIds
    BY <1>0, <1>1, SaveFacts
  <2> QED BY <1>0, <1>1, <1>3, <1>4, <2>1 DEF UsersTypeOK
<1>7. Keyed'
  BY <1>0, <1>3 DEF Keyed
<1>8. ASSUME NEW id \in UserIds \ half' PROVE Once(id)'
  <2>1. Once(id)
    BY <1>0, <1>1
  <2>2. \A i \in 1..Len(all') : i \in 1..Len(all) \/ i = Len(all) + 1
    BY <1>4
  <2>2a. \A i \in 1..Len(all) : i \in 1..Len(all')
    BY <1>4
  <2>2b. Len(all) + 1 \in 1..Len(all')
    BY <1>4
  <2>3. CASE id = u.id
    <3>1. \A i \in 1..Len(all) : all[i].id # id
      BY <1>1, <2>1, <2>3 DEF Once
    <3>2. \A j \in 1..Len(all') : all'[j].id = id => j = Len(all) + 1
      BY <1>4, <2>2, <3>1
    <3> QED BY <1>2, <1>3, <1>4, <2>2b, <2>3, <3>2 DEF Once
  <2>4. CASE id # u.id
    <3>1. byID'[id] = byID[id]
      BY <1>3, <2>4
    <3>2. CASE byID[id] = NoUser
      BY <1>4, <2>1, <2>2, <2>4, <3>1, <3>2 DEF Once
    <3>3. CASE byID[id] # NoUser
      <4>1. PICK i \in 1..Len(all) :
                /\ all[i] = byID[id]
                /\ id \in twice \/ \A j \in 1..Len(all) : all[j].id = id => j = i
        BY <2>1, <3>3 DEF Once
      <4>2. id \in twice' \/ \A j \in 1..Len(all') : all'[j].id = id => j = i
        BY <1>1, <1>4, <2>2, <2>4, <4>1
      <4>3. i \in 1..Len(all') /\ all'[i] = byID'[id]
        BY <1>4, <2>2a, <3>1, <4>1
      <4> QED BY <3>1, <3>3, <4>2, <4>3 DEF Once
    <3> QED BY <3>2, <3>3
  <2> QED BY <2>3, <2>4
<1> QED BY <1>5, <1>6, <1>7, <1>8 DEF StoreInv

\* Setting a field makes a user of the same id.
LEMMA SetField ==
    ASSUME NEW u \in User, NEW f \in DOMAIN Values, NEW v \in Values[f]
    PROVE  /\ [u EXCEPT ![f] = v] \in User
           /\ [u EXCEPT ![f] = v].id = u.id
<1>1. f \in {"pass", "pro", "role", "off"}
  BY DEF Values
<1>2. CASE f = "pass"
  <2>1. v = "hash"
    BY <1>2 DEF Values
  <2> QED BY <1>2, <2>1 DEF User
<1>3. CASE f = "pro"
  <2>1. v \in BOOLEAN
    BY <1>3 DEF Values
  <2> QED BY <1>3, <2>1 DEF User
<1>4. CASE f = "role"
  <2>1. v \in Roles
    BY <1>4 DEF Values
  <2> QED BY <1>4, <2>1 DEF User
<1>5. CASE f = "off"
  <2>1. v \in BOOLEAN
    BY <1>5 DEF Values
  <2> QED BY <1>5, <2>1 DEF User
<1> QED BY <1>1, <1>2, <1>3, <1>4, <1>5

\* mutate changes the entry that the index answers; the places of the others
\* and all ids stay.
LEMMA MutateKeeps ==
    ASSUME StoreInv, MemoryIsTable, NEW id \in UserIds,
           NEW f \in DOMAIN Values, NEW v \in Values[f], NEW ok \in BOOLEAN, Mutate(id, f, v, ok)
    PROVE  StoreInv' /\ MemoryIsTable'
<1>0. UsersTypeOK /\ Keyed /\ \A k \in UserIds \ half : Once(k)
  BY DEF StoreInv
<1>1. PICK i \in DOMAIN all :
          /\ IsFirst(i, id)
          /\ all' = [all EXCEPT ![i] = [all[i] EXCEPT ![f] = v]]
          /\ byID' = [byID EXCEPT ![id] = [all[i] EXCEPT ![f] = v]]
          /\ SaveToSQL([all[i] EXCEPT ![f] = v], ok)
  BY DEF Mutate
<1>2. PICK u : u = [all[i] EXCEPT ![f] = v]
  OBVIOUS
<1>3. /\ Len(all) \in Nat /\ DOMAIN all = 1..Len(all)
      /\ \A j \in 1..Len(all) : all[j] \in User
  BY <1>0, TypeFacts
<1>4. all[i].id = id /\ i \in 1..Len(all) /\ all[i] \in User
  BY <1>1, <1>3 DEF IsFirst
<1>5. u \in User /\ u.id = id /\ u # NoUser
  <2>1. u \in User /\ u.id = all[i].id
    BY <1>2, <1>4, SetField
  <2> QED BY <1>4, <2>1, UserFacts
<1>6. /\ all' = [all EXCEPT ![i] = u] /\ byID' = [byID EXCEPT ![id] = u]
      /\ SaveToSQL(u, ok)
  BY <1>1, <1>2
<1>7. UNCHANGED <<file, sync, half, twice>>
  BY DEF Mutate
<1>8. /\ byID' \in [UserIds -> User \cup {NoUser}]
      /\ byID'[id] = u /\ \A k \in UserIds : k # id => byID'[k] = byID[k]
  BY <1>0, <1>5, <1>6 DEF UsersTypeOK
<1>9. /\ all' \in Seq(User) /\ Len(all') = Len(all)
      /\ all'[i] = u
      /\ \A j \in 1..Len(all) : j # i => all'[j] = all[j]
  BY <1>0, <1>3, <1>4, <1>5, <1>6 DEF UsersTypeOK
<1>10. \A j \in 1..Len(all) : all'[j].id = all[j].id
  BY <1>4, <1>5, <1>9
<1>11. MemoryIsTable'
  BY <1>0, <1>5, <1>6, <1>7, <1>8, SaveAgrees
<1>12. UsersTypeOK'
  <2>1. /\ table' \in [UserIds -> Row \cup {NoRow}]
        /\ unsaved' \subseteq UserIds /\ hidden' \subseteq UserIds
    BY <1>0, <1>5, <1>6, SaveFacts
  <2> QED BY <1>0, <1>7, <1>8, <1>9, <2>1 DEF UsersTypeOK
<1>13. Keyed'
  BY <1>0, <1>5, <1>8 DEF Keyed
<1>14. ASSUME NEW k \in UserIds \ half' PROVE Once(k)'
  <2>1. Once(k)
    BY <1>0, <1>7
  <2>2. CASE k = id
    <3>1. id \in twice \/ \E n \in 1..Len(all) : \A j \in 1..Len(all) : all[j].id = id => j = n
      BY <1>4, <2>1, <2>2 DEF Once
    <3>2. id \in twice' \/ \A j \in 1..Len(all') : all'[j].id = id => j = i
      BY <1>4, <1>7, <1>9, <1>10, <3>1
    <3> QED BY <1>4, <1>5, <1>8, <1>9, <2>2, <3>2 DEF Once
  <2>3. CASE k # id
    <3>1. byID'[k] = byID[k]
      BY <1>8, <2>3
    <3>2. CASE byID[k] = NoUser
      BY <1>9, <1>10, <2>1, <3>1, <3>2 DEF Once
    <3>3. CASE byID[k] # NoUser
      <4>1. PICK n \in 1..Len(all) :
                /\ all[n] = byID[k]
                /\ k \in twice \/ \A j \in 1..Len(all) : all[j].id = k => j = n
        BY <2>1, <3>3 DEF Once
      <4>2. n # i
        BY <1>0, <1>4, <2>3, <3>3, <4>1 DEF Keyed
      <4>3. n \in 1..Len(all') /\ all'[n] = byID'[k]
        BY <1>9, <3>1, <4>1, <4>2
      <4>4. k \in twice' \/ \A j \in 1..Len(all') : all'[j].id = k => j = n
        BY <1>7, <1>9, <1>10, <4>1
      <4> QED BY <3>1, <3>3, <4>3, <4>4 DEF Once
    <3> QED BY <3>2, <3>3
  <2> QED BY <2>2, <2>3
<1> QED BY <1>11, <1>12, <1>13, <1>14 DEF StoreInv

\* Delete takes every entry of the user from the list, or reports that it did
\* not.
LEMMA DeleteKeeps ==
    ASSUME StoreInv, MemoryIsTable, NEW id \in UserIds, NEW ok \in BOOLEAN, Delete(id, ok)
    PROVE  StoreInv' /\ MemoryIsTable'
<1>0. UsersTypeOK /\ Keyed /\ \A k \in UserIds \ half : Once(k)
  BY DEF StoreInv
<1>1. /\ byID' = [byID EXCEPT ![id] = NoUser] /\ hidden' = hidden \ {id}
      /\ file' = file /\ sync' = sync
  BY DEF Delete
<1>2. /\ byID' \in [UserIds -> User \cup {NoUser}]
      /\ byID'[id] = NoUser /\ \A k \in UserIds : k # id => byID'[k] = byID[k]
  BY <1>0, <1>1 DEF UsersTypeOK
<1>3. Keyed'
  BY <1>0, <1>2 DEF Keyed
<1>4. CASE ok
  <2> DEFINE D == {i \in DOMAIN all : all[i].id # id}
  <2>1. /\ table' = [table EXCEPT ![id] = NoRow]
        /\ all' \in InOrder(all, D)
        /\ unsaved' = unsaved \ {id} /\ half' = half \ {id} /\ twice' = twice \ {id}
    BY <1>4 DEF Delete
  <2>2. /\ Len(all) \in Nat /\ DOMAIN all = 1..Len(all)
        /\ \A j \in 1..Len(all) : all[j] \in User
    BY <1>0, TypeFacts
  <2>3. \A i : i \in D <=> i \in 1..Len(all) /\ all[i].id # id
    BY <2>2
  <2>4. IsFiniteSet(D)
    <3>1. IsFiniteSet(1..Len(all))
      BY <2>2, FS_Interval
    <3> QED BY <2>3, <3>1, FS_Subset
  <2> HIDE DEF D
  <2>5. /\ Len(all') \in Nat /\ all' = [i \in 1..Len(all') |-> all'[i]]
        /\ \E p \in [1..Len(all') -> D] :
              /\ \A i \in 1..Len(all') : all'[i] = all[p[i]]
              /\ \A i, j \in 1..Len(all') : p[i] = p[j] => i = j
              /\ \A d \in D : \E i \in 1..Len(all') : p[i] = d
    <3>1. ListsOnce(all', all, D)
      BY <2>1, <2>4, InOrderLists
    <3> QED BY <3>1 DEF ListsOnce
  <2>6. PICK p \in [1..Len(all') -> D] :
              /\ \A i \in 1..Len(all') : all'[i] = all[p[i]]
              /\ \A i, j \in 1..Len(all') : p[i] = p[j] => i = j
              /\ \A d \in D : \E i \in 1..Len(all') : p[i] = d
    BY <2>5
  <2>7. \A i \in 1..Len(all') : /\ p[i] \in 1..Len(all) /\ all'[i] \in User
                                /\ all'[i].id # id /\ all'[i] = all[p[i]]
    BY <2>2, <2>3, <2>6
  <2>8. all' \in Seq(User)
    BY <2>5, <2>7
  <2>9. /\ table' \in [UserIds -> Row \cup {NoRow}] /\ table'[id] = NoRow
        /\ \A k \in UserIds : k # id => table'[k] = table[k]
    BY <1>0, <2>1 DEF UsersTypeOK
  <2>10. UsersTypeOK'
    BY <1>0, <1>1, <1>2, <2>1, <2>8, <2>9 DEF UsersTypeOK
  <2>11. MemoryIsTable'
    <3> SUFFICES ASSUME NEW k \in UserIds, k \notin unsaved', k \notin hidden', k \notin Ids(sync')
                 PROVE  Agrees(byID'[k], table'[k])
      BY MemoryIsTableNext
    <3>1. CASE k = id
      BY <1>2, <2>9, <3>1 DEF Agrees
    <3>2. CASE k # id
      BY <1>1, <1>2, <2>1, <2>9, <3>2, MemoryIsTableDef
    <3> QED BY <3>1, <3>2
  <2>12. ASSUME NEW k \in UserIds \ half' PROVE Once(k)'
    <3>1. CASE k = id
      BY <1>2, <2>7, <3>1 DEF Once
    <3>2. CASE k # id
      <4>1. Once(k) /\ byID'[k] = byID[k]
        BY <1>0, <1>2, <2>1, <3>2
      <4>2. CASE byID[k] = NoUser
        BY <2>7, <4>1, <4>2 DEF Once
      <4>3. CASE byID[k] # NoUser
        <5>1. PICK n \in 1..Len(all) :
                  /\ all[n] = byID[k]
                  /\ k \in twice \/ \A j \in 1..Len(all) : all[j].id = k => j = n
          BY <4>1, <4>3 DEF Once
        <5>2. n \in D
          BY <1>0, <2>3, <3>2, <4>3, <5>1 DEF Keyed
        <5>3. PICK i \in 1..Len(all') : p[i] = n
          BY <2>6, <5>2
        <5>4. all'[i] = byID'[k]
          BY <2>7, <4>1, <5>1, <5>3
        <5>5. k \in twice' \/ \A j \in 1..Len(all') : all'[j].id = k => j = i
          <6>1. CASE k \in twice
            BY <2>1, <3>2, <6>1
          <6>2. CASE \A j \in 1..Len(all) : all[j].id = k => j = n
            BY <2>6, <2>7, <5>3, <6>2
          <6> QED BY <5>1, <6>1, <6>2
        <5> QED BY <4>1, <4>3, <5>4, <5>5 DEF Once
      <4> QED BY <4>2, <4>3
    <3> QED BY <3>1, <3>2
  <2> QED BY <1>3, <2>10, <2>11, <2>12 DEF StoreInv
<1>5. CASE ~ok
  <2>1. /\ unsaved' = unsaved \cup {id} /\ half' = half \cup {id}
        /\ table' = table /\ all' = all /\ twice' = twice
    BY <1>5 DEF Delete
  <2>2. UsersTypeOK'
    BY <1>0, <1>1, <1>2, <2>1 DEF UsersTypeOK
  <2>3. MemoryIsTable'
    <3> SUFFICES ASSUME NEW k \in UserIds, k \notin unsaved', k \notin hidden', k \notin Ids(sync')
                 PROVE  Agrees(byID'[k], table'[k])
      BY MemoryIsTableNext
    <3> QED BY <1>1, <1>2, <2>1, MemoryIsTableDef
  <2>4. ASSUME NEW k \in UserIds \ half' PROVE Once(k)'
    <3>1. k # id /\ Once(k) /\ byID'[k] = byID[k]
      BY <1>0, <1>2, <2>1
    <3> QED BY <2>1, <3>1 DEF Once
  <2> QED BY <1>3, <2>2, <2>3, <2>4 DEF StoreInv
<1> QED BY <1>4, <1>5

\* The requests of a running server, UpdateUser among them.
LEMMA RequestKeeps ==
    ASSUME StoreInv, UpdOK, MemoryIsTable, UserRequest
    PROVE  StoreInv' /\ UpdOK' /\ MemoryIsTable'
<1>1. ASSUME upd' = upd PROVE UpdOK'
  BY <1>1 DEF UpdOK
<1>2. ASSUME UNCHANGED <<file, storeVars>> PROVE StoreInv' /\ MemoryIsTable'
  <2>1. /\ file' = file /\ table' = table /\ all' = all /\ byID' = byID /\ sync' = sync
        /\ unsaved' = unsaved /\ half' = half /\ hidden' = hidden /\ twice' = twice
    BY <1>2 DEF storeVars
  <2>2. StoreInv'
    BY <2>1 DEF StoreInv, UsersTypeOK, Keyed, Once
  <2>3. MemoryIsTable'
    BY <2>1 DEF MemoryIsTable, Ids
  <2> QED BY <2>2, <2>3
<1>3. \A u \in NewUsers :
          /\ u \in User
          /\ [u EXCEPT !.pass = "hash", !.roleID = NoRole] \in User
          /\ [u EXCEPT !.pass = "hash", !.role = "user", !.roleID = "user"] \in User
  <2> SUFFICES ASSUME NEW u \in NewUsers
               PROVE  /\ u \in User
                      /\ [u EXCEPT !.pass = "hash", !.roleID = NoRole] \in User
                      /\ [u EXCEPT !.pass = "hash", !.role = "user", !.roleID = "user"] \in User
    OBVIOUS
  <2>1. u \in User
    BY UserStoreAssumption
  <2>2. [u EXCEPT !.pass = "hash", !.roleID = NoRole] \in User
    BY <2>1 DEF User
  <2>3. [u EXCEPT !.pass = "hash", !.role = "user", !.roleID = "user"] \in User
    BY <2>1 DEF User, Roles
  <2> QED BY <2>1, <2>2, <2>3
<1>4. CASE CreateUser
  <2>1. PICK u \in NewUsers, ok \in BOOLEAN :
            Create([u EXCEPT !.pass = "hash", !.roleID = NoRole], ok) /\ upd' = upd
    BY <1>4 DEF CreateUser
  <2> QED BY <1>1, <1>3, <2>1, CreateKeeps
<1>5. CASE Signup
  <2>1. PICK u \in NewUsers, ok \in BOOLEAN :
            /\ Create([u EXCEPT !.pass = "hash", !.role = "user", !.roleID = "user"], ok)
            /\ upd' = upd
    BY <1>5 DEF Signup
  <2> QED BY <1>1, <1>3, <2>1, CreateKeeps
<1>6. CASE ImportUser
  <2>1. PICK u \in NewUsers, ok \in BOOLEAN : Create(u, ok) /\ upd' = upd
    BY <1>6 DEF ImportUser
  <2> QED BY <1>1, <1>3, <2>1, CreateKeeps
<1>7. CASE DeleteUser
  <2>1. PICK id \in UserIds, ok \in BOOLEAN : Delete(id, ok) /\ upd' = upd
    BY <1>7 DEF DeleteUser
  <2> QED BY <1>1, <2>1, DeleteKeeps
<1>8. CASE \E id \in UserIds : UpdateUser(id)
  <2>1. PICK id \in UserIds : UpdateUser(id)
    BY <1>8
  <2>2. PICK c \in SUBSET {d \in Changes : d.id = id} : upd' = [id |-> id, todo |-> c]
    BY <2>1 DEF UpdateUser
  <2>3. UpdOK'
    BY <2>2 DEF UpdOK
  <2> QED BY <1>2, <2>1, <2>3 DEF UpdateUser
<1>9. CASE \E ok \in BOOLEAN : UpdateField(ok)
  <2>1. PICK ok \in BOOLEAN : UpdateField(ok)
    BY <1>9
  <2>2. PICK c \in upd.todo :
            /\ Mutate(upd.id, c.field, c.value, ok)
            /\ upd' = IF ok /\ upd.todo # {c} THEN [upd EXCEPT !.todo = @ \ {c}] ELSE NoUpd
    BY <2>1 DEF UpdateField
  <2>3. upd # NoUpd
    BY <2>1 DEF UpdateField
  <2>4. upd.id \in UserIds /\ c \in Changes
    BY <2>3 DEF UpdOK
  <2>5. c.field \in DOMAIN Values /\ c.value \in Values[c.field]
    BY <2>4, UserStoreAssumption
  <2>6. UpdOK'
    <3>1. CASE upd' = NoUpd
      BY <3>1 DEF UpdOK, NoUpd
    <3>2. CASE upd' = [upd EXCEPT !.todo = @ \ {c}]
      <4>1. upd' \in [id : UserIds \cup {0}, todo : SUBSET Changes] /\ upd'.id = upd.id
        BY <3>2 DEF UpdOK
      <4> QED BY <2>4, <4>1 DEF UpdOK
    <3> QED BY <2>2, <3>1, <3>2
  <2> QED BY <2>2, <2>4, <2>5, <2>6, MutateKeeps
<1>10. CASE \E id \in UserIds, ok \in BOOLEAN :
                HandleChangePassword(id, ok) \/ HandleProfile(id, ok) \/ ResetPassword(id, ok)
  <2>1. PICK id \in UserIds, ok \in BOOLEAN : Mutate(id, "pass", "hash", ok) /\ upd' = upd
    BY <1>10 DEF HandleChangePassword, HandleProfile, ResetPassword, SetPassword
  <2>2. "pass" \in DOMAIN Values /\ "hash" \in Values["pass"]
    BY DEF Values
  <2> QED BY <1>1, <2>1, <2>2, MutateKeeps
<1>11. CASE UpdateNotFound
  <2>1. upd' = NoUpd /\ UNCHANGED <<file, storeVars>>
    BY <1>11 DEF UpdateNotFound
  <2>2. UpdOK'
    BY <2>1 DEF UpdOK, NoUpd
  <2> QED BY <1>2, <2>1, <2>2
<1> QED BY <1>4, <1>5, <1>6, <1>7, <1>8, <1>9, <1>10, <1>11 DEF UserRequest

-----------------------------------------------------------------------------
(* The start *)

\* The initial state.
LEMMA InitIInv == Init => IInv
<1> SUFFICES ASSUME Init PROVE IInv
  OBVIOUS
<1>1. UsersInit /\ Subs!Init /\ start = "down"
  BY DEF Init
<1>2. UsersInv
  <2>1. UsersTypeOK
    BY <1>1 DEF UsersInit, UsersTypeOK
  <2>2. Keyed /\ \A id \in UserIds \ half : Once(id)
    BY <1>1 DEF UsersInit, Keyed, Once
  <2>3. UpdOK
    BY <1>1 DEF UsersInit, UpdOK, NoUpd
  <2> QED BY <1>1, <2>1, <2>2, <2>3 DEF UsersInv, StoreInv, BeforeUsers
<1>3. SubsInv
  BY <1>1 DEF Subs!Init, SubsInv, Subs!TypeOK, BeforeSubs, BeforeUsers
<1>4. SchemaInv
  <2>1. PICK n \in 0..Len(Migrations) : applied = {Migrations[i] : i \in 1..n}
    BY DEF Init
  <2>2. /\ MigrationSet = {2, 3, 4, 6} /\ n \in 0..4
        /\ Migrations[1] = 2 /\ Migrations[2] = 3 /\ Migrations[3] = 4 /\ Migrations[4] = 6
    BY <2>1 DEF MigrationSet, Migrations, Range
  <2>3. applied \in {{}, {2}, {2, 3}, {2, 3, 4}, {2, 3, 4, 6}}
    <3>1. CASE n = 0
      BY <2>1, <3>1
    <3>2. CASE n = 1
      BY <2>1, <2>2, <3>2
    <3>3. CASE n = 2
      BY <2>1, <2>2, <3>3
    <3>4. CASE n = 3
      BY <2>1, <2>2, <3>4
    <3>5. CASE n = 4
      BY <2>1, <2>2, <3>5
    <3> QED BY <2>2, <3>1, <3>2, <3>3, <3>4, <3>5
  <2>4. versions = applied /\ current = 0
    BY DEF Init
  <2> QED BY <1>1, <2>2, <2>3, <2>4 DEF SchemaInv
<1>5. RolesInv
  BY <1>1 DEF Init, RolesInv
<1> QED BY <1>1, <1>2, <1>3, <1>4, <1>5 DEF IInv, Phases

\* A store that is left alone stays as it is, where the start goes on.
LEMMA UsersFrame ==
    ASSUME UsersInv, UNCHANGED userVars,
           start' = "sync" => start = "sync", start' \notin BeforeUsers => start \notin BeforeUsers
    PROVE  UsersInv'
<1>1. /\ file' = file /\ table' = table /\ all' = all /\ byID' = byID /\ sync' = sync
      /\ unsaved' = unsaved /\ half' = half /\ hidden' = hidden /\ twice' = twice /\ upd' = upd
  BY DEF userVars, storeVars
<1>2. StoreInv'
  BY <1>1 DEF UsersInv, StoreInv, UsersTypeOK, Keyed, Once
<1>3. UpdOK'
  BY <1>1 DEF UsersInv, UpdOK
<1>4. start' = "sync" => SyncOK'
  BY <1>1 DEF UsersInv, SyncOK
<1>5. start' \notin BeforeUsers => MemoryIsTable'
  BY <1>1 DEF UsersInv, MemoryIsTable
<1> QED BY <1>2, <1>3, <1>4, <1>5 DEF UsersInv, BeforeUsers

LEMMA SubsFrame ==
    ASSUME SubsInv, UNCHANGED subVars,
           start' = "seed" => start = "seed", start' \notin BeforeSubs => start \notin BeforeSubs
    PROVE  SubsInv'
BY DEF SubsInv, subVars, Subs!TypeOK, Subs!SubsAgree, BeforeSubs, BeforeUsers

LEMMA SchemaFrame ==
    ASSUME SchemaInv, UNCHANGED schemaVars,
           start' = "migrate" => start = "migrate",
           start' \notin {"down", "migrate"} => start \notin {"down", "migrate"}
    PROVE  SchemaInv'
BY DEF SchemaInv, schemaVars

LEMMA RolesFrame ==
    ASSUME RolesInv, UNCHANGED roleVars,
           start' = "insert" => start = "insert",
           start' \in {"admin", "up"} => start \in {"admin", "up"}
    PROVE  RolesInv'
BY DEF RolesInv, roleVars

\* The end of a process, wherever it is.
LEMMA EndsKeeps == ASSUME IInv, EndsHere PROVE IInv'
<1>1. start' = "down" /\ Forget /\ Subs!Forget
  BY DEF EndsHere
<1>2. UsersInv'
  BY <1>1, ForgetKeeps DEF IInv, UsersInv, BeforeUsers
<1>3. SubsInv'
  BY <1>1 DEF IInv, SubsInv, Subs!Forget, Subs!TypeOK, BeforeSubs, BeforeUsers
<1>4. SchemaInv'
  <2>1. applied' = applied /\ versions' = versions /\ current' = 0
    BY DEF EndsHere
  <2> QED BY <1>1, <2>1 DEF IInv, SchemaInv
<1>5. RolesInv'
  <2>1. roles' = roles /\ todoRoles' = <<>>
    BY DEF EndsHere
  <2> QED BY <1>1, <2>1 DEF IInv, RolesInv
<1> QED BY <1>1, <1>2, <1>3, <1>4, <1>5 DEF IInv, Phases

\* The version that Migrate goes by is that of a migration, or 0.
LEMMA NewestFacts ==
    ASSUME NEW vs \in SUBSET MigrationSet
    PROVE  Newest(vs) = 0 \/ Newest(vs) \in vs
<1>1. vs \subseteq {2, 3, 4, 6}
  BY DEF MigrationSet, Migrations, Range
<1>2. CASE vs = {}
  BY <1>2 DEF Newest
<1>3. CASE vs # {}
  <2>1. \E x \in vs : \A y \in vs : x >= y
    <3>1. CASE 6 \in vs
      BY <1>1, <3>1
    <3>2. CASE 6 \notin vs /\ 4 \in vs
      BY <1>1, <3>2
    <3>3. CASE 6 \notin vs /\ 4 \notin vs /\ 3 \in vs
      BY <1>1, <3>3
    <3>4. CASE 6 \notin vs /\ 4 \notin vs /\ 3 \notin vs
      <4>1. \A x \in vs : x = 2
        BY <1>1, <3>4
      <4> QED BY <1>3, <4>1
    <3> QED BY <3>1, <3>2, <3>3, <3>4
  <2>2. Max(vs) \in vs
    BY <2>1 DEF Max
  <2> QED BY <1>3, <2>2 DEF Newest
<1> QED BY <1>2, <1>3

LEMMA ReadVersionKeeps == ASSUME IInv, ReadVersion PROVE IInv'
<1>1. /\ start = "down" /\ start' = "migrate"
      /\ current' = Newest(versions) /\ pending' = Migrations
      /\ applied' = applied /\ versions' = versions
      /\ UNCHANGED userVars /\ UNCHANGED subVars /\ UNCHANGED roleVars
  BY DEF ReadVersion
<1>2. UsersInv' /\ SubsInv' /\ RolesInv'
  BY <1>1, UsersFrame, SubsFrame, RolesFrame DEF IInv, BeforeUsers, BeforeSubs
<1>3. SchemaInv'
  <2>1. MigrationSet = {2, 3, 4, 6}
    BY DEF MigrationSet, Migrations, Range
  <2>2. versions = applied /\ applied \subseteq MigrationSet
    BY DEF IInv, SchemaInv
  <2>3. current' = 0 \/ current' \in applied
    BY <1>1, <2>2, NewestFacts
  <2>4. pending' = <<2, 3, 4, 6>> /\ pending'[1] = 2
    BY <1>1 DEF Migrations
  <2>5. \A m \in MigrationSet : ~(m < pending'[1])
    BY <2>1, <2>4
  <2>6. pending' \in Suffixes
    BY <2>4 DEF Suffixes
  <2> QED BY <1>1, <2>2, <2>3, <2>5, <2>6 DEF IInv, SchemaInv
<1> QED BY <1>1, <1>2, <1>3 DEF IInv, Phases

LEMMA Tails ==
    ASSUME NEW p \in Suffixes
    PROVE  \/ p[1] = 2 /\ Head(p) = 2 /\ Tail(p) = <<3, 4, 6>>
           \/ p[1] = 3 /\ Head(p) = 3 /\ Tail(p) = <<4, 6>>
           \/ p[1] = 4 /\ Head(p) = 4 /\ Tail(p) = <<6>>
           \/ p[1] = 6 /\ Head(p) = 6 /\ Tail(p) = <<>>
<1>1. CASE p = <<2, 3, 4, 6>>
  <2>1. Tail(<<2, 3, 4, 6>>) = <<3, 4, 6>>
    OBVIOUS
  <2> QED BY <1>1, <2>1
<1>2. CASE p = <<3, 4, 6>>
  <2>1. Tail(<<3, 4, 6>>) = <<4, 6>>
    OBVIOUS
  <2> QED BY <1>2, <2>1
<1>3. CASE p = <<4, 6>>
  <2>1. Tail(<<4, 6>>) = <<6>>
    OBVIOUS
  <2> QED BY <1>3, <2>1
<1>4. CASE p = <<6>>
  <2>1. Tail(<<6>>) = << >>
    OBVIOUS
  <2> QED BY <1>4, <2>1
<1> QED BY <1>1, <1>2, <1>3, <1>4 DEF Suffixes

\* A migration is run, or the version that was read says that it is there.
LEMMA MigrateKeeps == ASSUME IInv, Migrate PROVE IInv'
<1>0. SchemaInv
  BY DEF IInv
<1>1. /\ start = "migrate" /\ pending' = Tail(pending) /\ current' = current
      /\ start' = IF pending' = <<>> THEN "users" ELSE "migrate"
      /\ UNCHANGED userVars /\ UNCHANGED subVars /\ UNCHANGED roleVars
  BY DEF Migrate
<1>2. start' \in {"migrate", "users"}
  BY <1>1
<1>3. UsersInv' /\ SubsInv' /\ RolesInv'
  BY <1>1, <1>2, UsersFrame, SubsFrame, RolesFrame DEF IInv, BeforeUsers, BeforeSubs
<1>4. /\ pending \in Suffixes
      /\ \A m \in MigrationSet : m < pending[1] => m \in applied
      /\ current = 0 \/ current \in applied
      /\ versions = applied /\ applied \subseteq MigrationSet
      /\ \A m, n \in MigrationSet : m < n /\ n \in applied => m \in applied
  BY <1>0, <1>1 DEF SchemaInv
<1>5. \/ pending[1] = 2 /\ Head(pending) = 2 /\ pending' = <<3, 4, 6>>
      \/ pending[1] = 3 /\ Head(pending) = 3 /\ pending' = <<4, 6>>
      \/ pending[1] = 4 /\ Head(pending) = 4 /\ pending' = <<6>>
      \/ pending[1] = 6 /\ Head(pending) = 6 /\ pending' = << >>
  BY <1>1, <1>4, Tails
<1>6. PICK v : v = Head(pending)
  OBVIOUS
<1>7. v = pending[1] /\ v \in {2, 3, 4, 6}
  BY <1>5, <1>6
<1>8. MigrationSet = {2, 3, 4, 6}
  BY DEF MigrationSet, Migrations, Range
<1>9. applied' = applied \cup {v} /\ versions' = applied \cup {v}
  <2>1. CASE Due(v)
    BY <1>4, <1>6, <2>1 DEF Migrate, MigrateTo
  <2>2. CASE ~Due(v)
    <3>1. applied' = applied /\ versions' = applied
      BY <1>4, <1>6, <2>2 DEF Migrate
    <3>2. current \in {0, 2, 3, 4, 6}
      BY <1>4, <1>8
    <3>3. v <= current
      BY <1>7, <2>2, <3>2 DEF Due
    <3>4. v \in applied
      BY <1>4, <1>7, <1>8, <3>2, <3>3
    <3> QED BY <3>1, <3>4
  <2> QED BY <2>1, <2>2
<1>10. \A m, n \in MigrationSet : m < n /\ n \in applied' => m \in applied'
  BY <1>4, <1>7, <1>9
<1>11. /\ applied' \subseteq MigrationSet /\ versions' = applied'
       /\ current' = 0 \/ current' \in applied'
  BY <1>1, <1>4, <1>7, <1>8, <1>9
<1>12. /\ start' = "migrate" => /\ pending' \in Suffixes
                                /\ \A m \in MigrationSet : m < pending'[1] => m \in applied'
       /\ start' = "users" => applied' = MigrationSet
  <2>1. CASE v = 2
    <3>1. pending' = <<3, 4, 6>>
      BY <1>5, <1>7, <2>1
    <3>2. pending' # << >> /\ pending'[1] = 3 /\ pending' \in Suffixes
      BY <3>1 DEF Suffixes
    <3>3. \A m \in MigrationSet : m < 3 => m = v
      BY <1>8, <2>1
    <3> QED BY <1>1, <1>9, <3>2, <3>3
  <2>2. CASE v = 3
    <3>1. pending' = <<4, 6>>
      BY <1>5, <1>7, <2>2
    <3>2. pending' # << >> /\ pending'[1] = 4 /\ pending' \in Suffixes
      BY <3>1 DEF Suffixes
    <3>3. \A m \in MigrationSet : m < 4 => m = v \/ m < pending[1]
      BY <1>7, <1>8, <2>2
    <3> QED BY <1>1, <1>4, <1>9, <3>2, <3>3
  <2>3. CASE v = 4
    <3>1. pending' = <<6>>
      BY <1>5, <1>7, <2>3
    <3>2. pending' # << >> /\ pending'[1] = 6 /\ pending' \in Suffixes
      BY <3>1 DEF Suffixes
    <3>3. \A m \in MigrationSet : m < 6 => m = v \/ m < pending[1]
      BY <1>7, <1>8, <2>3
    <3> QED BY <1>1, <1>4, <1>9, <3>2, <3>3
  <2>4. CASE v = 6
    <3>1. pending' = << >>
      BY <1>5, <1>7, <2>4
    <3>2. \A m \in MigrationSet : m = v \/ m < pending[1]
      BY <1>7, <1>8, <2>4
    <3> QED BY <1>1, <1>4, <1>9, <1>11, <3>1, <3>2
  <2> QED BY <1>7, <2>1, <2>2, <2>3, <2>4
<1>13. SchemaInv'
  BY <1>0, <1>1, <1>2, <1>10, <1>11, <1>12 DEF SchemaInv
<1> QED BY <1>2, <1>3, <1>13 DEF IInv, Phases

\* The user store is opened, and written back.
LEMMA OpenUsersKeeps == ASSUME IInv, OpenUsers PROVE IInv'
<1>1. /\ start = "users" /\ Open /\ start' = "sync"
      /\ UNCHANGED subVars /\ UNCHANGED schemaVars /\ UNCHANGED roleVars
  BY DEF OpenUsers
<1>2. SubsInv' /\ SchemaInv' /\ RolesInv'
  BY <1>1, SubsFrame, SchemaFrame, RolesFrame DEF IInv, BeforeUsers, BeforeSubs
<1>3. StoreInv /\ UpdOK
  BY DEF IInv, UsersInv
<1>4. StoreInv' /\ MemoryIsTable' /\ SyncOK'
  BY <1>1, <1>3, OpenFromSQLKeeps, OpenFromFileKeeps DEF Open
<1>5. upd' = upd
  BY <1>1 DEF Open, OpenFromSQL, OpenFromFile
<1>6. UsersInv'
  BY <1>3, <1>4, <1>5 DEF UsersInv, UpdOK
<1> QED BY <1>1, <1>2, <1>6 DEF IInv, Phases

LEMMA SyncUsersKeeps == ASSUME IInv, SyncUsers PROVE IInv'
<1>1. /\ start = "sync"
      /\ UNCHANGED subVars /\ UNCHANGED schemaVars /\ UNCHANGED roleVars
  BY DEF SyncUsers
<1>2. CASE \E ok \in BOOLEAN : SyncOne(ok) /\ UNCHANGED start
  <2>1. PICK ok \in BOOLEAN : SyncOne(ok) /\ start' = start
    BY <1>2
  <2>2. StoreInv /\ UpdOK /\ SyncOK /\ MemoryIsTable
    BY <1>1 DEF IInv, UsersInv, BeforeUsers
  <2>3. StoreInv' /\ MemoryIsTable' /\ SyncOK'
    BY <2>1, <2>2, SyncOneKeeps
  <2>4. upd' = upd
    BY <2>1 DEF SyncOne
  <2>5. UsersInv'
    BY <2>2, <2>3, <2>4 DEF UsersInv, UpdOK
  <2>6. SubsInv' /\ SchemaInv' /\ RolesInv'
    BY <1>1, <2>1, SubsFrame, SchemaFrame, RolesFrame DEF IInv
  <2> QED BY <1>1, <2>1, <2>5, <2>6 DEF IInv
<1>3. CASE start' = "subs" /\ UNCHANGED userVars
  <2>1. UsersInv' /\ SubsInv' /\ SchemaInv' /\ RolesInv'
    BY <1>1, <1>3, UsersFrame, SubsFrame, SchemaFrame, RolesFrame DEF IInv, BeforeUsers, BeforeSubs
  <2> QED BY <1>3, <2>1 DEF IInv, Phases
<1> QED BY <1>2, <1>3 DEF SyncUsers

\* The subscriptions are opened, and seeded.
LEMMA OpenSubscriptionsKeeps == ASSUME IInv, OpenSubscriptions PROVE IInv'
<1>1. /\ start = "subs" /\ Subs!OpenSubs /\ start' = "seed"
      /\ UNCHANGED userVars /\ UNCHANGED schemaVars /\ UNCHANGED roleVars
  BY DEF OpenSubscriptions
<1>2. UsersInv' /\ SchemaInv' /\ RolesInv'
  BY <1>1, UsersFrame, SchemaFrame, RolesFrame DEF IInv, BeforeUsers
<1>3. SubsInv'
  <2>1. Subs!TypeOK
    BY DEF IInv, SubsInv
  <2>2. SubFile \subseteq Pairs
    BY StoresAssumption
  <2>3. CASE subTable # {}
    BY <1>1, <2>1, <2>3 DEF Subs!OpenSubs, SubsInv, Subs!TypeOK, Subs!SubsAgree
  <2>4. CASE subTable = {}
    BY <1>1, <2>1, <2>2, <2>4 DEF Subs!OpenSubs, SubsInv, Subs!TypeOK, Subs!SubsAgree
  <2> QED BY <2>3, <2>4
<1> QED BY <1>1, <1>2, <1>3 DEF IInv, Phases

LEMMA SeedSubscriptionsKeeps == ASSUME IInv, SeedSubscriptions PROVE IInv'
<1>1. /\ start = "seed"
      /\ UNCHANGED userVars /\ UNCHANGED schemaVars /\ UNCHANGED roleVars
  BY DEF SeedSubscriptions
<1>2. CASE \E p \in seed, ok \in BOOLEAN : Subs!SeedOne(p, ok) /\ UNCHANGED start
  <2>1. PICK p \in seed, ok \in BOOLEAN : Subs!SeedOne(p, ok) /\ start' = start
    BY <1>2
  <2>2. Subs!TypeOK /\ seed \subseteq subs /\ Subs!SubsAgree
    BY <1>1 DEF IInv, SubsInv, BeforeSubs, BeforeUsers
  <2>3. /\ seed' = seed \ {p} /\ subs' = subs
        /\ subTable' = IF ok THEN subTable \cup {p} ELSE subTable
        /\ subUnsaved' = IF ok THEN subUnsaved \ {p} ELSE subUnsaved \cup {p}
    BY <2>1 DEF Subs!SeedOne, Subs!Failed
  <2>4. Subs!TypeOK' /\ seed' \subseteq subs'
    BY <2>2, <2>3 DEF Subs!TypeOK
  <2>5. Subs!SubsAgree'
    BY <2>2, <2>3 DEF Subs!SubsAgree
  <2>6. SubsInv'
    BY <2>4, <2>5 DEF SubsInv
  <2>7. UsersInv' /\ SchemaInv' /\ RolesInv'
    BY <1>1, <2>1, UsersFrame, SchemaFrame, RolesFrame DEF IInv
  <2> QED BY <1>1, <2>1, <2>6, <2>7 DEF IInv
<1>3. CASE start' = "roles" /\ UNCHANGED subVars
  <2>1. UsersInv' /\ SubsInv' /\ SchemaInv' /\ RolesInv'
    BY <1>1, <1>3, UsersFrame, SubsFrame, SchemaFrame, RolesFrame DEF IInv, BeforeUsers, BeforeSubs
  <2> QED BY <1>3, <2>1 DEF IInv, Phases
<1> QED BY <1>2, <1>3 DEF SeedSubscriptions

\* The roles: none of the file, or all that are left of it.
LEMMA CountRolesKeeps == ASSUME IInv, CountRoles PROVE IInv'
<1>1. /\ start = "roles" /\ start' = "insert" /\ roles' = roles
      /\ todoRoles' = IF roles # {} THEN <<>> ELSE RolesFile
      /\ UNCHANGED userVars /\ UNCHANGED subVars /\ UNCHANGED schemaVars
  BY DEF CountRoles
<1>2. UsersInv' /\ SubsInv' /\ SchemaInv'
  BY <1>1, UsersFrame, SubsFrame, SchemaFrame DEF IInv, BeforeUsers, BeforeSubs
<1>3. RolesInv'
  <2>1. RolesFile \in Seq(Range(RolesFile))
    BY StoresAssumption
  <2> HIDE DEF Range
  <2> QED BY <1>1, <2>1 DEF IInv, RolesInv
<1> QED BY <1>1, <1>2, <1>3 DEF IInv, Phases

LEMMA InsertRoleKeeps == ASSUME IInv, InsertRole PROVE IInv'
<1>0. RolesInv /\ start = "insert"
  BY DEF IInv, InsertRole
<1>1. RolesFile # <<>> /\ RolesFile \in Seq(Range(RolesFile)) /\ RolesFile[1] = "admin"
  BY StoresAssumption
<1>2. CASE todoRoles = <<>>
  <2>1. /\ start' = "admin" /\ UNCHANGED userVars /\ UNCHANGED subVars
        /\ UNCHANGED schemaVars /\ UNCHANGED roleVars
    BY <1>2 DEF InsertRole
  <2>2. UsersInv' /\ SubsInv' /\ SchemaInv'
    BY <1>0, <2>1, UsersFrame, SubsFrame, SchemaFrame DEF IInv, BeforeUsers, BeforeSubs
  <2>3. roles # {}
    BY <1>0, <1>1, <1>2 DEF RolesInv
  <2>4. RolesInv'
    BY <1>0, <2>1, <2>3 DEF RolesInv, roleVars
  <2> QED BY <2>1, <2>2, <2>4 DEF IInv, Phases
<1>3. CASE todoRoles # <<>> /\ Head(todoRoles) \notin roles
  <2>1. /\ start' = start /\ roles' = roles \cup {Head(todoRoles)} /\ todoRoles' = Tail(todoRoles)
        /\ UNCHANGED userVars /\ UNCHANGED subVars /\ UNCHANGED schemaVars
    BY <1>3 DEF InsertRole
  <2>2. UsersInv' /\ SubsInv' /\ SchemaInv'
    BY <2>1, UsersFrame, SubsFrame, SchemaFrame DEF IInv
  <2>3. /\ todoRoles \in Seq(Range(RolesFile)) /\ roles \subseteq Range(RolesFile)
        /\ roles # {} => "admin" \in roles
        /\ roles = {} => todoRoles = RolesFile
    BY <1>0 DEF RolesInv
  <2>4. /\ Head(todoRoles) = todoRoles[1] /\ Head(todoRoles) \in Range(RolesFile)
        /\ Tail(todoRoles) \in Seq(Range(RolesFile))
    BY <1>3, <2>3
  <2>5. "admin" \in roles'
    BY <1>1, <2>1, <2>3, <2>4
  <2>6. RolesInv'
    BY <1>0, <2>1, <2>3, <2>4, <2>5 DEF RolesInv
  <2> QED BY <2>1, <2>2, <2>6 DEF IInv
<1>4. CASE todoRoles # <<>> /\ Head(todoRoles) \in roles
  <2>1. EndsHere
    BY <1>4 DEF InsertRole
  <2> QED BY <2>1, EndsKeeps
<1> QED BY <1>2, <1>3, <1>4

LEMMA AdminIsUser == AdminUser \in User
BY UserStoreAssumption DEF AdminUser, User, Roles

\* Bootstrap, when it is reached with users or with the admin role.
LEMMA BootstrapKeeps ==
    ASSUME IInv, BootstrapAdmin, ~(all = <<>> /\ "admin" \notin roles)
    PROVE  IInv' /\ start' = "up" /\ applied = MigrationSet /\ all' # <<>> /\ "admin" \in roles
<1>1. /\ start = "admin" /\ Bootstrap(TRUE) /\ start' = "up"
      /\ UNCHANGED subVars /\ UNCHANGED schemaVars /\ UNCHANGED roleVars
  BY DEF BootstrapAdmin
<1>2. SubsInv' /\ SchemaInv' /\ RolesInv'
  BY <1>1, SubsFrame, SchemaFrame, RolesFrame DEF IInv, BeforeUsers, BeforeSubs
<1>3. applied = MigrationSet /\ "admin" \in roles
  BY <1>1 DEF IInv, SchemaInv, RolesInv
<1>4. CASE all # <<>>
  <2>1. UNCHANGED userVars
    BY <1>1, <1>4 DEF Bootstrap
  <2>2. UsersInv'
    BY <1>1, <2>1, UsersFrame DEF IInv, BeforeUsers
  <2>3. all' # <<>>
    BY <1>4, <2>1 DEF userVars, storeVars
  <2> QED BY <1>1, <1>2, <1>3, <2>2, <2>3 DEF IInv, Phases
<1>5. CASE all = <<>>
  <2>1. Create(AdminUser, TRUE) /\ upd' = upd
    BY <1>1, <1>5 DEF Bootstrap
  <2>2. StoreInv /\ UpdOK /\ MemoryIsTable
    BY <1>1 DEF IInv, UsersInv, BeforeUsers
  <2>3. StoreInv' /\ MemoryIsTable'
    BY <2>1, <2>2, AdminIsUser, CreateKeeps
  <2>4. UsersInv'
    BY <1>1, <2>1, <2>2, <2>3 DEF UsersInv, UpdOK
  <2>5. all' # <<>>
    <3>1. all' = Append(all, AdminUser) /\ all \in Seq(User)
      BY <2>1, <2>2 DEF Create, StoreInv, UsersTypeOK
    <3> QED BY <3>1, AdminIsUser
  <2> QED BY <1>1, <1>2, <1>3, <2>4, <2>5 DEF IInv, Phases
<1> QED BY <1>4, <1>5

\* The stores at work.
LEMMA ServeKeeps == ASSUME IInv, Serve PROVE IInv'
<1>1. start = "up" /\ start' = "up" /\ UNCHANGED schemaVars /\ UNCHANGED roleVars
  BY DEF Serve
<1>2. SchemaInv' /\ RolesInv'
  BY <1>1, SchemaFrame, RolesFrame DEF IInv
<1>3. CASE UserRequest /\ UNCHANGED subVars
  <2>1. StoreInv /\ UpdOK /\ MemoryIsTable
    BY <1>1 DEF IInv, UsersInv, BeforeUsers
  <2>2. StoreInv' /\ UpdOK' /\ MemoryIsTable'
    BY <1>3, <2>1, RequestKeeps
  <2>3. UsersInv'
    BY <1>1, <2>2 DEF UsersInv
  <2>4. SubsInv'
    BY <1>1, <1>3, SubsFrame DEF IInv
  <2> QED BY <1>1, <1>2, <2>3, <2>4 DEF IInv, Phases
<1>4. CASE Subs!Request /\ UNCHANGED userVars
  <2>1. UsersInv'
    BY <1>1, <1>4, UsersFrame DEF IInv
  <2>2. PICK p \in Pairs, ok \in BOOLEAN : Subs!Subscribe(p, ok) \/ Subs!Unsubscribe(p, ok)
    BY <1>4 DEF Subs!Request
  <2>3. Subs!TypeOK /\ Subs!SubsAgree
    BY <1>1 DEF IInv, SubsInv, BeforeSubs, BeforeUsers
  <2>4. SubsInv'
    <3>1. CASE Subs!Subscribe(p, ok)
      BY <1>1, <2>3, <3>1 DEF Subs!Subscribe, Subs!Failed, SubsInv, Subs!TypeOK, Subs!SubsAgree
    <3>2. CASE Subs!Unsubscribe(p, ok)
      BY <1>1, <2>3, <3>2 DEF Subs!Unsubscribe, Subs!Failed, SubsInv, Subs!TypeOK, Subs!SubsAgree
    <3> QED BY <2>2, <3>1, <3>2
  <2> QED BY <1>1, <1>2, <2>1, <2>4 DEF IInv, Phases
<1> QED BY <1>3, <1>4 DEF Serve

\* What a step to "up" must show: UpIsUsable, of one step.
Usable ==
    start' = "up" /\ start # "up" =>
        applied = MigrationSet /\ all' # <<>> /\ "admin" \in roles

LEMMA StepHolds == ASSUME IInv, [Next]_vars PROVE IInv' /\ [Usable]_vars
<1>1. ASSUME UNCHANGED vars PROVE IInv' /\ start' = start
  <2>1. /\ UNCHANGED userVars /\ UNCHANGED subVars /\ UNCHANGED schemaVars
        /\ UNCHANGED roleVars /\ start' = start
    BY <1>1 DEF vars
  <2>2. UsersInv' /\ SubsInv' /\ SchemaInv' /\ RolesInv'
    BY <2>1, UsersFrame, SubsFrame, SchemaFrame, RolesFrame DEF IInv
  <2> QED BY <2>1, <2>2 DEF IInv
<1>2. ASSUME EndsHere PROVE IInv' /\ start' # "up"
  BY <1>2, EndsKeeps DEF EndsHere
<1>3. CASE ReadVersion
  BY <1>3, ReadVersionKeeps DEF ReadVersion, Usable
<1>4. CASE Migrate
  <2>1. start' # "up"
    BY <1>4 DEF Migrate
  <2> QED BY <1>4, <2>1, MigrateKeeps DEF Usable
<1>5. CASE OpenUsers
  BY <1>5, OpenUsersKeeps DEF OpenUsers, Usable
<1>6. CASE SyncUsers
  <2>1. start' # "up"
    BY <1>6 DEF SyncUsers
  <2> QED BY <1>6, <2>1, SyncUsersKeeps DEF Usable
<1>7. CASE OpenSubscriptions
  BY <1>7, OpenSubscriptionsKeeps DEF OpenSubscriptions, Usable
<1>8. CASE SeedSubscriptions
  <2>1. start' # "up"
    BY <1>8 DEF SeedSubscriptions
  <2> QED BY <1>8, <2>1, SeedSubscriptionsKeeps DEF Usable
<1>9. CASE CountRoles
  BY <1>9, CountRolesKeeps DEF CountRoles, Usable
<1>10. CASE InsertRole
  <2>1. start' # "up"
    BY <1>2, <1>10 DEF InsertRole
  <2> QED BY <1>10, <2>1, InsertRoleKeeps DEF Usable
<1>11. CASE BootstrapAdmin
  <2>1. CASE all = <<>> /\ "admin" \notin roles
    <3>1. EndsHere
      BY <1>11, <2>1 DEF BootstrapAdmin
    <3> QED BY <1>2, <3>1 DEF Usable
  <2>2. CASE ~(all = <<>> /\ "admin" \notin roles)
    BY <1>11, <2>2, BootstrapKeeps DEF Usable
  <2> QED BY <2>1, <2>2
<1>12. CASE Serve
  BY <1>12, ServeKeeps DEF Serve, Usable
<1>13. CASE Killed
  <2>1. EndsHere
    BY <1>13 DEF Killed
  <2> QED BY <1>2, <2>1 DEF Usable
<1>14. CASE UNCHANGED vars
  BY <1>1, <1>14
<1> QED BY <1>3, <1>4, <1>5, <1>6, <1>7, <1>8, <1>9, <1>10, <1>11, <1>12, <1>13, <1>14
        DEF Next, StartStep

-----------------------------------------------------------------------------
\* List, index and table of the users, the subscriptions, the schema and the
\* roles fit together at every point of a start and after it, wherever the
\* earlier starts were cut off.
THEOREM Invariance == Spec => []IInv
<1>1. IInv /\ [Next]_vars => IInv'
  BY StepHolds
<1> QED BY <1>1, InitIInv, PTL DEF Spec

\* Memory and tables keep their types.
THEOREM TypeCorrect == Spec => []TypeOK
<1>1. IInv => TypeOK
  BY DEF IInv, UsersInv, StoreInv, SubsInv, SchemaInv, RolesInv, TypeOK
<1> QED BY <1>1, Invariance, PTL

\* Store.all and Store.byID hold the same users, whatever creates, changes and
\* deletes came together and whichever statements failed, except for users whose
\* DELETE failed; a user is listed once unless the file it was loaded from has
\* it on several lines.
THEOREM ListAndIndexAgree == Spec => []ListIsIndex
<1>1. IInv => ListIsIndex
  <2> SUFFICES ASSUME IInv, NEW id \in UserIds \ half
               PROVE  LET at == {i \in DOMAIN all : all[i].id = id} IN
                      IF byID[id] = NoUser THEN at = {}
                      ELSE \E i \in at : all[i] = byID[id] /\ (at = {i} \/ id \in twice)
    BY DEF ListIsIndex
  <2> DEFINE at == {i \in DOMAIN all : all[i].id = id}
  <2>1. UsersTypeOK /\ Keyed /\ Once(id)
    BY DEF IInv, UsersInv, StoreInv
  <2>2. DOMAIN all = 1..Len(all)
    BY <2>1, TypeFacts
  <2>3. CASE byID[id] = NoUser
    BY <2>1, <2>2, <2>3 DEF Once
  <2>4. CASE byID[id] # NoUser
    <3>1. PICK i \in 1..Len(all) :
              /\ all[i] = byID[id]
              /\ id \in twice \/ \A j \in 1..Len(all) : all[j].id = id => j = i
      BY <2>1, <2>4 DEF Once
    <3>2. all[i].id = id
      BY <2>1, <2>4, <3>1 DEF Keyed
    <3>3. i \in at /\ (at = {i} \/ id \in twice)
      BY <2>2, <3>1, <3>2
    <3> QED BY <2>4, <3>1, <3>3
  <2> QED BY <2>3, <2>4
<1> QED BY <1>1, Invariance, PTL

\* From the moment a store is loaded, what it has in memory is what the next
\* start would load, except for what was answered with an error and for rows
\* that the file has put aside.
THEOREM StoresAgree == Spec => []CopiesAgree
<1>1. IInv => CopiesAgree
  BY DEF IInv, UsersInv, SubsInv, CopiesAgree, BeforeSubs, BeforeUsers
<1> QED BY <1>1, Invariance, PTL

\* A start that comes up has the whole schema, at least one user and the admin
\* role, however many starts before it were cut off, and at whichever
\* statement.
THEOREM ServerIsUsable == Spec => UpIsUsable
<1>1. IInv /\ [Next]_vars => [Usable]_vars
  BY StepHolds
<1> QED BY <1>1, Invariance, PTL DEF Spec, UpIsUsable, Usable
=============================================================================
