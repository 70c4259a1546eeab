-------------------------- MODULE WebSessionProofs --------------------------
(***************************************************************************)
(* Proofs about WebSession, for any tabs, users, organizations and number  *)
(* of requests in flight: types, what a registration leaves, what is on    *)
(* the screen and in localStorage, what a deletion deletes, and that the   *)
(* list of a tab is the server's.                                          *)
(***************************************************************************)
EXTENDS WebSession, FiniteSetTheorems, TLAPS

Joins == {"create", "accept", "respond"}
Known == exists \cup gone
OrgsOf(list) == {list[i].org : i \in 1..Len(list)}

\* What a request carries, by its kind and how far it has come.
Shape(s) ==
    /\ reqs[s].kind \in {"login", "register"} => reqs[s].arg \in Users
    /\ reqs[s].kind = "delete" => reqs[s].arg \in Orgs
    /\ reqs[s].kind \in {"accept", "respond"} => reqs[s].arg \in Invitation
    /\ reqs[s].kind = "orgs" => reqs[s].live
    /\ reqs[s].kind \in Joins /\ reqs[s].state = "ok" => reqs[s].data # <<>>
    /\ reqs[s].state = "running" => reqs[s].kind = "register" /\ stage[reqs[s].arg] \in 1..3
    /\ reqs[s].kind = "login" /\ reqs[s].state = "ok" => stage[reqs[s].arg] >= 2
    /\ reqs[s].kind = "register" /\ reqs[s].state = "ok"
          => Workspace[reqs[s].arg] \in OrgsOf(joined[reqs[s].arg])
    /\ OrgsOf(reqs[s].data) \subseteq Known

Running(s) == reqs[s] # None /\ reqs[s].state = "running"

\* A user is registered by one request at a time, and has an account once
\* signed in.
AccountInv ==
    /\ \A s \in Slots : reqs[s] # None => Shape(s)
    /\ \A s, r \in Slots : Running(s) /\ Running(r) /\ reqs[s].arg = reqs[r].arg => s = r
    /\ token # None => stage[token] >= 2
    /\ \A t \in Tabs : user[t] # None => stage[user[t]] >= 2

\* Nobody has anything to do with an organization yet.
Barren(o) ==
    /\ \A u \in Users : o \notin OrgsOf(joined[u])
    /\ \A i \in invites : i.org # o

\* The third insert of a registration is made, the fourth is not.
Founding(s) == Running(s) /\ stage[reqs[s].arg] = 3

FoundingInv ==
    \A s \in Slots : Founding(s) =>
        /\ Workspace[reqs[s].arg] \in exists
        /\ Barren(Workspace[reqs[s].arg])
        /\ \A r \in Slots :
              Founding(r) /\ Workspace[reqs[r].arg] = Workspace[reqs[s].arg] => r = s

\* A name stands for one organization, and a user joins it once.
ServerInv ==
    /\ exists \cap gone = {}
    /\ \A u \in Users : OrgsOf(joined[u]) \subseteq Known /\ NoneTwice(joined[u])
    /\ \A i \in invites : i.org \in exists
    /\ FoundingInv

ViewInv ==
    /\ HeaderMatchesView
    /\ CurrentIsListed
    /\ \A t \in Tabs : OrgsOf(orgs[t]) \subseteq Known

Live(t, kinds) == {s \in Of(t, kinds) : reqs[s].live}
Done(t, kinds) == {s \in Live(t, kinds) : reqs[s].state = "ok"}

\* A tab that has done nothing that could leave its list out of date.
Synced(t) == user[t] # None /\ ~skew[t]

\* The list is loaded once, before anything is done with it.
LoadInv(t) ==
    \A s \in Of(t, {"orgs"}) :
        /\ reqs[s].user = user[t]
        /\ Of(t, {"orgs"}) = {s}
        /\ Live(t, Changes) = {}
        /\ orgs[t] = <<>> /\ current[t] = None
        /\ reqs[s].state = "ok" => reqs[s].data = FindAllByUserID(user[t])

\* What the answers on their way to the tab add to its list and take from it.
Coming(t) == {reqs[s].data[1] : s \in Done(t, Joins)}
Going(t) == {reqs[s].arg : s \in Done(t, {"delete"})}

\* With those answers applied, the list is the server's; none of them names
\* an organization that is added twice, or added and taken away.
ListInv(t) ==
    /\ Elems(FindAllByUserID(user[t])) = {m \in Elems(orgs[t]) \cup Coming(t) : m.org \notin Going(t)}
    /\ NoneTwice(orgs[t])
    /\ \A s \in Done(t, Joins) :
          /\ reqs[s].data[1].org \notin OrgsOf(orgs[t])
          /\ \A r \in Done(t, Joins) : reqs[r].data[1].org = reqs[s].data[1].org => r = s
          /\ \A r \in Live(t, {"delete"}) : reqs[r].arg # reqs[s].data[1].org
    /\ Going(t) \subseteq gone
    /\ \A s \in Live(t, {"delete"}) : reqs[s].arg \in OrgsOf(orgs[t]) \cup gone

SyncInv(t) ==
    Synced(t) =>
        /\ LoadInv(t)
        /\ \A s \in Live(t, Changes) : reqs[s].user = user[t]
        /\ Live(t, {"accept"}) = {}
        /\ orgs[t] = <<>> => current[t] = None
        /\ (Of(t, {"orgs"}) = {} /\ \A s \in Live(t, Changes) : reqs[s].state # "failed") => ListInv(t)

SessionInv ==
    /\ SessionTypeOK
    /\ AccountInv
    /\ ServerInv
    /\ ViewInv
    /\ \A t \in Tabs : SyncInv(t)

-----------------------------------------------------------------------------
(* The operators.                                                          *)

\* Only(list, some) keeps the entries of some organizations, each of them once.
LEMMA OnlyKeeps ==
    ASSUME NEW list \in Seq(Membership), NEW some
    PROVE  /\ Only(list, some) \in Seq(Membership)
           /\ Elems(Only(list, some)) = {m \in Elems(list) : m.org \in some}
           /\ NoneTwice(list) => NoneTwice(Only(list, some))
<1> DEFINE kept == {i \in 1..Len(list) : list[i].org \in some}
           upTo(i) == {j \in kept : j <= i}
           n == Cardinality(kept)
           rank == [i \in kept |-> Cardinality(upTo(i))]
           at(k) == CHOOSE i \in kept : Cardinality(upTo(i)) = k
<1>1. Len(list) \in Nat /\ kept \in SUBSET (1..Len(list)) /\ kept \subseteq Nat
  OBVIOUS
<1>2. IsFiniteSet(kept) /\ n \in Nat
  <2>1. IsFiniteSet(1..Len(list))
    BY <1>1, FS_Interval
  <2> QED
    BY <2>1, <1>1, FS_Subset, FS_CardinalityType
<1>3. \A i \in kept : IsFiniteSet(upTo(i)) /\ Cardinality(upTo(i)) \in 1..n
  <2> SUFFICES ASSUME NEW i \in kept
               PROVE  IsFiniteSet(upTo(i)) /\ Cardinality(upTo(i)) \in 1..n
    OBVIOUS
  <2>1. upTo(i) \in SUBSET kept
    OBVIOUS
  <2> HIDE DEF kept, n
  <2>2. IsFiniteSet(upTo(i)) /\ Cardinality(upTo(i)) <= n
    BY <2>1, <1>2, FS_Subset DEF n
  <2>3. Cardinality(upTo(i)) \in Nat
    BY <2>2, FS_CardinalityType
  <2>4. i \in upTo(i)
    BY <1>1
  <2>5. Cardinality(upTo(i)) # 0
    BY <2>2, <2>4, FS_EmptySet
  <2> HIDE DEF upTo
  <2> QED
    BY <2>2, <2>3, <2>5, <1>2
<1>4. \A i, j \in kept : i < j => Cardinality(upTo(i)) # Cardinality(upTo(j))
  <2> SUFFICES ASSUME NEW i \in kept, NEW j \in kept, i < j,
                      Cardinality(upTo(j)) = Cardinality(upTo(i))
               PROVE  FALSE
    OBVIOUS
  <2> HIDE DEF kept
  <2>1. upTo(i) \in SUBSET upTo(j)
    <3>1. \A x \in kept : x <= i => x <= j
      BY <1>1
    <3> QED
      BY <3>1
  <2>2. j \in upTo(j) /\ j \notin upTo(i)
    BY <1>1
  <2> HIDE DEF upTo
  <2>3. upTo(j) = upTo(i)
    BY <2>1, <1>3, FS_Subset
  <2> QED
    BY <2>2, <2>3
<1>5. \A i, j \in kept : Cardinality(upTo(i)) = Cardinality(upTo(j)) => i = j
  <2> HIDE DEF kept, upTo
  <2> QED
    BY <1>1, <1>4
<1>6. \A k \in 1..n : \E i \in kept : Cardinality(upTo(i)) = k
  <2> HIDE DEF kept, upTo, n
  <2>1. rank \in Injection(kept, 1..n)
    BY <1>3, <1>5 DEF Injection, IsInjective
  <2>2. IsFiniteSet(1..n) /\ Cardinality(1..n) = n
    BY <1>2, FS_Interval
  <2>3. rank \in Surjection(kept, 1..n)
    BY <2>1, <2>2, FS_Injection DEF n
  <2> QED
    BY <2>3 DEF Surjection
<1>7. /\ \A k \in 1..n : at(k) \in kept /\ Cardinality(upTo(at(k))) = k
      /\ \A i \in kept : \E k \in 1..n : at(k) = i
  <2> HIDE DEF kept, upTo, n
  <2> QED
    BY <1>3, <1>5, <1>6
<1>8. Only(list, some) = [k \in 1..n |-> list[at(k)]]
  BY DEF Only
<1> HIDE DEF n, at, upTo
<1>9. \A k \in 1..n : list[at(k)] \in Membership
  BY <1>7
<1>10. Only(list, some) \in Seq(Membership) /\ Len(Only(list, some)) = n
  BY <1>2, <1>8, <1>9
<1>11. Elems(Only(list, some)) = {m \in Elems(list) : m.org \in some}
  <2>1. Elems(Only(list, some)) = {list[at(k)] : k \in 1..n}
    BY <1>8, <1>10 DEF Elems
  <2>2. \A k \in 1..n : at(k) \in 1..Len(list) /\ list[at(k)].org \in some
    BY <1>7
  <2>3. \A i \in 1..Len(list) : list[i].org \in some => \E k \in 1..n : at(k) = i
    BY <1>7
  <2> QED
    BY <2>1, <2>2, <2>3 DEF Elems
<1>12. ASSUME NoneTwice(list) PROVE NoneTwice(Only(list, some))
  <2> SUFFICES ASSUME NEW k \in 1..n, NEW l \in 1..n, list[at(k)].org = list[at(l)].org
               PROVE  k = l
    BY <1>8, <1>10 DEF NoneTwice
  <2>1. at(k) = at(l)
    BY <1>7, <1>12 DEF NoneTwice
  <2> QED
    BY <2>1, <1>7
<1> QED
  BY <1>10, <1>11, <1>12

\* Appending an entry adds it, and keeps a list without repetitions so if its
\* organization is new.
LEMMA AppendAdds ==
    ASSUME NEW list \in Seq(Membership), NEW m \in Membership
    PROVE  /\ Append(list, m) \in Seq(Membership) /\ Append(list, m) # <<>>
           /\ Elems(Append(list, m)) = Elems(list) \cup {m}
           /\ OrgsOf(Append(list, m)) = OrgsOf(list) \cup {m.org}
           /\ (NoneTwice(list) /\ m.org \notin OrgsOf(list)) => NoneTwice(Append(list, m))
<1> DEFINE new == Append(list, m)
<1>1. /\ Len(list) \in Nat /\ new \in Seq(Membership) /\ Len(new) = Len(list) + 1
      /\ \A i \in 1..Len(list) : new[i] = list[i]
      /\ new[Len(list) + 1] = m
  OBVIOUS
<1>2. 1..Len(new) = (1..Len(list)) \cup {Len(list) + 1}
  BY <1>1
<1>3. new # <<>>
  BY <1>1
<1> HIDE DEF new
<1>4. Elems(new) = Elems(list) \cup {m}
  BY <1>1, <1>2 DEF Elems
<1>5. OrgsOf(new) = OrgsOf(list) \cup {m.org}
  BY <1>1, <1>2 DEF OrgsOf
<1>6. (NoneTwice(list) /\ m.org \notin OrgsOf(list)) => NoneTwice(new)
  BY <1>1, <1>2 DEF NoneTwice, OrgsOf
<1> QED
  BY <1>1, <1>3, <1>4, <1>5, <1>6 DEF new

\* The organizations of a list are those of its entries.
LEMMA OrgsOfElems ==
    ASSUME NEW list \in Seq(Membership)
    PROVE  /\ OrgsOf(list) = {m.org : m \in Elems(list)}
           /\ Elems(list) \subseteq Membership
           /\ OrgsOf(list) \subseteq Orgs
           /\ list # <<>> => list[1] \in Elems(list)
           /\ Elems(list) = {} <=> list = <<>>
<1>1. Len(list) \in Nat /\ \A i \in 1..Len(list) : list[i] \in Membership
  OBVIOUS
<1>2. \A m \in Membership : m.org \in Orgs
  BY DEF Membership
<1>3. list # <<>> => 1 \in 1..Len(list)
  OBVIOUS
<1>4. list = <<>> => 1..Len(list) = {}
  OBVIOUS
<1>5. OrgsOf(list) = {m.org : m \in Elems(list)}
  BY DEF OrgsOf, Elems
<1>6. Elems(list) \subseteq Membership
  BY <1>1 DEF Elems
<1>7. list # <<>> => list[1] \in Elems(list)
  BY <1>3 DEF Elems
<1>8. list = <<>> => Elems(list) = {}
  BY <1>4 DEF Elems
<1>9. OrgsOf(list) \subseteq Orgs
  BY <1>2, <1>5, <1>6
<1> QED
  BY <1>5, <1>6, <1>7, <1>8, <1>9

LEMMA EmptyList ==
    /\ <<>> \in Seq(Membership) /\ Elems(<<>>) = {} /\ OrgsOf(<<>>) = {} /\ NoneTwice(<<>>)
  BY DEF OrgsOf, Elems, NoneTwice

\* Post puts every new request in a free slot of its own.
LEMMA Posted ==
    ASSUME NEW new, NEW rest, Post(new, rest)
    PROVE  /\ reqs' = [s \in Slots |-> reqs'[s]]
           /\ \A s \in Slots : reqs'[s] = rest[s] \/ (rest[s] = None /\ reqs'[s] \in new)
           /\ \A s, r \in Slots : (/\ rest[s] = None /\ reqs'[s] # None
                                   /\ rest[r] = None /\ reqs'[r] = reqs'[s]) => r = s
           /\ \A q \in new : \E s \in Slots : rest[s] = None /\ reqs'[s] = q
<1> DEFINE free == {s \in Slots : rest[s] = None}
<1>1. PICK at \in Injection(new, free) :
          reqs' = [s \in Slots |-> IF s \in Range(at) THEN CHOOSE r \in new : at[r] = s ELSE rest[s]]
  BY DEF Post
<1>2. at \in [new -> free] /\ DOMAIN at = new
  BY DEF Injection
<1>3. \A s \in Range(at) : s \in free /\ \E r \in new : at[r] = s
  BY <1>2 DEF Range
<1>4. \A s \in Range(at) : reqs'[s] \in new /\ at[reqs'[s]] = s
  BY <1>1, <1>3
<1>5. \A s \in Slots : s \notin Range(at) => reqs'[s] = rest[s]
  BY <1>1
<1>6. reqs' = [s \in Slots |-> reqs'[s]]
  BY <1>1
<1>7. \A s \in Slots : reqs'[s] = rest[s] \/ (rest[s] = None /\ reqs'[s] \in new)
  BY <1>3, <1>4, <1>5
<1>8. \A s, r \in Slots : (/\ rest[s] = None /\ reqs'[s] # None
                           /\ rest[r] = None /\ reqs'[r] = reqs'[s]) => r = s
  BY <1>4, <1>5
<1>9. ASSUME NEW q \in new PROVE \E s \in Slots : rest[s] = None /\ reqs'[s] = q
  <2>1. at[q] \in Range(at) /\ at[q] \in free
    BY <1>2 DEF Range
  <2>2. reqs'[at[q]] = q
    BY <1>2, <1>4, <2>1 DEF Injection, IsInjective
  <2> QED
    BY <2>1, <2>2
<1> QED
  BY <1>6, <1>7, <1>8, <1>9

\* A request as it goes out.
LEMMA Requested ==
    ASSUME SessionTypeOK, NEW t \in Tabs, NEW kind \in Kinds, NEW who \in Users \cup {None},
           NEW arg \in Users \cup Orgs \cup Invitation \cup {None}
    PROVE  LET q == apiRequest(t, kind, who, arg) IN
           /\ q \in Request /\ q # None
           /\ q.tab = t /\ q.kind = kind /\ q.user = who /\ q.arg = arg
           /\ q.state = "sent" /\ q.data = <<>> /\ q.live
<1>1. apiRequest(t, kind, who, arg) \in Request
  BY DEF apiRequest, Request, SessionTypeOK
<1> QED
  BY <1>1, NoneAssumption DEF apiRequest

\* Nobody awaits the answer to a request any more.
LEMMA Quieted ==
    ASSUME NEW q \in Request
    PROVE  LET p == [q EXCEPT !.live = FALSE] IN
           /\ p \in Request /\ p # None
           /\ p.tab = q.tab /\ p.kind = q.kind /\ p.user = q.user /\ p.arg = q.arg
           /\ p.state = q.state /\ p.data = q.data /\ ~p.live
<1>1. [q EXCEPT !.live = FALSE] \in Request
  BY DEF Request
<1> QED
  BY <1>1, NoneAssumption DEF Request

-----------------------------------------------------------------------------
(* What does not concern a tab.                                            *)

\* A request that SyncInv is about.
Mine(q, t) ==
    /\ q # None
    /\ q.tab = t
    /\ q.kind = "orgs" \/ (q.kind \in Changes /\ q.live)

\* A step that leaves alone the list of a tab, its requests and the list that
\* the server has for its user keeps the tab in step.
LEMMA SyncFrame ==
    ASSUME NEW t \in Tabs, SyncInv(t), gone \subseteq gone',
           user'[t] = user[t], orgs'[t] = orgs[t], skew'[t] = skew[t],
           current'[t] = current[t] \/ orgs[t] # <<>>,
           Only(joined'[user[t]], exists') = Only(joined[user[t]], exists),
           \A s \in Slots : (Mine(reqs[s], t) \/ Mine(reqs'[s], t)) => reqs'[s] = reqs[s]
    PROVE  SyncInv(t)'
<1>1. Of(t, {"orgs"})' = Of(t, {"orgs"}) /\ \A s \in Of(t, {"orgs"}) : reqs'[s] = reqs[s]
  BY DEF Of, Mine
<1>2. /\ Live(t, Changes)' = Live(t, Changes) /\ Live(t, {"delete"})' = Live(t, {"delete"})
      /\ Live(t, {"accept"})' = Live(t, {"accept"})
      /\ Done(t, Joins)' = Done(t, Joins) /\ Done(t, {"delete"})' = Done(t, {"delete"})
  BY DEF Done, Live, Of, Mine, Changes, Joins
<1>3. /\ \A s \in Live(t, Changes) : reqs'[s] = reqs[s]
      /\ \A s \in Live(t, {"delete"}) : reqs'[s] = reqs[s]
      /\ \A s \in Done(t, Joins) : reqs'[s] = reqs[s]
      /\ \A s \in Done(t, {"delete"}) : reqs'[s] = reqs[s]
  BY DEF Done, Live, Of, Mine, Changes, Joins
<1>5. Coming(t)' = Coming(t) /\ Going(t)' = Going(t)
  BY <1>2, <1>3 DEF Coming, Going
<1>6. FindAllByUserID(user[t])' = FindAllByUserID(user[t])
  BY DEF FindAllByUserID
<1>7. SUFFICES ASSUME Synced(t) PROVE SyncInv(t)'
  BY DEF SyncInv, Synced
<1>8. LoadInv(t)'
  <2>1. LoadInv(t)
    BY <1>7 DEF SyncInv
  <2> QED
    BY <2>1, <1>1, <1>2, <1>6 DEF LoadInv
<1>9. ListInv(t) => ListInv(t)'
  BY <1>2, <1>3, <1>5, <1>6 DEF ListInv
<1> QED
  BY <1>1, <1>2, <1>3, <1>7, <1>8, <1>9 DEF SyncInv

\* A request changes without the server: it goes out, it is dropped, or nobody
\* awaits its answer any more.
Sent(q) ==
    /\ q.state = "sent" /\ q.data = <<>> /\ q.live
    /\ q.kind \in {"login", "register"} => q.arg \in Users
    /\ q.kind = "delete" => q.arg \in Orgs
    /\ q.kind \in {"accept", "respond"} => q.arg \in Invitation

Left(q, p) == q # None /\ (p = q \/ (q.kind # "orgs" /\ p = [q EXCEPT !.live = FALSE]))

Calm ==
    /\ reqs' \in [Slots -> Request \cup {None}]
    /\ \A s \in Slots : reqs'[s] = None \/ Sent(reqs'[s]) \/ Left(reqs[s], reqs'[s])

\* The steps of the tabs neither change the server nor the requests it works on.
LEMMA CalmKeeps ==
    ASSUME SessionTypeOK, AccountInv, ServerInv, Calm, UNCHANGED server,
           token' # None => stage[token'] >= 2,
           \A t \in Tabs : user'[t] # None => stage[user'[t]] >= 2
    PROVE  AccountInv' /\ ServerInv'
<1>1. /\ stage' = stage /\ joined' = joined /\ exists' = exists /\ gone' = gone /\ invites' = invites
      /\ Known' = Known
  BY DEF server, Known
<1>2. ASSUME NEW s \in Slots, reqs'[s] # None, ~Sent(reqs'[s])
      PROVE  /\ reqs[s] # None
             /\ reqs'[s].kind = reqs[s].kind /\ reqs'[s].arg = reqs[s].arg
             /\ reqs'[s].state = reqs[s].state /\ reqs'[s].data = reqs[s].data
             /\ reqs[s].kind = "orgs" => reqs'[s].live = reqs[s].live
  <2>1. Left(reqs[s], reqs'[s])
    BY <1>2 DEF Calm
  <2>2. reqs[s] # None /\ reqs[s] \in Request
    BY <2>1 DEF Left, SessionTypeOK
  <2> QED
    BY <2>1, <2>2, Quieted DEF Left
<1>3. ASSUME NEW s \in Slots, reqs'[s] # None PROVE Shape(s)'
  <2>1. CASE Sent(reqs'[s])
    BY <2>1, EmptyList DEF Shape, Sent
  <2>2. CASE ~Sent(reqs'[s])
    <3>1. Shape(s)
      BY <2>2, <1>2, <1>3 DEF AccountInv
    <3> QED
      BY <3>1, <2>2, <1>1, <1>2, <1>3 DEF Shape
  <2> QED
    BY <2>1, <2>2
<1>4. \A s \in Slots : Running(s)' => Running(s) /\ reqs'[s].arg = reqs[s].arg
  BY <1>2 DEF Running, Sent
<1>5. \A s \in Slots : Founding(s)' => Founding(s) /\ reqs'[s].arg = reqs[s].arg
  BY <1>1, <1>4 DEF Founding
<1>6. \A o : Barren(o)' <=> Barren(o)
  BY <1>1 DEF Barren
<1>7. AccountInv'
  BY <1>1, <1>3, <1>4 DEF AccountInv
<1>8. ServerInv'
  BY <1>1, <1>5, <1>6 DEF ServerInv, FoundingInv, Barren
<1> QED
  BY <1>7, <1>8

LEMMA PostIsCalm ==
    ASSUME SessionTypeOK, NEW new, NEW rest, Post(new, rest),
           \A q \in new : q \in Request /\ Sent(q),
           \A s \in Slots : rest[s] = None \/ (rest[s] \in Request /\ Left(reqs[s], rest[s]))
    PROVE  Calm
<1>1. /\ reqs' = [s \in Slots |-> reqs'[s]]
      /\ \A s \in Slots : reqs'[s] = rest[s] \/ (rest[s] = None /\ reqs'[s] \in new)
  BY Posted
<1>2. \A s \in Slots : reqs'[s] \in Request \cup {None}
  BY <1>1
<1>3. \A s \in Slots : reqs'[s] = None \/ Sent(reqs'[s]) \/ Left(reqs[s], reqs'[s])
  BY <1>1
<1>4. reqs' \in [Slots -> Request \cup {None}]
  BY <1>1, <1>2
<1> QED
  BY <1>3, <1>4 DEF Calm

LEMMA LeftAlone ==
    ASSUME SessionTypeOK
    PROVE  /\ reqs \in [Slots -> Request \cup {None}]
           /\ \A s \in Slots : reqs[s] = None \/ (reqs[s] \in Request /\ Left(reqs[s], reqs[s]))
           /\ \A s \in Slots : /\ Without(s) \in [Slots -> Request \cup {None}]
                               /\ Without(s)[s] = None
                               /\ \A r \in Slots : r # s => Without(s)[r] = reqs[r]
  BY DEF SessionTypeOK, Left, Without

\* Steps after which the requests are what they were, but for some that are
\* dropped.
LEMMA DropIsCalm ==
    ASSUME SessionTypeOK,
           reqs' = reqs \/ \E s \in Slots : reqs' = Without(s)
    PROVE  Calm
<1>1. CASE reqs' = reqs
  BY <1>1, LeftAlone DEF Calm
<1>2. ASSUME NEW s \in Slots, reqs' = Without(s) PROVE Calm
  <2>1. \A r \in Slots : reqs'[r] = None \/ (reqs[r] \in Request /\ reqs'[r] = reqs[r])
    BY <1>2, LeftAlone
  <2> QED
    BY <1>2, <2>1, LeftAlone DEF Calm, Left
<1> QED
  BY <1>1, <1>2

-----------------------------------------------------------------------------
(* The steps of the tabs.                                                  *)

\* The forms send a request that no list depends on.
LEMMA FormInv ==
    ASSUME SessionInv, NEW t \in Tabs, NEW u \in Users, useLogin(t, u) \/ useRegister(t, u)
    PROVE  SessionInv'
<1>1. PICK kind \in {"login", "register"} :
          Click /\ Post({apiRequest(t, kind, None, u)}, reqs) /\ UNCHANGED <<server, storage, tabs>>
  BY DEF useLogin, useRegister
<1> DEFINE q == apiRequest(t, kind, None, u)
<1>2. q \in Request /\ q # None /\ q.kind = kind /\ Sent(q)
  <2>1. kind \in Kinds
    BY DEF Kinds
  <2> QED
    BY <2>1, Requested DEF SessionInv, Sent
<1> HIDE DEF q
<1>3. /\ stage' = stage /\ joined' = joined /\ exists' = exists /\ gone' = gone /\ invites' = invites
      /\ token' = token /\ selected' = selected /\ writer' = writer
      /\ user' = user /\ orgs' = orgs /\ current' = current /\ link' = link
      /\ dialog' = dialog /\ asked' = asked /\ skew' = skew
  BY <1>1 DEF server, storage, tabs
<1>4. \A s \in Slots : reqs'[s] = reqs[s] \/ (reqs[s] = None /\ reqs'[s] = q)
  BY <1>1, Posted DEF q
<1>5. Calm
  <2>1. Post({q}, reqs)
    BY <1>1 DEF q
  <2> QED
    BY <2>1, <1>2, LeftAlone, PostIsCalm DEF SessionInv
<1>6. SessionTypeOK'
  <2>1. clicks' \in 0..MaxClicks
    BY <1>1, SessionAssumption DEF Click, SessionInv, SessionTypeOK
  <2> QED
    BY <2>1, <1>3, <1>5 DEF SessionInv, SessionTypeOK, Calm
<1>7. AccountInv' /\ ServerInv'
  BY <1>1, <1>3, <1>5, CalmKeeps DEF SessionInv, AccountInv
<1>8. ViewInv'
  BY <1>3 DEF SessionInv, ViewInv, HeaderMatchesView, CurrentIsListed, Known
<1>9. ASSUME NEW v \in Tabs PROVE SyncInv(v)'
  <2>1. \A s \in Slots : (Mine(reqs[s], v) \/ Mine(reqs'[s], v)) => reqs'[s] = reqs[s]
    BY <1>2, <1>4 DEF Mine, Changes
  <2>2. SyncInv(v)
    BY DEF SessionInv
  <2> QED
    BY <1>3, <2>1, <2>2, SyncFrame
<1> QED
  BY <1>6, <1>7, <1>8, <1>9 DEF SessionInv

\* A change that is asked for goes out with the user's name on it, and a
\* deletion is of an organization on the list.
LEMMA AskInv ==
    ASSUME SessionInv, NEW t \in Tabs, NEW kind \in {"create", "respond", "delete"}, NEW arg,
           kind = "create" => arg = None,
           kind = "respond" => arg \in Invitation,
           kind = "delete" => arg \in Orgs /\ (Synced(t) => arg \in OrgsOf(orgs[t])),
           Ask(t, kind, arg)
    PROVE  SessionInv'
<1> DEFINE q == apiRequest(t, kind, token, arg)
<1>1. /\ stage' = stage /\ joined' = joined /\ exists' = exists /\ gone' = gone /\ invites' = invites
      /\ token' = token /\ selected' = selected /\ writer' = writer
      /\ user' = user /\ orgs' = orgs /\ current' = current /\ link' = link
      /\ dialog' = dialog /\ asked' = asked
      /\ skew' = [skew EXCEPT ![t] = @ \/ Of(t, {"orgs"}) # {} \/ token # user[t]]
      /\ Click /\ Post({q}, reqs)
  BY DEF Ask, server, storage
<1>2. /\ q \in Request /\ q # None /\ Sent(q)
      /\ q.tab = t /\ q.kind = kind /\ q.user = token /\ q.arg = arg /\ q.state = "sent"
  <2>1. kind \in Kinds
    BY DEF Kinds
  <2>2. token \in Users \cup {None} /\ SessionTypeOK
    BY DEF SessionInv, SessionTypeOK
  <2>3. arg \in Users \cup Orgs \cup Invitation \cup {None}
    OBVIOUS
  <2> HIDE DEF q
  <2>4. /\ q \in Request /\ q # None
        /\ q.tab = t /\ q.kind = kind /\ q.user = token /\ q.arg = arg
        /\ q.state = "sent" /\ q.data = <<>> /\ q.live
    BY <2>1, <2>2, <2>3, Requested DEF q
  <2> QED
    BY <2>4 DEF Sent
<1> HIDE DEF q
<1>3. \A s \in Slots : reqs'[s] = reqs[s] \/ (reqs[s] = None /\ reqs'[s] = q)
  BY <1>1, Posted
<1>4. Calm
  BY <1>1, <1>2, LeftAlone, PostIsCalm DEF SessionInv
<1>5. SessionTypeOK'
  <2>1. clicks' \in 0..MaxClicks
    BY <1>1, SessionAssumption DEF Click, SessionInv, SessionTypeOK
  <2>2. skew' \in [Tabs -> BOOLEAN]
    BY <1>1 DEF SessionInv, SessionTypeOK
  <2> QED
    BY <2>1, <2>2, <1>1, <1>4 DEF SessionInv, SessionTypeOK, Calm
<1>6. AccountInv' /\ ServerInv'
  <2>1. UNCHANGED server
    BY <1>1 DEF server
  <2> QED
    BY <1>1, <1>4, <2>1, CalmKeeps DEF SessionInv, AccountInv
<1>7. ViewInv'
  BY <1>1 DEF SessionInv, ViewInv, HeaderMatchesView, CurrentIsListed, Known
<1>8. ASSUME NEW v \in Tabs, v # t PROVE SyncInv(v)'
  <2>1. \A s \in Slots : (Mine(reqs[s], v) \/ Mine(reqs'[s], v)) => reqs'[s] = reqs[s]
    BY <1>2, <1>3, <1>8 DEF Mine
  <2>2. SyncInv(v) /\ skew'[v] = skew[v]
    BY <1>1, <1>8 DEF SessionInv, SessionTypeOK
  <2> QED
    BY <1>1, <2>1, <2>2, SyncFrame
<1>9. SyncInv(t)'
  <2>1. SUFFICES ASSUME Synced(t)' PROVE SyncInv(t)'
    BY DEF SyncInv
  <2>2. Synced(t) /\ Of(t, {"orgs"}) = {} /\ token = user[t]
    BY <1>1, <2>1 DEF Synced, SessionInv, SessionTypeOK
  <2>3. SyncInv(t)
    BY DEF SessionInv
  <2>4. Of(t, {"orgs"})' = {}
    BY <1>2, <1>3, <2>2 DEF Of
  <2>5. \A s \in Live(t, Changes)' : s \in Slots /\ (reqs'[s] = q \/ (s \in Live(t, Changes) /\ reqs'[s] = reqs[s]))
    BY <1>3 DEF Live, Of
  <2>6. \A s \in Live(t, Changes) : s \in Live(t, Changes)' /\ reqs'[s] = reqs[s]
    BY <1>3 DEF Live, Of
  <2>7. LoadInv(t)' /\ Live(t, {"accept"})' = {}
    BY <1>2, <1>3, <2>2, <2>3, <2>4 DEF LoadInv, SyncInv, Live, Of
  <2>8. \A s \in Live(t, Changes)' : reqs'[s].user = user'[t]
    BY <1>1, <1>2, <2>2, <2>3, <2>5 DEF SyncInv
  <2>9. ASSUME \A s \in Live(t, Changes)' : reqs'[s].state # "failed" PROVE ListInv(t)'
    <3>1. ListInv(t)
      BY <2>2, <2>3, <2>6, <2>9 DEF SyncInv
    <3>2. /\ Done(t, Joins)' = Done(t, Joins) /\ \A s \in Done(t, Joins) : reqs'[s] = reqs[s]
          /\ Done(t, {"delete"})' = Done(t, {"delete"})
          /\ \A s \in Done(t, {"delete"}) : reqs'[s] = reqs[s]
      BY <1>2, <1>3 DEF Done, Live, Of
    <3>3. \A s \in Live(t, {"delete"})' : \/ kind = "delete" /\ reqs'[s].arg = arg
                                          \/ s \in Live(t, {"delete"}) /\ reqs'[s] = reqs[s]
      BY <1>2, <1>3 DEF Live, Of
    <3>4. Coming(t)' = Coming(t) /\ Going(t)' = Going(t)
      BY <3>2 DEF Coming, Going
    <3>5. FindAllByUserID(user[t])' = FindAllByUserID(user[t])
      BY <1>1 DEF FindAllByUserID
    <3> QED
      BY <1>1, <2>2, <3>1, <3>2, <3>3, <3>4, <3>5 DEF ListInv
  <2> QED
    BY <1>1, <2>2, <2>3, <2>4, <2>7, <2>8, <2>9 DEF SyncInv
<1> QED
  BY <1>5, <1>6, <1>7, <1>8, <1>9 DEF SessionInv

LEMMA ChangeInv ==
    ASSUME SessionInv, NEW t \in Tabs,
           \/ handleCreate(t)
           \/ handleDelete(t)
           \/ \E i \in dialog[t] : handleRespond(t, i)
    PROVE  SessionInv'
<1>1. CASE handleCreate(t)
  BY <1>1, AskInv DEF handleCreate
<1>2. CASE handleDelete(t)
  <2>1. current[t] # None /\ current[t] \in Membership /\ Ask(t, "delete", current[t].org)
    BY <1>2 DEF handleDelete, AdminRoute, SessionInv, SessionTypeOK
  <2>2. current[t].org \in Orgs
    BY <2>1 DEF Membership
  <2>3. Synced(t) => current[t].org \in OrgsOf(orgs[t])
    <3>1. Synced(t) => orgs[t] # <<>>
      BY <2>1 DEF SessionInv, SyncInv
    <3>2. orgs[t] # <<>> => current[t] \in Elems(orgs[t])
      BY DEF SessionInv, ViewInv, CurrentIsListed
    <3>3. orgs[t] \in Seq(Membership)
      BY DEF SessionInv, SessionTypeOK
    <3> QED
      BY <3>1, <3>2, <3>3, OrgsOfElems
  <2> QED
    BY <2>1, <2>2, <2>3, AskInv
<1>3. ASSUME NEW i \in dialog[t], handleRespond(t, i) PROVE SessionInv'
  <2>1. i \in Invitation /\ Ask(t, "respond", i)
    BY <1>3 DEF handleRespond, SessionInv, SessionTypeOK
  <2> QED
    BY <2>1, AskInv
<1> QED
  BY <1>1, <1>2, <1>3

\* The steps of a tab that send nothing and drop nothing.
LEMMA ScreenInv ==
    ASSUME SessionInv, NEW t \in Tabs,
           \/ logout(t)
           \/ \E m \in Membership : switchOrg(t, m)
           \/ closeDialog(t)
           \/ PendingReply(t)
    PROVE  SessionInv'
<1>1. /\ stage' = stage /\ joined' = joined /\ exists' = exists /\ gone' = gone /\ invites' = invites
      /\ reqs' = reqs /\ link' = link /\ skew' = skew
      /\ (Click \/ clicks' = clicks)
      /\ \/ logout(t)
         \/ token' = token /\ user' = user /\ orgs' = orgs
  BY DEF logout, switchOrg, closeDialog, PendingReply, server, storage
<1>2. /\ user' = user \/ user' = [user EXCEPT ![t] = None]
      /\ token' = token \/ token' = None
  BY <1>1 DEF logout
<1>3. /\ \/ current' = current /\ selected' = selected /\ writer' = writer /\ orgs' = orgs
         \/ /\ current' = [current EXCEPT ![t] = None] /\ orgs' = [orgs EXCEPT ![t] = <<>>]
            /\ writer' = t /\ selected' = None /\ user' = [user EXCEPT ![t] = None]
         \/ \E m \in Elems(orgs[t]) : /\ current' = [current EXCEPT ![t] = m] /\ orgs' = orgs
                                      /\ writer' = t /\ selected' = m.org
  <2>1. CASE logout(t)
    BY <2>1 DEF logout
  <2>2. CASE \E m \in Membership : switchOrg(t, m)
    BY <2>2 DEF switchOrg, OrgSwitcher, Select
  <2>3. CASE closeDialog(t) \/ PendingReply(t)
    BY <2>3 DEF closeDialog, PendingReply, storage
  <2> QED
    BY <2>1, <2>2, <2>3
<1>4. Calm
  BY <1>1, DropIsCalm DEF SessionInv
<1>5. SessionTypeOK'
  <2>1. clicks' \in 0..MaxClicks
    BY <1>1, SessionAssumption DEF Click, SessionInv, SessionTypeOK
  <2>2. asked' \in [Tabs -> Users \cup {None}]
    BY DEF logout, switchOrg, closeDialog, PendingReply, SessionInv, SessionTypeOK
  <2>3. dialog' \in [Tabs -> SUBSET Invitation]
    <3>1. PICK d : \/ dialog' = dialog
                   \/ /\ dialog' = [dialog EXCEPT ![t] = d]
                      /\ d \subseteq dialog[t] \/ d \subseteq invites
      BY DEF logout, switchOrg, closeDialog, PendingReply, SessionInv, SessionTypeOK
    <3> QED
      BY <3>1 DEF SessionInv, SessionTypeOK
  <2>4. /\ selected' \in Orgs \cup {None} /\ writer' \in Tabs \cup {None}
        /\ current' \in [Tabs -> Membership \cup {None}] /\ orgs' \in [Tabs -> Seq(Membership)]
    <3>1. orgs[t] \in Seq(Membership)
      BY DEF SessionInv, SessionTypeOK
    <3>2. \A m \in Elems(orgs[t]) : m \in Membership /\ m.org \in Orgs
      BY <3>1, OrgsOfElems DEF Membership
    <3> QED
      BY <1>3, <3>1, <3>2, EmptyList DEF SessionInv, SessionTypeOK
  <2>5. user' \in [Tabs -> Users \cup {None}] /\ token' \in Users \cup {None}
    BY <1>2 DEF SessionInv, SessionTypeOK
  <2> QED
    BY <2>1, <2>2, <2>3, <2>4, <2>5, <1>1 DEF SessionInv, SessionTypeOK
<1>6. AccountInv' /\ ServerInv'
  <2>1. UNCHANGED server
    BY <1>1 DEF server
  <2>2. token' # None => stage[token'] >= 2
    BY <1>2 DEF SessionInv, AccountInv
  <2>3. \A v \in Tabs : user'[v] # None => stage[user'[v]] >= 2
    BY <1>2 DEF SessionInv, AccountInv, SessionTypeOK
  <2> QED
    BY <1>4, <2>1, <2>2, <2>3, CalmKeeps DEF SessionInv
<1>7. ViewInv'
  <2>1. /\ \A v \in Tabs : v # t => orgs'[v] = orgs[v] /\ current'[v] = current[v]
        /\ current \in [Tabs -> Membership \cup {None}] /\ orgs \in [Tabs -> Seq(Membership)]
    BY <1>3 DEF SessionInv, SessionTypeOK
  <2>2. HeaderMatchesView'
    BY <1>3, <2>1 DEF SessionInv, ViewInv, HeaderMatchesView
  <2>3. CurrentIsListed'
    BY <1>3, <2>1 DEF SessionInv, ViewInv, CurrentIsListed
  <2>4. \A v \in Tabs : OrgsOf(orgs'[v]) \subseteq Known
    BY <1>3, <2>1, EmptyList DEF SessionInv, ViewInv
  <2> QED
    BY <1>1, <2>2, <2>3, <2>4 DEF ViewInv, Known
<1>8. ASSUME NEW v \in Tabs PROVE SyncInv(v)'
  <2>1. CASE user'[v] # None
    <3>1. SyncInv(v)
      BY DEF SessionInv
    <3>2. orgs'[v] = orgs[v] /\ user'[v] = user[v] /\ (current'[v] = current[v] \/ orgs[v] # <<>>)
      BY <1>2, <1>3, <2>1, EmptyList DEF SessionInv, SessionTypeOK
    <3> QED
      BY <1>1, <3>1, <3>2, SyncFrame
  <2>2. CASE user'[v] = None
    BY <2>2 DEF SyncInv, Synced
  <2> QED
    BY <2>1, <2>2
<1> QED
  BY <1>5, <1>6, <1>7, <1>8 DEF SessionInv

\* A tab that is loaded again drops its loads and awaits nothing.
LEMMA DesertedRequests ==
    ASSUME SessionTypeOK, NEW t \in Tabs, NEW s \in Slots
    PROVE  /\ Deserted(t)[s] = None \/ (Deserted(t)[s] \in Request /\ Left(reqs[s], Deserted(t)[s]))
           /\ (reqs[s] # None /\ reqs[s].tab # t) => Deserted(t)[s] = reqs[s]
           /\ reqs[s] = None => Deserted(t)[s] = None
           /\ Deserted(t)[s] # None => /\ reqs[s] # None
                                       /\ Deserted(t)[s].tab = reqs[s].tab
                                       /\ Deserted(t)[s].kind = reqs[s].kind
                                       /\ reqs[s].tab = t => ~Deserted(t)[s].live /\ reqs[s].kind # "orgs"
<1>1. CASE reqs[s] = None
  <2>1. Deserted(t)[s] = None
    BY <1>1 DEF Deserted, Of
  <2> QED
    BY <1>1, <2>1
<1>2. CASE reqs[s] # None
  <2>1. reqs[s] \in Request
    BY <1>2 DEF SessionTypeOK
  <2>2. reqs[s].kind \in Kinds
    BY <2>1 DEF Request
  <2>3. CASE reqs[s].tab # t
    <3>1. Deserted(t)[s] = reqs[s]
      BY <2>3 DEF Deserted, Of
    <3> QED
      BY <1>2, <2>1, <2>3, <3>1 DEF Left
  <2>4. CASE reqs[s].tab = t /\ reqs[s].kind = "orgs"
    <3>1. Deserted(t)[s] = None
      BY <1>2, <2>4 DEF Deserted, Of
    <3> QED
      BY <1>2, <2>4, <3>1
  <2>5. CASE reqs[s].tab = t /\ reqs[s].kind # "orgs"
    <3>1. Deserted(t)[s] = [reqs[s] EXCEPT !.live = FALSE]
      BY <1>2, <2>2, <2>5 DEF Deserted, Of
    <3> QED
      BY <1>2, <2>1, <2>5, <3>1, Quieted DEF Left
  <2> QED
    BY <2>3, <2>4, <2>5
<1> QED
  BY <1>1, <1>2

\* What a tab asks for when it comes to its page.
LEMMA OpeningRequests ==
    ASSUME SessionTypeOK, NEW t \in Tabs, NEW who \in Users, NEW where \in Invitation \cup {None}
    PROVE  /\ \A q \in Opening(t, who, where) :
                 /\ q \in Request /\ q # None /\ Sent(q)
                 /\ q.tab = t /\ q.user = who /\ q.kind \in {"orgs", "accept"}
           /\ where = None =>
                 /\ Opening(t, who, where) = {apiRequest(t, "orgs", who, None)}
                 /\ apiRequest(t, "orgs", who, None).kind = "orgs"
                 /\ apiRequest(t, "orgs", who, None).state = "sent"
<1> DEFINE q == apiRequest(t, "orgs", who, None)
           p == apiRequest(t, "accept", who, where)
<1>1. q \in Request /\ q # None /\ Sent(q) /\ q.tab = t /\ q.user = who /\ q.kind = "orgs" /\ q.state = "sent"
  <2>1. "orgs" \in Kinds
    BY DEF Kinds
  <2> QED
    BY <2>1, Requested DEF Sent
<1>2. where # None => p \in Request /\ p # None /\ Sent(p) /\ p.tab = t /\ p.user = who /\ p.kind = "accept"
  <2>1. "accept" \in Kinds
    BY DEF Kinds
  <2> QED
    BY <2>1, Requested DEF Sent
<1>3. Opening(t, who, where) = {q} \cup (IF where = None THEN {} ELSE {p})
  BY DEF Opening
<1> HIDE DEF q, p
<1>4. \A x \in Opening(t, who, where) : x = q \/ (where # None /\ x = p)
  BY <1>3
<1> QED
  BY <1>1, <1>2, <1>3, <1>4 DEF q

\* A tab that only waits for its list is in step.
LEMMA FreshLoad ==
    ASSUME SessionTypeOK, NEW t \in Tabs, NEW who \in Users, NEW rest,
           Post(Opening(t, who, None), rest),
           \A s \in Slots : ~Mine(rest[s], t),
           user'[t] = who, orgs'[t] = <<>>, current'[t] = None
    PROVE  SyncInv(t)'
<1> DEFINE q == apiRequest(t, "orgs", who, None)
<1>1. /\ Opening(t, who, None) = {q} /\ q # None
      /\ q.tab = t /\ q.kind = "orgs" /\ q.user = who /\ q.state = "sent"
  BY OpeningRequests
<1> HIDE DEF q
<1>2. /\ \A s \in Slots : reqs'[s] = rest[s] \/ (rest[s] = None /\ reqs'[s] = q)
      /\ \A s, r \in Slots : (/\ rest[s] = None /\ reqs'[s] # None
                              /\ rest[r] = None /\ reqs'[r] = reqs'[s]) => r = s
      /\ \E s \in Slots : rest[s] = None /\ reqs'[s] = q
  <2>1. Post({q}, rest)
    BY <1>1
  <2>2. \A s \in Slots : reqs'[s] = rest[s] \/ (rest[s] = None /\ reqs'[s] \in {q})
    BY <2>1, Posted
  <2>3. \A s, r \in Slots : (/\ rest[s] = None /\ reqs'[s] # None
                             /\ rest[r] = None /\ reqs'[r] = reqs'[s]) => r = s
    BY <2>1, Posted
  <2>4. \A p \in {q} : \E s \in Slots : rest[s] = None /\ reqs'[s] = p
    BY <2>1, Posted
  <2> QED
    BY <2>2, <2>3, <2>4
<1>3. \A s \in Slots : Mine(reqs'[s], t) => rest[s] = None /\ reqs'[s] = q
  BY <1>2
<1>4. Of(t, {"orgs"})' # {}
  BY <1>1, <1>2 DEF Of
<1>5. \A s \in Of(t, {"orgs"})' : s \in Slots /\ rest[s] = None /\ reqs'[s] = q
  BY <1>3 DEF Of, Mine
<1>6. \A s \in Of(t, {"orgs"})' : Of(t, {"orgs"})' = {s}
  <2>1. \A s, r \in Of(t, {"orgs"})' : r = s
    BY <1>1, <1>2, <1>5
  <2> QED
    BY <2>1
<1>7. Live(t, Changes)' = {} /\ Live(t, {"accept"})' = {}
  BY <1>1, <1>3 DEF Live, Of, Mine, Changes
<1>8. LoadInv(t)'
  BY <1>1, <1>5, <1>6, <1>7 DEF LoadInv
<1> QED
  BY <1>4, <1>7, <1>8 DEF SyncInv

\* Loading a tab again.
LEMMA OpenInv ==
    ASSUME SessionInv, NEW t \in Tabs, NEW where \in invites \cup {None}, Open(t, where)
    PROVE  SessionInv'
<1> DEFINE new == IF token = None THEN {} ELSE Opening(t, token, where)
<1>0. /\ SessionTypeOK /\ where \in Invitation \cup {None} /\ token \in Users \cup {None}
  BY DEF SessionInv, SessionTypeOK
<1>1. /\ stage' = stage /\ joined' = joined /\ exists' = exists /\ gone' = gone /\ invites' = invites
      /\ token' = token /\ selected' = selected /\ writer' = writer
      /\ user' = [user EXCEPT ![t] = token] /\ orgs' = [orgs EXCEPT ![t] = <<>>]
      /\ current' = [current EXCEPT ![t] = None] /\ link' = [link EXCEPT ![t] = where]
      /\ dialog' = [dialog EXCEPT ![t] = {}] /\ asked' = [asked EXCEPT ![t] = Asking(token, where)]
      /\ skew' = [skew EXCEPT ![t] = where # None]
      /\ Click /\ Post(new, Deserted(t))
  BY DEF Open, server, storage
<1>2. \A q \in new : q \in Request /\ Sent(q) /\ q.tab = t
  BY <1>0, OpeningRequests
<1>3. /\ user \in [Tabs -> Users \cup {None}] /\ orgs \in [Tabs -> Seq(Membership)]
      /\ current \in [Tabs -> Membership \cup {None}] /\ skew \in [Tabs -> BOOLEAN]
  BY <1>0 DEF SessionTypeOK
<1>4. /\ \A v \in Tabs : v # t => /\ user'[v] = user[v] /\ orgs'[v] = orgs[v]
                                  /\ current'[v] = current[v] /\ skew'[v] = skew[v]
      /\ user'[t] = token /\ orgs'[t] = <<>> /\ current'[t] = None /\ skew'[t] = (where # None)
  BY <1>1, <1>3
<1>5. Calm
  <2> HIDE DEF new
  <2> QED
    BY <1>0, <1>1, <1>2, DesertedRequests, PostIsCalm
<1>6. SessionTypeOK'
  <2>1. clicks' \in 0..MaxClicks
    BY <1>0, <1>1, SessionAssumption DEF Click, SessionTypeOK
  <2>2. Asking(token, where) \in Users \cup {None}
    BY <1>0 DEF Asking
  <2>3. /\ user' \in [Tabs -> Users \cup {None}] /\ orgs' \in [Tabs -> Seq(Membership)]
        /\ current' \in [Tabs -> Membership \cup {None}] /\ skew' \in [Tabs -> BOOLEAN]
    BY <1>0, <1>1, <1>3, EmptyList
  <2>4. /\ link' \in [Tabs -> Invitation \cup {None}] /\ dialog' \in [Tabs -> SUBSET Invitation]
        /\ asked' \in [Tabs -> Users \cup {None}]
    BY <1>0, <1>1, <2>2 DEF SessionTypeOK
  <2> QED
    BY <2>1, <2>3, <2>4, <1>0, <1>1, <1>5 DEF SessionTypeOK, Calm
<1>7. AccountInv' /\ ServerInv'
  <2>1. UNCHANGED server
    BY <1>1 DEF server
  <2>2. \A v \in Tabs : user'[v] # None => stage[user'[v]] >= 2
    BY <1>4 DEF SessionInv, AccountInv
  <2>3. token' # None => stage[token'] >= 2
    BY <1>1 DEF SessionInv, AccountInv
  <2> QED
    BY <1>5, <2>1, <2>2, <2>3, CalmKeeps DEF SessionInv
<1>8. ViewInv'
  <2>1. HeaderMatchesView' /\ CurrentIsListed'
    BY <1>1, <1>4 DEF SessionInv, ViewInv, HeaderMatchesView, CurrentIsListed
  <2>2. \A v \in Tabs : OrgsOf(orgs'[v]) \subseteq Known
    BY <1>4, EmptyList DEF SessionInv, ViewInv
  <2> QED
    BY <1>1, <2>1, <2>2 DEF ViewInv, Known
<1>9. ASSUME NEW v \in Tabs, v # t PROVE SyncInv(v)'
  <2> HIDE DEF new
  <2>1. \A s \in Slots : \/ reqs'[s] = Deserted(t)[s]
                         \/ Deserted(t)[s] = None /\ reqs'[s] \in new
    BY <1>1, Posted
  <2>2. ASSUME NEW s \in Slots, Mine(reqs[s], v) \/ Mine(reqs'[s], v) PROVE reqs'[s] = reqs[s]
    <3>1. CASE Mine(reqs[s], v)
      BY <3>1, <1>0, <1>9, <2>1, DesertedRequests DEF Mine
    <3>2. CASE Mine(reqs'[s], v)
      <4>1. reqs'[s] = Deserted(t)[s] /\ reqs'[s] # None /\ reqs'[s].tab = v
        BY <3>2, <1>2, <1>9, <2>1 DEF Mine
      <4> QED
        BY <4>1, <1>0, <1>9, DesertedRequests
    <3> QED
      BY <2>2, <3>1, <3>2
  <2>3. SyncInv(v)
    BY DEF SessionInv
  <2> QED
    BY <1>1, <1>4, <1>9, <2>2, <2>3, SyncFrame
<1>10. SyncInv(t)'
  <2>1. SUFFICES ASSUME Synced(t)' PROVE SyncInv(t)'
    BY DEF SyncInv
  <2>2. token # None /\ token \in Users /\ where = None
    BY <1>0, <1>4, <2>1 DEF Synced
  <2>3. Post(Opening(t, token, None), Deserted(t))
    BY <1>1, <2>2
  <2>4. \A s \in Slots : ~Mine(Deserted(t)[s], t)
    BY <1>0, DesertedRequests DEF Mine
  <2> QED
    BY <1>0, <1>4, <2>2, <2>3, <2>4, FreshLoad
<1> QED
  BY <1>6, <1>7, <1>8, <1>9, <1>10 DEF SessionInv

\* From the page of a link to the dashboard. A tab that came by a link is not
\* in step, so no acceptance that it waits for is lost on it.
LEMMA DashboardInv ==
    ASSUME SessionInv, NEW t \in Tabs, goToDashboard(t)
    PROVE  SessionInv'
<1>0. SessionTypeOK /\ reqs \in [Slots -> Request \cup {None}]
  BY DEF SessionInv, SessionTypeOK
<1>1. /\ stage' = stage /\ joined' = joined /\ exists' = exists /\ gone' = gone /\ invites' = invites
      /\ token' = token /\ selected' = selected /\ writer' = writer
      /\ user' = user /\ orgs' = orgs /\ current' = current /\ dialog' = dialog /\ skew' = skew
      /\ link' = [link EXCEPT ![t] = None] /\ asked' = [asked EXCEPT ![t] = token]
      /\ Click
      /\ reqs' = [s \in Slots |-> IF s \in Of(t, {"accept"}) THEN [reqs[s] EXCEPT !.live = FALSE]
                                  ELSE reqs[s]]
  BY DEF goToDashboard, server, storage
<1>2. ASSUME NEW s \in Slots
      PROVE  \/ s \notin Of(t, {"accept"}) /\ reqs'[s] = reqs[s]
             \/ /\ s \in Of(t, {"accept"}) /\ reqs'[s] = [reqs[s] EXCEPT !.live = FALSE]
                /\ reqs'[s] \in Request /\ reqs'[s] # None /\ ~reqs'[s].live
                /\ reqs'[s].tab = reqs[s].tab /\ reqs'[s].kind = "accept"
  <2>1. s \in Of(t, {"accept"}) => reqs[s] \in Request /\ reqs[s].kind = "accept"
    BY <1>0 DEF Of
  <2> QED
    BY <1>1, <2>1, Quieted
<1>3. Calm
  <2>1. reqs' \in [Slots -> Request \cup {None}]
    BY <1>0, <1>1, <1>2
  <2>2. \A s \in Slots : reqs'[s] = None \/ Left(reqs[s], reqs'[s])
    BY <1>2 DEF Left, Of
  <2> QED
    BY <2>1, <2>2 DEF Calm
<1>4. SessionTypeOK'
  <2>1. clicks' \in 0..MaxClicks
    BY <1>0, <1>1, SessionAssumption DEF Click, SessionTypeOK
  <2>2. link' \in [Tabs -> Invitation \cup {None}] /\ asked' \in [Tabs -> Users \cup {None}]
    BY <1>0, <1>1 DEF SessionTypeOK
  <2> QED
    BY <2>1, <2>2, <1>0, <1>1, <1>3 DEF SessionTypeOK, Calm
<1>5. AccountInv' /\ ServerInv'
  <2>1. UNCHANGED server
    BY <1>1 DEF server
  <2> QED
    BY <1>1, <1>3, <2>1, CalmKeeps DEF SessionInv, AccountInv
<1>6. ViewInv'
  BY <1>1 DEF SessionInv, ViewInv, HeaderMatchesView, CurrentIsListed, Known
<1>7. ASSUME NEW v \in Tabs PROVE SyncInv(v)'
  <2>1. SUFFICES ASSUME Synced(v)' PROVE SyncInv(v)'
    BY DEF SyncInv
  <2>2. SyncInv(v) /\ Synced(v)
    BY <1>1, <2>1 DEF SessionInv, Synced
  <2>3. Live(v, {"accept"}) = {}
    BY <2>2 DEF SyncInv
  <2>4. \A s \in Slots : (Mine(reqs[s], v) \/ Mine(reqs'[s], v)) => reqs'[s] = reqs[s]
    BY <1>2, <2>3 DEF Mine, Live, Of
  <2> QED
    BY <1>1, <2>2, <2>4, SyncFrame
<1> QED
  BY <1>4, <1>5, <1>6, <1>7 DEF SessionInv

\* An answer that nobody awaits is dropped.
LEMMA SilentInv ==
    ASSUME SessionInv, NEW s \in Slots, SilentReply(s)
    PROVE  SessionInv'
<1>1. /\ stage' = stage /\ joined' = joined /\ exists' = exists /\ gone' = gone /\ invites' = invites
      /\ token' = token /\ selected' = selected /\ writer' = writer
      /\ user' = user /\ orgs' = orgs /\ current' = current /\ link' = link
      /\ dialog' = dialog /\ asked' = asked /\ skew' = skew /\ clicks' = clicks
      /\ reqs' = Without(s)
      /\ reqs[s] # None /\ (reqs[s].kind \in {"login", "register"} \/ ~reqs[s].live)
  BY DEF SilentReply, Failed, server, storage, tabs
<1>2. Calm
  BY <1>1, DropIsCalm DEF SessionInv
<1>3. SessionTypeOK'
  BY <1>1, <1>2 DEF SessionInv, SessionTypeOK, Calm
<1>4. AccountInv' /\ ServerInv'
  <2>1. UNCHANGED server
    BY <1>1 DEF server
  <2> QED
    BY <1>1, <1>2, <2>1, CalmKeeps DEF SessionInv, AccountInv
<1>5. ViewInv'
  BY <1>1 DEF SessionInv, ViewInv, HeaderMatchesView, CurrentIsListed, Known
<1>6. ASSUME NEW v \in Tabs PROVE SyncInv(v)'
  <2>1. ~Mine(reqs[s], v)
    <3>1. Shape(s)
      BY <1>1 DEF SessionInv, AccountInv
    <3> QED
      BY <1>1, <3>1 DEF Shape, Mine, Changes
  <2>2. \A r \in Slots : (Mine(reqs[r], v) \/ Mine(reqs'[r], v)) => reqs'[r] = reqs[r]
    BY <1>1, <2>1, LeftAlone DEF Mine, SessionInv
  <2>3. SyncInv(v)
    BY DEF SessionInv
  <2> QED
    BY <1>1, <2>2, <2>3, SyncFrame
<1> QED
  BY <1>3, <1>4, <1>5, <1>6 DEF SessionInv

\* The answer of a login. Who is signed in now has an account.
LEMMA LoginReplyInv ==
    ASSUME SessionInv, NEW s \in Slots, LoginReply(s)
    PROVE  SessionInv'
<1>0. PICK t \in Tabs, u \in Users :
          /\ SessionTypeOK /\ reqs[s] # None /\ reqs[s] \in Request /\ reqs[s].kind = "login"
          /\ t = reqs[s].tab /\ u = reqs[s].arg /\ stage[u] >= 2
          /\ link[t] \in Invitation \cup {None}
  <2>1. reqs[s] # None /\ reqs[s].kind = "login" /\ reqs[s].state = "ok" /\ SessionTypeOK
    BY DEF LoginReply, Answered, SessionInv
  <2>2. reqs[s] \in Request /\ Shape(s)
    BY <2>1 DEF SessionInv, AccountInv, SessionTypeOK
  <2> QED
    BY <2>1, <2>2 DEF Shape, Request, SessionTypeOK
<1>1. /\ stage' = stage /\ joined' = joined /\ exists' = exists /\ gone' = gone /\ invites' = invites
      /\ token' = u /\ selected' = selected /\ writer' = writer
      /\ user' = [user EXCEPT ![t] = u] /\ orgs' = orgs /\ current' = current /\ link' = link
      /\ dialog' = dialog /\ clicks' = clicks
      /\ IF user[t] = None
         THEN /\ Post(Opening(t, u, link[t]), Without(s))
              /\ asked' = [asked EXCEPT ![t] = Asking(u, link[t])]
              /\ skew' = [skew EXCEPT ![t] = \/ Of(t, Changes \cup {"orgs"}) # {}
                                             \/ current[t] # None
                                             \/ link[t] # None]
         ELSE /\ reqs' = Without(s)
              /\ skew' = [skew EXCEPT ![t] = TRUE]
              /\ asked' = asked
  BY <1>0 DEF LoginReply, Answered, setAuth, server
<1>2. \A r \in Slots : \/ reqs'[r] = Without(s)[r]
                       \/ Without(s)[r] = None /\ reqs'[r] # None /\ reqs'[r].tab = t
  <2>1. CASE user[t] = None
    <3>1. Post(Opening(t, u, link[t]), Without(s))
      BY <1>1, <2>1
    <3>2. \A q \in Opening(t, u, link[t]) : q # None /\ q.tab = t
      BY <1>0, OpeningRequests
    <3> QED
      BY <3>1, <3>2, Posted
  <2>2. CASE user[t] # None
    BY <1>1, <2>2
  <2> QED
    BY <2>1, <2>2
<1>3. Calm
  <2>1. CASE user[t] = None
    <3>1. Post(Opening(t, u, link[t]), Without(s))
      BY <1>1, <2>1
    <3>2. \A q \in Opening(t, u, link[t]) : q \in Request /\ Sent(q)
      BY <1>0, OpeningRequests
    <3>3. \A r \in Slots : \/ Without(s)[r] = None
                           \/ Without(s)[r] \in Request /\ Left(reqs[r], Without(s)[r])
      BY <1>0, LeftAlone
    <3> QED
      BY <1>0, <3>1, <3>2, <3>3, PostIsCalm
  <2>2. CASE user[t] # None
    BY <1>0, <1>1, <2>2, DropIsCalm
  <2> QED
    BY <2>1, <2>2
<1>4. SessionTypeOK'
  <2>1. Asking(u, link[t]) \in Users \cup {None}
    BY <1>0 DEF Asking
  <2>2. asked' \in [Tabs -> Users \cup {None}] /\ skew' \in [Tabs -> BOOLEAN]
    BY <1>0, <1>1, <2>1 DEF SessionTypeOK
  <2>3. user' \in [Tabs -> Users \cup {None}] /\ token' \in Users \cup {None}
    BY <1>0, <1>1 DEF SessionTypeOK
  <2> QED
    BY <1>0, <1>1, <1>3, <2>2, <2>3 DEF SessionTypeOK, Calm
<1>5. AccountInv' /\ ServerInv'
  <2>1. UNCHANGED server
    BY <1>1 DEF server
  <2>2. \A v \in Tabs : user'[v] # None => stage[user'[v]] >= 2
    BY <1>0, <1>1 DEF SessionInv, AccountInv, SessionTypeOK
  <2>3. token' # None => stage[token'] >= 2
    BY <1>0, <1>1
  <2> QED
    BY <1>3, <2>1, <2>2, <2>3, CalmKeeps DEF SessionInv
<1>6. ViewInv'
  BY <1>1 DEF SessionInv, ViewInv, HeaderMatchesView, CurrentIsListed, Known
<1>7. ASSUME NEW v \in Tabs, v # t PROVE SyncInv(v)'
  <2>1. \A r \in Slots : (Mine(reqs[r], v) \/ Mine(reqs'[r], v)) => reqs'[r] = reqs[r]
    BY <1>0, <1>2, <1>7, LeftAlone DEF Mine
  <2>2. SyncInv(v) /\ user'[v] = user[v] /\ skew'[v] = skew[v]
    BY <1>0, <1>1, <1>7 DEF SessionInv, SessionTypeOK
  <2> QED
    BY <1>1, <2>1, <2>2, SyncFrame
<1>8. SyncInv(t)'
  <2>1. SUFFICES ASSUME Synced(t)' PROVE SyncInv(t)'
    BY DEF SyncInv
  <2>2. /\ user[t] = None /\ Of(t, Changes \cup {"orgs"}) = {}
        /\ current[t] = None /\ link[t] = None /\ user'[t] = u
    BY <1>0, <1>1, <2>1 DEF Synced, SessionTypeOK
  <2>3. orgs[t] = <<>>
    <3>1. orgs[t] \in Seq(Membership) /\ None \notin Membership
      BY <1>0, NoneAssumption DEF SessionTypeOK
    <3>2. orgs[t] # <<>> => current[t] \in Elems(orgs[t])
      BY <1>0 DEF SessionInv, ViewInv, CurrentIsListed
    <3> QED
      BY <2>2, <3>1, <3>2, OrgsOfElems
  <2>4. Post(Opening(t, u, None), Without(s))
    BY <1>1, <2>2
  <2>5. \A r \in Slots : ~Mine(Without(s)[r], t)
    BY <1>0, <2>2, LeftAlone DEF Mine, Of
  <2> QED
    BY <1>0, <1>1, <2>2, <2>3, <2>4, <2>5, FreshLoad
<1> QED
  BY <1>4, <1>5, <1>6, <1>7, <1>8 DEF SessionInv

\* An answer that a tab awaits: the tab that asked for it is in step
\* afterwards only if it was, and was told of a success under its own user.
LEMMA Resumed ==
    ASSUME SessionInv, NEW s \in Slots, NEW t \in Tabs, reqs[s] # None, reqs[s].tab = t,
           Resume(s), UNCHANGED <<server, clicks>>,
           orgs' \in [Tabs -> Seq(Membership)], current' \in [Tabs -> Membership \cup {None}],
           selected' \in Orgs \cup {None}, writer' \in Tabs \cup {None},
           dialog' \in [Tabs -> SUBSET Invitation],
           \A v \in Tabs : v # t => orgs'[v] = orgs[v] /\ current'[v] = current[v]
    PROVE  /\ SessionTypeOK' /\ AccountInv' /\ ServerInv'
           /\ \A v \in Tabs : v # t => SyncInv(v)'
           /\ Synced(t)' => Synced(t) /\ reqs[s].user = user[t] /\ reqs[s].state = "ok"
           /\ user' = user /\ reqs' = Without(s)
           /\ stage' = stage /\ joined' = joined /\ exists' = exists /\ gone' = gone
<1>0. SessionTypeOK
  BY DEF SessionInv
<1>1. /\ stage' = stage /\ joined' = joined /\ exists' = exists /\ gone' = gone /\ invites' = invites
      /\ token' = token /\ user' = user /\ link' = link /\ asked' = asked /\ clicks' = clicks
      /\ skew' = [skew EXCEPT ![t] = @ \/ reqs[s].user # user[t] \/ reqs[s].state # "ok"]
      /\ reqs' = Without(s) /\ UNCHANGED server
  BY DEF Resume, server
<1>2. Calm
  BY <1>0, <1>1, DropIsCalm
<1>3. SessionTypeOK'
  <2>1. skew' \in [Tabs -> BOOLEAN]
    BY <1>0, <1>1 DEF SessionTypeOK
  <2> QED
    BY <1>0, <1>1, <1>2, <2>1 DEF SessionTypeOK, Calm
<1>4. AccountInv' /\ ServerInv'
  BY <1>1, <1>2, CalmKeeps DEF SessionInv, AccountInv
<1>5. ASSUME NEW v \in Tabs, v # t PROVE SyncInv(v)'
  <2>1. \A r \in Slots : (Mine(reqs[r], v) \/ Mine(reqs'[r], v)) => reqs'[r] = reqs[r]
    BY <1>0, <1>1, <1>5, LeftAlone DEF Mine
  <2>2. SyncInv(v) /\ skew'[v] = skew[v]
    BY <1>0, <1>1, <1>5 DEF SessionInv, SessionTypeOK
  <2> QED
    BY <1>1, <1>5, <2>1, <2>2, SyncFrame
<1>6. Synced(t)' => Synced(t) /\ reqs[s].user = user[t] /\ reqs[s].state = "ok"
  BY <1>0, <1>1 DEF Synced, SessionTypeOK
<1> QED
  BY <1>1, <1>3, <1>4, <1>5, <1>6

LEMMA ErrorInv ==
    ASSUME SessionInv, NEW s \in Slots, ErrorReply(s)
    PROVE  SessionInv'
<1>1. PICK t \in Tabs : reqs[s] # None /\ reqs[s].tab = t
  BY DEF ErrorReply, Failed, SessionInv, SessionTypeOK, Request
<1>2. /\ selected' = selected /\ writer' = writer /\ orgs' = orgs /\ current' = current
      /\ dialog' = dialog /\ Resume(s) /\ UNCHANGED <<server, clicks>>
      /\ reqs[s].state # "ok"
  BY DEF ErrorReply, Failed
<1>3. /\ SessionTypeOK' /\ AccountInv' /\ ServerInv'
      /\ \A v \in Tabs : v # t => SyncInv(v)'
      /\ ~Synced(t)'
      /\ exists' = exists /\ gone' = gone
  <2>1. /\ orgs' \in [Tabs -> Seq(Membership)] /\ current' \in [Tabs -> Membership \cup {None}]
        /\ selected' \in Orgs \cup {None} /\ writer' \in Tabs \cup {None}
        /\ dialog' \in [Tabs -> SUBSET Invitation]
    BY <1>2 DEF SessionInv, SessionTypeOK
  <2> QED
    BY <1>1, <1>2, <2>1, Resumed
<1>4. ViewInv'
  BY <1>2, <1>3 DEF SessionInv, ViewInv, HeaderMatchesView, CurrentIsListed, Known
<1>5. SyncInv(t)'
  BY <1>3 DEF SyncInv
<1> QED
  BY <1>3, <1>4, <1>5 DEF SessionInv

\* A tab shows one of the organizations on its list, and the requests name it.
LEMMA ViewKept ==
    ASSUME SessionInv, NEW t \in Tabs, exists' = exists, gone' = gone,
           \A v \in Tabs : v # t => orgs'[v] = orgs[v] /\ current'[v] = current[v],
           \/ writer' = t /\ (current'[t] # None => selected' = current'[t].org)
           \/ /\ writer' = writer /\ selected' = selected
              /\ \/ current'[t] = current[t] /\ orgs'[t] = <<>>
                 \/ selected = current'[t].org,
           orgs'[t] # <<>> => current'[t] \in Elems(orgs'[t]),
           OrgsOf(orgs'[t]) \subseteq Known
    PROVE  ViewInv'
<1>1. HeaderMatchesView'
  BY DEF SessionInv, ViewInv, HeaderMatchesView
<1>2. CurrentIsListed'
  BY DEF SessionInv, ViewInv, CurrentIsListed
<1>3. \A v \in Tabs : OrgsOf(orgs'[v]) \subseteq Known
  BY DEF SessionInv, ViewInv
<1> QED
  BY <1>1, <1>2, <1>3 DEF ViewInv, Known

\* The list arrives: it is the one the server has.
LEMMA OrgsReplyInv ==
    ASSUME SessionInv, NEW s \in Slots, OrgsReply(s)
    PROVE  SessionInv'
<1>0. SessionTypeOK
  BY DEF SessionInv
<1>1. PICK t \in Tabs, list \in Seq(Membership) :
          /\ reqs[s] # None /\ reqs[s].tab = t /\ reqs[s].kind = "orgs" /\ reqs[s].state = "ok"
          /\ reqs[s].data = list /\ OrgsOf(list) \subseteq Known
          /\ UNCHANGED <<server, clicks>> /\ Resume(s) /\ setOrganizations(t, list) /\ dialog' = dialog
  <2>1. /\ reqs[s] # None /\ reqs[s].kind = "orgs" /\ reqs[s].state = "ok"
        /\ UNCHANGED <<server, clicks>> /\ Resume(s) /\ dialog' = dialog
        /\ setOrganizations(reqs[s].tab, reqs[s].data)
    BY DEF OrgsReply, Answered
  <2>2. reqs[s] \in Request /\ Shape(s)
    BY <2>1 DEF SessionInv, SessionTypeOK, AccountInv
  <2> QED
    BY <2>1, <2>2 DEF Request, Shape
<1> DEFINE matched == {m \in Elems(list) : m.org = selected}
<1>2. /\ orgs' = [orgs EXCEPT ![t] = list]
      /\ \/ \E m \in Elems(list) : /\ m.org = selected /\ current' = [current EXCEPT ![t] = m]
                                   /\ selected' = selected /\ writer' = writer
         \/ \E m \in Elems(list) : /\ current' = [current EXCEPT ![t] = m]
                                   /\ selected' = m.org /\ writer' = t
         \/ list = <<>> /\ current' = current /\ selected' = selected /\ writer' = writer
  <2>1. CASE matched # {}
    <3>1. (CHOOSE m \in matched : TRUE) \in matched
      BY <2>1
    <3> QED
      BY <1>1, <2>1, <3>1 DEF setOrganizations
  <2>2. CASE matched = {} /\ list # <<>>
    <3>1. list[1] \in Elems(list)
      BY <2>2, OrgsOfElems
    <3> QED
      BY <1>1, <2>2, <3>1 DEF setOrganizations, Select
  <2>3. CASE matched = {} /\ list = <<>>
    BY <1>1, <2>3 DEF setOrganizations
  <2> QED
    BY <2>1, <2>2, <2>3
<1>3. \A m \in Elems(list) : m \in Membership /\ m.org \in Orgs
  BY OrgsOfElems DEF Membership
<1>4. /\ \A v \in Tabs : v # t => orgs'[v] = orgs[v] /\ current'[v] = current[v]
      /\ orgs' \in [Tabs -> Seq(Membership)] /\ current' \in [Tabs -> Membership \cup {None}]
      /\ selected' \in Orgs \cup {None} /\ writer' \in Tabs \cup {None}
      /\ orgs'[t] = list
  BY <1>0, <1>2, <1>3 DEF SessionTypeOK
<1>5. /\ SessionTypeOK' /\ AccountInv' /\ ServerInv'
      /\ \A v \in Tabs : v # t => SyncInv(v)'
      /\ Synced(t)' => Synced(t) /\ reqs[s].user = user[t]
      /\ user' = user /\ reqs' = Without(s)
      /\ joined' = joined /\ exists' = exists /\ gone' = gone
  <2>1. dialog' \in [Tabs -> SUBSET Invitation]
    BY <1>0, <1>1 DEF SessionTypeOK
  <2> QED
    BY <1>1, <1>4, <2>1, Resumed
<1>6. /\ current'[t] \in Elems(list) \/ (list = <<>> /\ current'[t] = current[t])
      /\ \/ writer' = t /\ (current'[t] # None => selected' = current'[t].org)
         \/ /\ writer' = writer /\ selected' = selected
            /\ \/ current'[t] = current[t] /\ orgs'[t] = <<>>
               \/ selected = current'[t].org
  BY <1>0, <1>2, <1>4 DEF SessionTypeOK
<1>7. ViewInv'
  BY <1>1, <1>4, <1>5, <1>6, ViewKept
<1>8. SyncInv(t)'
  <2>1. SUFFICES ASSUME Synced(t)' PROVE SyncInv(t)'
    BY DEF SyncInv
  <2>2. s \in Of(t, {"orgs"}) /\ Synced(t) /\ LoadInv(t)
    BY <1>1, <1>5, <2>1 DEF Of, SessionInv, SyncInv
  <2>3. /\ Of(t, {"orgs"}) = {s} /\ Live(t, Changes) = {} /\ current[t] = None
        /\ list = FindAllByUserID(user[t])
    BY <1>1, <2>2 DEF LoadInv
  <2>4. \A r \in Slots : reqs'[r] = IF r = s THEN None ELSE reqs[r]
    BY <1>0, <1>5, LeftAlone
  <2>5. Of(t, {"orgs"})' = {} /\ Live(t, Changes)' = {}
    BY <2>3, <2>4 DEF Of, Live
  <2>6. Live(t, {"accept"})' = {} /\ Live(t, {"delete"})' = {} /\ Done(t, Joins)' = {} /\ Done(t, {"delete"})' = {}
    BY <2>5 DEF Live, Done, Of, Changes, Joins
  <2>7. Coming(t)' = {} /\ Going(t)' = {}
    BY <2>6 DEF Coming, Going
  <2>8. FindAllByUserID(user[t])' = list
    BY <1>5, <2>3 DEF FindAllByUserID
  <2>9. NoneTwice(list)
    <3>1. user[t] \in Users
      BY <1>0, <2>2 DEF Synced, SessionTypeOK
    <3>2. joined[user[t]] \in Seq(Membership) /\ NoneTwice(joined[user[t]])
      BY <1>0, <3>1 DEF SessionInv, ServerInv, SessionTypeOK
    <3> QED
      BY <2>3, <3>2, OnlyKeeps DEF FindAllByUserID
  <2>10. ListInv(t)'
    BY <1>4, <2>6, <2>7, <2>8, <2>9 DEF ListInv
  <2>11. orgs'[t] = <<>> => current'[t] = None
    BY <1>4, <1>6, <2>3, EmptyList
  <2> QED
    BY <2>5, <2>6, <2>10, <2>11 DEF SyncInv, LoadInv
<1> QED
  BY <1>5, <1>7, <1>8 DEF SessionInv

\* An answered change leaves the other requests of a tab in step: no load is
\* in flight, and no other change failed if none fails afterwards.
LEMMA AnswerLeaves ==
    ASSUME SessionTypeOK, NEW t \in Tabs, NEW s \in Slots, SyncInv(t), Synced(t),
           s \in Live(t, Changes), reqs[s].state = "ok", reqs' = Without(s), user' = user
    PROVE  /\ \A r \in Slots : reqs'[r] = IF r = s THEN None ELSE reqs[r]
           /\ Of(t, {"orgs"})' = {} /\ LoadInv(t)'
           /\ Live(t, Changes)' = Live(t, Changes) \ {s}
           /\ Live(t, {"delete"})' = Live(t, {"delete"}) \ {s}
           /\ Live(t, {"accept"})' = {}
           /\ Done(t, Joins)' = Done(t, Joins) \ {s}
           /\ Done(t, {"delete"})' = Done(t, {"delete"}) \ {s}
           /\ \A r \in Live(t, Changes)' : reqs'[r].user = user'[t]
           /\ (\A r \in Live(t, Changes)' : reqs'[r].state # "failed") => ListInv(t)
<1>1. \A r \in Slots : reqs'[r] = IF r = s THEN None ELSE reqs[r]
  BY LeftAlone
<1>2. Of(t, {"orgs"}) = {}
  BY DEF SyncInv, LoadInv
<1>3. /\ Of(t, {"orgs"})' = {}
      /\ Live(t, Changes)' = Live(t, Changes) \ {s}
      /\ Live(t, {"delete"})' = Live(t, {"delete"}) \ {s}
      /\ Live(t, {"accept"})' = Live(t, {"accept"}) \ {s}
      /\ Done(t, Joins)' = Done(t, Joins) \ {s}
      /\ Done(t, {"delete"})' = Done(t, {"delete"}) \ {s}
  BY <1>1, <1>2 DEF Of, Live, Done
<1>4. LoadInv(t)'
  BY <1>3 DEF LoadInv
<1>5. \A r \in Live(t, Changes)' : r \in Live(t, Changes) /\ reqs'[r] = reqs[r]
  BY <1>1, <1>3 DEF Live, Of
<1>6. \A r \in Live(t, Changes) : r = s \/ (r \in Live(t, Changes)' /\ reqs'[r] = reqs[r])
  BY <1>3, <1>5
<1>7. (\A r \in Live(t, Changes)' : reqs'[r].state # "failed") => ListInv(t)
  BY <1>2, <1>6 DEF SyncInv
<1> QED
  BY <1>1, <1>3, <1>4, <1>5, <1>7 DEF SyncInv

\* An organization that was created or joined is added to the list; it was not
\* on it.
LEMMA JoinReplyInv ==
    ASSUME SessionInv, NEW s \in Slots, JoinReply(s)
    PROVE  SessionInv'
<1>0. SessionTypeOK
  BY DEF SessionInv
<1>1. PICK t \in Tabs, m \in Membership :
          /\ reqs[s] # None /\ reqs[s].tab = t /\ reqs[s].kind \in Joins /\ reqs[s].state = "ok"
          /\ reqs[s].live /\ m = reqs[s].data[1] /\ m.org \in Known /\ m.org \in Orgs
          /\ UNCHANGED <<server, clicks>> /\ Resume(s)
          /\ orgs' = [orgs EXCEPT ![t] = Append(orgs[t], m)]
          /\ current' = [current EXCEPT ![t] = m] /\ selected' = m.org /\ writer' = t
          /\ dialog' = dialog \/ dialog' = [dialog EXCEPT ![t] = @ \ {reqs[s].arg}]
  <2>1. /\ reqs[s] # None /\ reqs[s].kind \in Joins /\ reqs[s].state = "ok" /\ reqs[s].live
        /\ UNCHANGED <<server, clicks>> /\ Resume(s)
        /\ addOrg(reqs[s].tab, reqs[s].data[1])
        /\ dialog' = dialog \/ dialog' = [dialog EXCEPT ![reqs[s].tab] = @ \ {reqs[s].arg}]
    BY DEF JoinReply, Answered, Joins
  <2>2. reqs[s] \in Request /\ Shape(s)
    BY <2>1 DEF SessionInv, SessionTypeOK, AccountInv
  <2>3. reqs[s].tab \in Tabs /\ reqs[s].data \in Seq(Membership)
    BY <2>2 DEF Request
  <2>4. reqs[s].data # <<>> /\ OrgsOf(reqs[s].data) \subseteq Known
    BY <2>1, <2>2 DEF Shape
  <2>5. reqs[s].data[1] \in Elems(reqs[s].data)
    BY <2>3, <2>4, OrgsOfElems
  <2>6. reqs[s].data[1] \in Membership /\ reqs[s].data[1].org \in Known /\ reqs[s].data[1].org \in Orgs
    BY <2>3, <2>4, <2>5, OrgsOfElems
  <2> QED
    BY <2>1, <2>3, <2>6 DEF addOrg, Select
<1> DEFINE list == Append(orgs[t], m)
<1>2. /\ list \in Seq(Membership) /\ list # <<>> /\ Elems(list) = Elems(orgs[t]) \cup {m}
      /\ OrgsOf(list) = OrgsOf(orgs[t]) \cup {m.org}
      /\ (NoneTwice(orgs[t]) /\ m.org \notin OrgsOf(orgs[t])) => NoneTwice(list)
  <2>1. orgs[t] \in Seq(Membership)
    BY <1>0 DEF SessionTypeOK
  <2> QED
    BY <2>1, AppendAdds
<1>3. /\ orgs' = [orgs EXCEPT ![t] = list] /\ orgs'[t] = list /\ current'[t] = m
      /\ \A v \in Tabs : v # t => orgs'[v] = orgs[v] /\ current'[v] = current[v]
      /\ orgs' \in [Tabs -> Seq(Membership)] /\ current' \in [Tabs -> Membership \cup {None}]
      /\ selected' \in Orgs \cup {None} /\ writer' \in Tabs \cup {None}
  BY <1>0, <1>1, <1>2 DEF SessionTypeOK
<1> HIDE DEF list
<1>4. /\ SessionTypeOK' /\ AccountInv' /\ ServerInv'
      /\ \A v \in Tabs : v # t => SyncInv(v)'
      /\ Synced(t)' => Synced(t)
      /\ user' = user /\ reqs' = Without(s)
      /\ joined' = joined /\ exists' = exists /\ gone' = gone
  <2>1. dialog' \in [Tabs -> SUBSET Invitation]
    <3>1. dialog \in [Tabs -> SUBSET Invitation]
      BY <1>0 DEF SessionTypeOK
    <3>2. dialog' = dialog \/ dialog' = [dialog EXCEPT ![t] = dialog[t] \ {reqs[s].arg}]
      BY <1>1
    <3> QED
      BY <3>1, <3>2
  <2>2. reqs[s] # None /\ reqs[s].tab = t /\ Resume(s) /\ UNCHANGED <<server, clicks>>
    BY <1>1
  <2>3. /\ orgs' \in [Tabs -> Seq(Membership)] /\ current' \in [Tabs -> Membership \cup {None}]
        /\ selected' \in Orgs \cup {None} /\ writer' \in Tabs \cup {None}
        /\ \A v \in Tabs : v # t => orgs'[v] = orgs[v] /\ current'[v] = current[v]
    BY <1>3
  <2> QED
    BY <2>1, <2>2, <2>3, Resumed
<1>5. ViewInv'
  <2>1. OrgsOf(list) \subseteq Known
    BY <1>1, <1>2 DEF SessionInv, ViewInv
  <2> QED
    BY <1>1, <1>2, <1>3, <1>4, <2>1, ViewKept
<1>6. SyncInv(t)'
  <2>1. SUFFICES ASSUME Synced(t)' PROVE SyncInv(t)'
    BY DEF SyncInv
  <2>2. Synced(t) /\ SyncInv(t)
    BY <1>4, <2>1 DEF SessionInv
  <2>3. s \in Live(t, Changes) /\ s \in Done(t, Joins) /\ s \notin Live(t, {"delete"})
    BY <1>1 DEF Live, Done, Of, Changes, Joins
  <2>4. /\ \A r \in Slots : reqs'[r] = IF r = s THEN None ELSE reqs[r]
        /\ Of(t, {"orgs"})' = {} /\ LoadInv(t)'
        /\ Live(t, {"delete"})' = Live(t, {"delete"})
        /\ Live(t, {"accept"})' = {}
        /\ Done(t, Joins)' = Done(t, Joins) \ {s}
        /\ Done(t, {"delete"})' = Done(t, {"delete"})
        /\ \A r \in Live(t, Changes)' : reqs'[r].user = user'[t]
        /\ (\A r \in Live(t, Changes)' : reqs'[r].state # "failed") => ListInv(t)
    <3>1. reqs[s].state = "ok" /\ reqs' = Without(s) /\ user' = user
      BY <1>1, <1>4
    <3>2. /\ \A r \in Slots : reqs'[r] = IF r = s THEN None ELSE reqs[r]
          /\ Of(t, {"orgs"})' = {} /\ LoadInv(t)'
          /\ Live(t, {"delete"})' = Live(t, {"delete"}) \ {s}
          /\ Live(t, {"accept"})' = {}
          /\ Done(t, Joins)' = Done(t, Joins) \ {s}
          /\ Done(t, {"delete"})' = Done(t, {"delete"}) \ {s}
          /\ \A r \in Live(t, Changes)' : reqs'[r].user = user'[t]
          /\ (\A r \in Live(t, Changes)' : reqs'[r].state # "failed") => ListInv(t)
      BY <1>0, <2>2, <2>3, <3>1, AnswerLeaves
    <3>3. s \notin Done(t, {"delete"})
      BY <2>3 DEF Done
    <3> QED
      BY <2>3, <3>2, <3>3
  <2>5. ASSUME ListInv(t) PROVE ListInv(t)'
    <3>1. /\ \A r \in Done(t, Joins) : r \in Slots /\ (r # s => reqs'[r] = reqs[r])
          /\ \A r \in Done(t, {"delete"}) : reqs'[r] = reqs[r]
          /\ \A r \in Live(t, {"delete"}) : reqs'[r] = reqs[r]
      BY <2>3, <2>4 DEF Done, Live, Of
    <3>2. Going(t)' = Going(t)
      BY <2>4, <3>1 DEF Going
    <3>3. Coming(t) = Coming(t)' \cup {m}
      <4>1. Coming(t)' = {reqs[r].data[1] : r \in Done(t, Joins) \ {s}}
        BY <2>4, <3>1 DEF Coming
      <4>2. m = reqs[s].data[1] /\ s \in Done(t, Joins)
        BY <1>1, <2>3
      <4> QED
        BY <4>1, <4>2 DEF Coming
    <3>4. FindAllByUserID(user[t])' = FindAllByUserID(user[t])
      BY <1>4 DEF FindAllByUserID
    <3>5. Elems(FindAllByUserID(user[t])) = {x \in Elems(list) \cup Coming(t)' : x.org \notin Going(t)}
      BY <1>2, <2>5, <3>3 DEF ListInv
    <3>6. NoneTwice(list)
      BY <1>1, <1>2, <2>3, <2>5 DEF ListInv
    <3>7. ASSUME NEW r \in Done(t, Joins) \ {s}
          PROVE  /\ reqs'[r].data[1].org \notin OrgsOf(list)
                 /\ \A x \in Done(t, Joins) \ {s} : reqs'[x].data[1].org = reqs'[r].data[1].org => x = r
                 /\ \A x \in Live(t, {"delete"}) : reqs'[x].arg # reqs'[r].data[1].org
      BY <1>1, <1>2, <2>3, <2>5, <3>1 DEF ListInv
    <3>8. \A r \in Live(t, {"delete"}) : reqs'[r].arg \in OrgsOf(list) \cup gone
      BY <1>2, <2>5, <3>1 DEF ListInv
    <3>9. Going(t) \subseteq gone
      BY <2>5 DEF ListInv
    <3> QED
      BY <1>3, <1>4, <2>4, <3>2, <3>4, <3>5, <3>6, <3>7, <3>8, <3>9 DEF ListInv
  <2> QED
    BY <1>2, <1>3, <2>4, <2>5 DEF SyncInv
<1> QED
  BY <1>4, <1>5, <1>6 DEF SessionInv

\* An organization that was deleted is taken from the list.
LEMMA DeleteReplyInv ==
    ASSUME SessionInv, NEW s \in Slots, DeleteReply(s)
    PROVE  SessionInv'
<1>0. SessionTypeOK
  BY DEF SessionInv
<1>1. PICK t \in Tabs, o \in Orgs :
          /\ reqs[s] # None /\ reqs[s].tab = t /\ reqs[s].kind = "delete" /\ reqs[s].state = "ok"
          /\ reqs[s].live /\ o = reqs[s].arg
          /\ UNCHANGED <<server, clicks>> /\ Resume(s) /\ removeOrg(t, o) /\ dialog' = dialog
  <2>1. /\ reqs[s] # None /\ reqs[s].kind = "delete" /\ reqs[s].state = "ok" /\ reqs[s].live
        /\ UNCHANGED <<server, clicks>> /\ Resume(s)
        /\ removeOrg(reqs[s].tab, reqs[s].arg) /\ dialog' = dialog
    BY DEF DeleteReply, Answered
  <2>2. reqs[s] \in Request /\ Shape(s)
    BY <2>1 DEF SessionInv, SessionTypeOK, AccountInv
  <2> QED
    BY <2>1, <2>2 DEF Request, Shape
<1> DEFINE list == Only(orgs[t], Orgs \ {o})
           first == IF list = <<>> THEN None ELSE list[1]
<1>2. /\ orgs[t] \in Seq(Membership) /\ list \in Seq(Membership)
      /\ Elems(list) = {m \in Elems(orgs[t]) : m.org # o}
      /\ NoneTwice(orgs[t]) => NoneTwice(list)
  <2>1. orgs[t] \in Seq(Membership)
    BY <1>0 DEF SessionTypeOK
  <2>2. \A m \in Elems(orgs[t]) : m.org \in Orgs
    BY <2>1, OrgsOfElems DEF Membership
  <2> QED
    BY <2>1, <2>2, OnlyKeeps
<1>3. OrgsOf(list) = OrgsOf(orgs[t]) \ {o}
  <2> HIDE DEF list
  <2>1. OrgsOf(list) = {m.org : m \in Elems(list)} /\ OrgsOf(orgs[t]) = {m.org : m \in Elems(orgs[t])}
    BY <1>2, OrgsOfElems
  <2> QED
    BY <1>2, <2>1
<1>4. /\ orgs' = [orgs EXCEPT ![t] = list] /\ current' = [current EXCEPT ![t] = first]
      /\ selected' = (IF first = None THEN None ELSE first.org) /\ writer' = t
  BY <1>1 DEF removeOrg, Select
<1> HIDE DEF list
<1>5. IF list = <<>> THEN first = None ELSE first \in Elems(list) /\ first \in Membership /\ first.org \in Orgs
  BY <1>2, OrgsOfElems DEF Membership
<1> HIDE DEF first
<1>6. /\ orgs'[t] = list /\ current'[t] = first
      /\ \A v \in Tabs : v # t => orgs'[v] = orgs[v] /\ current'[v] = current[v]
      /\ orgs' \in [Tabs -> Seq(Membership)] /\ current' \in [Tabs -> Membership \cup {None}]
      /\ selected' \in Orgs \cup {None} /\ writer' \in Tabs \cup {None}
  BY <1>0, <1>2, <1>4, <1>5 DEF SessionTypeOK
<1>7. /\ SessionTypeOK' /\ AccountInv' /\ ServerInv'
      /\ \A v \in Tabs : v # t => SyncInv(v)'
      /\ Synced(t)' => Synced(t)
      /\ user' = user /\ reqs' = Without(s)
      /\ joined' = joined /\ exists' = exists /\ gone' = gone
  <2>1. dialog' \in [Tabs -> SUBSET Invitation]
    BY <1>0, <1>1 DEF SessionTypeOK
  <2> QED
    BY <1>1, <1>6, <2>1, Resumed
<1>8. ViewInv'
  <2>1. OrgsOf(list) \subseteq Known
    BY <1>3 DEF SessionInv, ViewInv
  <2> QED
    BY <1>4, <1>5, <1>6, <1>7, <2>1, ViewKept
<1>9. SyncInv(t)'
  <2>1. SUFFICES ASSUME Synced(t)' PROVE SyncInv(t)'
    BY DEF SyncInv
  <2>2. Synced(t) /\ SyncInv(t)
    BY <1>7, <2>1 DEF SessionInv
  <2>3. s \in Live(t, Changes) /\ s \in Done(t, {"delete"}) /\ s \notin Done(t, Joins) /\ s \in Live(t, {"delete"})
    BY <1>1 DEF Live, Done, Of, Changes, Joins
  <2>4. /\ \A r \in Slots : reqs'[r] = IF r = s THEN None ELSE reqs[r]
        /\ Of(t, {"orgs"})' = {} /\ LoadInv(t)'
        /\ Live(t, {"delete"})' = Live(t, {"delete"}) \ {s}
        /\ Live(t, {"accept"})' = {}
        /\ Done(t, Joins)' = Done(t, Joins)
        /\ Done(t, {"delete"})' = Done(t, {"delete"}) \ {s}
        /\ \A r \in Live(t, Changes)' : reqs'[r].user = user'[t]
        /\ (\A r \in Live(t, Changes)' : reqs'[r].state # "failed") => ListInv(t)
    <3>1. reqs[s].state = "ok" /\ reqs' = Without(s) /\ user' = user
      BY <1>1, <1>7
    <3>2. /\ \A r \in Slots : reqs'[r] = IF r = s THEN None ELSE reqs[r]
          /\ Of(t, {"orgs"})' = {} /\ LoadInv(t)'
          /\ Live(t, {"delete"})' = Live(t, {"delete"}) \ {s}
          /\ Live(t, {"accept"})' = {}
          /\ Done(t, Joins)' = Done(t, Joins) \ {s}
          /\ Done(t, {"delete"})' = Done(t, {"delete"}) \ {s}
          /\ \A r \in Live(t, Changes)' : reqs'[r].user = user'[t]
          /\ (\A r \in Live(t, Changes)' : reqs'[r].state # "failed") => ListInv(t)
      BY <1>0, <2>2, <2>3, <3>1, AnswerLeaves
    <3> QED
      BY <2>3, <3>2
  <2>5. ASSUME ListInv(t) PROVE ListInv(t)'
    <3>1. /\ \A r \in Done(t, Joins) : reqs'[r] = reqs[r]
          /\ \A r \in Done(t, {"delete"}) : r # s => reqs'[r] = reqs[r]
          /\ \A r \in Live(t, {"delete"}) : r # s => reqs'[r] = reqs[r]
      BY <2>3, <2>4 DEF Done, Live, Of
    <3>2. Coming(t)' = Coming(t)
      BY <2>4, <3>1 DEF Coming
    <3>3. Going(t) = Going(t)' \cup {o}
      <4>1. Going(t)' = {reqs[r].arg : r \in Done(t, {"delete"}) \ {s}}
        BY <2>4, <3>1 DEF Going
      <4> QED
        BY <1>1, <2>3, <4>1 DEF Going
    <3>4. FindAllByUserID(user[t])' = FindAllByUserID(user[t])
      BY <1>7 DEF FindAllByUserID
    <3>5. \A m \in Coming(t) : m.org # o
      BY <1>1, <2>3, <2>5 DEF ListInv, Coming
    <3>6. Elems(FindAllByUserID(user[t])) = {x \in Elems(list) \cup Coming(t) : x.org \notin Going(t)'}
      <4>1. {x \in Elems(list) \cup Coming(t) : x.org \notin Going(t)'}
              = {x \in Elems(orgs[t]) \cup Coming(t) : x.org \notin Going(t)}
        BY <1>2, <3>3, <3>5
      <4> QED
        BY <2>5, <4>1 DEF ListInv
    <3>7. NoneTwice(list)
      BY <1>2, <2>5 DEF ListInv
    <3>8. ASSUME NEW r \in Done(t, Joins)
          PROVE  /\ reqs'[r].data[1].org \notin OrgsOf(list)
                 /\ \A x \in Done(t, Joins) : reqs'[x].data[1].org = reqs'[r].data[1].org => x = r
                 /\ \A x \in Live(t, {"delete"}) \ {s} : reqs'[x].arg # reqs'[r].data[1].org
      BY <1>3, <2>5, <3>1 DEF ListInv
    <3>9. Going(t) \subseteq gone
      BY <2>5 DEF ListInv
    <3>10. \A r \in Live(t, {"delete"}) \ {s} : reqs'[r].arg \in OrgsOf(list) \cup gone
      BY <1>3, <2>5, <3>1, <3>3, <3>9 DEF ListInv
    <3> QED
      BY <1>6, <1>7, <2>4, <3>2, <3>3, <3>4, <3>6, <3>7, <3>8, <3>9, <3>10 DEF ListInv
  <2> QED
    BY <1>5, <1>6, <2>4, <2>5 DEF SyncInv
<1> QED
  BY <1>7, <1>8, <1>9 DEF SessionInv

-----------------------------------------------------------------------------
(* The steps of the server.                                                *)

LEMMA OnlySame ==
    ASSUME NEW list, NEW some, NEW others,
           \A i \in 1..Len(list) : list[i].org \in some <=> list[i].org \in others
    PROVE  Only(list, some) = Only(list, others)
<1> DEFINE kept(these) == {i \in 1..Len(list) : list[i].org \in these}
           pick(at) == [k \in 1..Cardinality(at) |->
                           list[CHOOSE i \in at : Cardinality({j \in at : j <= i}) = k]]
<1>1. Only(list, some) = pick(kept(some)) /\ Only(list, others) = pick(kept(others))
  BY DEF Only
<1>2. kept(some) = kept(others)
  OBVIOUS
<1> HIDE DEF kept, pick
<1> QED
  BY <1>1, <1>2

\* What the server has of a user.
LEMMA MemberOf ==
    ASSUME SessionTypeOK, NEW u \in Users
    PROVE  /\ joined[u] \in Seq(Membership)
           /\ FindAllByUserID(u) \in Seq(Membership)
           /\ Elems(FindAllByUserID(u)) = {m \in Elems(joined[u]) : m.org \in exists}
           /\ \A o : IsMember(u, o) <=> (o \in exists /\ o \in OrgsOf(joined[u]))
           /\ \A o : IsAdmin(u, o) => (o \in exists /\ o \in OrgsOf(joined[u]))
<1>1. joined[u] \in Seq(Membership)
  BY DEF SessionTypeOK
<1>2. /\ FindAllByUserID(u) \in Seq(Membership)
      /\ Elems(FindAllByUserID(u)) = {m \in Elems(joined[u]) : m.org \in exists}
  BY <1>1, OnlyKeeps DEF FindAllByUserID
<1>3. OrgsOf(joined[u]) = {m.org : m \in Elems(joined[u])}
  BY <1>1, OrgsOfElems
<1>4. \A o : IsMember(u, o) <=> (o \in exists /\ o \in OrgsOf(joined[u]))
  BY <1>2, <1>3 DEF IsMember
<1>5. ASSUME NEW o, IsAdmin(u, o) PROVE o \in exists /\ o \in OrgsOf(joined[u])
  <2>1. [org |-> o, role |-> "admin"] \in {m \in Elems(joined[u]) : m.org \in exists}
    BY <1>2, <1>5 DEF IsAdmin
  <2>2. [org |-> o, role |-> "admin"].org = o
    OBVIOUS
  <2> QED
    BY <1>3, <2>1, <2>2
<1> QED
  BY <1>1, <1>2, <1>4, <1>5

\* The server works on the request s, and on no other.
Tended(s, out, data) ==
    /\ reqs' \in [Slots -> Request \cup {None}]
    /\ reqs[s] # None /\ reqs'[s] # None
    /\ reqs'[s].tab = reqs[s].tab /\ reqs'[s].kind = reqs[s].kind /\ reqs'[s].user = reqs[s].user
    /\ reqs'[s].arg = reqs[s].arg /\ reqs'[s].live = reqs[s].live
    /\ reqs'[s].state = out /\ reqs'[s].data = data
    /\ \A r \in Slots : r # s => reqs'[r] = reqs[r]

LEMMA TendedAll ==
    ASSUME SessionTypeOK, NEW s \in Slots, reqs[s] # None,
           NEW out \in {"running", "ok", "failed"}, NEW data \in Seq(Membership),
           reqs' = [reqs EXCEPT ![s].state = out, ![s].data = data]
    PROVE  Tended(s, out, data)
<1> DEFINE q == [reqs[s] EXCEPT !.state = out, !.data = data]
<1>1. reqs \in [Slots -> Request \cup {None}] /\ reqs[s] \in Request
  BY DEF SessionTypeOK
<1>2. /\ q \in Request
      /\ q.tab = reqs[s].tab /\ q.kind = reqs[s].kind /\ q.user = reqs[s].user
      /\ q.arg = reqs[s].arg /\ q.state = out /\ q.data = data /\ q.live = reqs[s].live
  BY <1>1 DEF Request
<1>3. reqs' = [reqs EXCEPT ![s] = q]
  BY <1>1
<1> HIDE DEF q
<1> QED
  BY <1>1, <1>2, <1>3, NoneAssumption DEF Tended

LEMMA TendedState ==
    ASSUME SessionTypeOK, NEW s \in Slots, reqs[s] # None,
           NEW out \in {"running", "ok", "failed"},
           reqs' = [reqs EXCEPT ![s].state = out]
    PROVE  Tended(s, out, reqs[s].data) /\ reqs[s].data \in Seq(Membership)
<1> DEFINE q == [reqs[s] EXCEPT !.state = out]
<1>1. reqs \in [Slots -> Request \cup {None}] /\ reqs[s] \in Request
  BY DEF SessionTypeOK
<1>2. /\ q \in Request
      /\ q.tab = reqs[s].tab /\ q.kind = reqs[s].kind /\ q.user = reqs[s].user
      /\ q.arg = reqs[s].arg /\ q.state = out /\ q.data = reqs[s].data /\ q.live = reqs[s].live
      /\ reqs[s].data \in Seq(Membership)
  BY <1>1 DEF Request
<1>3. reqs' = [reqs EXCEPT ![s] = q]
  BY <1>1
<1> HIDE DEF q
<1> QED
  BY <1>1, <1>2, <1>3, NoneAssumption DEF Tended

\* The accounts, when the server works on s: what is known only grows.
LEMMA AccountServed ==
    ASSUME SessionInv, NEW s \in Slots, NEW out, NEW data, Tended(s, out, data),
           stage' \in [Users -> 0..4], token' = token, user' = user, Known \subseteq Known',
           \A u \in Users : stage'[u] >= stage[u] /\ OrgsOf(joined[u]) \subseteq OrgsOf(joined'[u]),
           \A r \in Slots : r # s /\ Running(r) => stage'[reqs[r].arg] = stage[reqs[r].arg],
           Shape(s)',
           out = "running" => \A r \in Slots : r # s /\ Running(r) => reqs[r].arg # reqs[s].arg
    PROVE  AccountInv'
<1>0. SessionTypeOK /\ AccountInv
  BY DEF SessionInv
<1>a. \A u \in Users : stage[u] >= 2 => stage'[u] >= 2
  <2> SUFFICES ASSUME NEW u \in Users, stage[u] >= 2 PROVE stage'[u] >= 2
    OBVIOUS
  <2>1. stage'[u] >= stage[u]
    OBVIOUS
  <2>2. stage[u] \in 0..4
    BY <1>0 DEF SessionTypeOK
  <2>3. stage'[u] \in 0..4
    OBVIOUS
  <2> QED
    BY <2>1, <2>2, <2>3
<1>1. ASSUME NEW r \in Slots, reqs'[r] # None PROVE Shape(r)'
  <2>1. CASE r = s
    BY <2>1
  <2>2. CASE r # s
    <3>1. reqs'[r] = reqs[r] /\ reqs[r] # None
      BY <1>1, <2>2 DEF Tended
    <3>2. Shape(r)
      BY <1>0, <3>1 DEF AccountInv
    <3>3. reqs[r].state = "running" => reqs[r].kind = "register" /\ stage'[reqs[r].arg] \in 1..3
      BY <2>2, <3>1, <3>2 DEF Shape, Running
    <3>4. (reqs[r].kind = "login" /\ reqs[r].state = "ok") => stage'[reqs[r].arg] >= 2
      <4>1. SUFFICES ASSUME reqs[r].kind = "login", reqs[r].state = "ok" PROVE stage'[reqs[r].arg] >= 2
        OBVIOUS
      <4>2. PICK u \in Users : reqs[r].arg = u /\ stage[u] >= 2
        BY <3>2, <4>1 DEF Shape
      <4> QED
        BY <1>a, <4>2
    <3>5. (reqs[r].kind = "register" /\ reqs[r].state = "ok")
             => Workspace[reqs[r].arg] \in OrgsOf(joined'[reqs[r].arg])
      BY <3>2 DEF Shape
    <3>6. OrgsOf(reqs[r].data) \subseteq Known'
      BY <3>2 DEF Shape
    <3> QED
      BY <3>1, <3>2, <3>3, <3>4, <3>5, <3>6 DEF Shape
  <2> QED
    BY <2>1, <2>2
<1>2. \A r \in Slots : Running(r)' => \/ r # s /\ Running(r) /\ reqs'[r] = reqs[r]
                                      \/ r = s /\ out = "running" /\ reqs'[s].arg = reqs[s].arg
  BY DEF Running, Tended
<1>3. \A q, r \in Slots : Running(q)' /\ Running(r)' /\ reqs'[q].arg = reqs'[r].arg => q = r
  BY <1>0, <1>2 DEF AccountInv
<1>5. token \in Users \cup {None} /\ \A t \in Tabs : user[t] \in Users \cup {None}
  BY <1>0 DEF SessionTypeOK
<1> QED
  BY <1>0, <1>a, <1>1, <1>3, <1>5 DEF AccountInv

\* Which requests of a tab are awaited does not depend on the server's work.
LEMMA AskedServed ==
    ASSUME NEW t \in Tabs, NEW s \in Slots, NEW out, NEW data, Tended(s, out, data),
           SyncInv(t), Synced(t), s \in Live(t, Changes), user'[t] = user[t]
    PROVE  /\ Of(t, {"orgs"}) = {} /\ Of(t, {"orgs"})' = {} /\ LoadInv(t)'
           /\ Live(t, Changes)' = Live(t, Changes)
           /\ Live(t, {"delete"})' = Live(t, {"delete"})
           /\ Live(t, {"accept"})' = {}
           /\ \A r \in Live(t, Changes)' : reqs'[r].user = user'[t]
<1>1. Of(t, {"orgs"}) = {}
  BY DEF SyncInv, LoadInv
<1>2. /\ Of(t, {"orgs"})' = Of(t, {"orgs"})
      /\ Live(t, Changes)' = Live(t, Changes)
      /\ Live(t, {"delete"})' = Live(t, {"delete"})
      /\ Live(t, {"accept"})' = Live(t, {"accept"})
  BY DEF Tended, Of, Live
<1>3. \A r \in Live(t, Changes) : r \in Slots /\ reqs[r].user = user[t]
  BY DEF SyncInv, Live, Of
<1>4. \A r \in Live(t, Changes) : reqs'[r].user = user[t]
  BY <1>3 DEF Tended
<1> QED
  BY <1>1, <1>2, <1>4 DEF SyncInv, LoadInv

\* The server works on s and no list changes.
LEMMA SyncServed ==
    ASSUME SessionInv, NEW t \in Tabs, NEW s \in Slots, NEW out, NEW data, Tended(s, out, data),
           user' = user, orgs' = orgs, current' = current, skew' = skew, gone' = gone,
           \A u \in Users : Only(joined'[u], exists') = Only(joined[u], exists),
           \/ reqs[s].kind \in {"login", "register"}
           \/ reqs[s].kind = "orgs" /\ out = "ok" /\ data = FindAllByUserID(reqs[s].user)
           \/ reqs[s].kind \in Changes /\ out = "failed"
    PROVE  SyncInv(t)'
<1>1. SUFFICES ASSUME Synced(t)' PROVE SyncInv(t)'
  BY DEF SyncInv
<1>2. Synced(t) /\ SyncInv(t) /\ user[t] \in Users
  BY <1>1 DEF Synced, SessionInv, SessionTypeOK
<1>3. CASE ~Mine(reqs[s], t)
  <2>1. \A r \in Slots : (Mine(reqs[r], t) \/ Mine(reqs'[r], t)) => reqs'[r] = reqs[r]
    BY <1>3 DEF Tended, Mine
  <2> QED
    BY <1>2, <2>1, SyncFrame
<1>4. CASE Mine(reqs[s], t) /\ reqs[s].kind = "orgs"
  <2>1. s \in Of(t, {"orgs"})
    BY <1>4 DEF Mine, Of
  <2>2. /\ Of(t, {"orgs"}) = {s} /\ Live(t, Changes) = {} /\ reqs[s].user = user[t]
        /\ orgs[t] = <<>> /\ current[t] = None
    BY <1>2, <2>1 DEF SyncInv, LoadInv
  <2>3. Of(t, {"orgs"})' = {s} /\ Live(t, Changes)' = {}
    BY <2>2 DEF Tended, Of, Live
  <2>4. Live(t, {"accept"})' = {}
    BY <2>3 DEF Live, Of, Changes
  <2>5. FindAllByUserID(user[t])' = FindAllByUserID(user[t])
    BY <1>2 DEF FindAllByUserID
  <2>6. reqs'[s].data = FindAllByUserID(user[t]) /\ reqs'[s].user = user[t]
    BY <1>4, <2>2 DEF Tended, Changes
  <2> QED
    BY <2>2, <2>3, <2>4, <2>5, <2>6 DEF SyncInv, LoadInv
<1>5. CASE Mine(reqs[s], t) /\ reqs[s].kind # "orgs"
  <2>1. s \in Live(t, Changes) /\ out = "failed"
    BY <1>5 DEF Mine, Live, Of, Changes
  <2>2. /\ LoadInv(t)' /\ Live(t, Changes)' = Live(t, Changes) /\ Live(t, {"accept"})' = {}
        /\ \A r \in Live(t, Changes)' : reqs'[r].user = user'[t]
    BY <1>2, <2>1, AskedServed
  <2>3. s \in Live(t, Changes)' /\ reqs'[s].state = "failed"
    BY <2>1, <2>2 DEF Tended
  <2> QED
    BY <1>2, <2>2, <2>3 DEF SyncInv
<1> QED
  BY <1>3, <1>4, <1>5

\* The accounts, when the server works on a request other than a registration.
LEMMA StageKept ==
    ASSUME SessionTypeOK, stage' = stage
    PROVE  stage' \in [Users -> 0..4] /\ \A u \in Users : stage'[u] >= stage[u]
<1>1. \A u \in Users : stage[u] \in 0..4
  BY DEF SessionTypeOK
<1>2. \A n \in 0..4 : n >= n
  OBVIOUS
<1> QED
  BY <1>1, <1>2 DEF SessionTypeOK

\* No registration comes or goes while the server works on another request.
LEMMA FoundingServed ==
    ASSUME SessionInv, NEW s \in Slots, NEW out \in {"ok", "failed"}, NEW data,
           Tended(s, out, data), stage' = stage
    PROVE  /\ \A r \in Slots : Running(r)' => Running(r) /\ r # s /\ reqs'[r] = reqs[r]
           /\ \A r \in Slots : Founding(r)' => Founding(r) /\ r # s /\ reqs'[r] = reqs[r]
<1>1. \A r \in Slots : Running(r)' => Running(r) /\ r # s /\ reqs'[r] = reqs[r]
  BY DEF Running, Tended
<1> QED
  BY <1>1 DEF Founding

\* Serving a login or the list.
LEMMA ReadInv ==
    ASSUME SessionInv, NEW s \in Slots, Login(s) \/ ListOrgs(s)
    PROVE  SessionInv'
<1>0. SessionTypeOK /\ reqs[s] # None /\ reqs[s] \in Request /\ Shape(s)
  BY DEF Login, ListOrgs, Handling, SessionInv, SessionTypeOK, AccountInv
<1>1. /\ stage' = stage /\ joined' = joined /\ exists' = exists /\ gone' = gone /\ invites' = invites
      /\ token' = token /\ selected' = selected /\ writer' = writer
      /\ user' = user /\ orgs' = orgs /\ current' = current /\ link' = link
      /\ dialog' = dialog /\ asked' = asked /\ skew' = skew /\ clicks' = clicks
  BY DEF Login, ListOrgs, Handling, server, storage
<1>2. PICK out \in {"ok", "failed"}, data \in Seq(Membership) :
          /\ Tended(s, out, data) /\ OrgsOf(data) \subseteq Known
          /\ \/ reqs[s].kind = "login" /\ stage[reqs[s].arg] >= 2
             \/ reqs[s].kind = "orgs" /\ out = "ok" /\ data = FindAllByUserID(reqs[s].user)
  <2>1. CASE Login(s)
    <3>1. PICK out \in {"ok", "failed"} : reqs' = [reqs EXCEPT ![s].state = out, ![s].data = <<>>]
      BY <2>1 DEF Login, Answer
    <3>2. Tended(s, out, <<>>)
      BY <1>0, <3>1, EmptyList, TendedAll
    <3>3. reqs[s].kind = "login" /\ stage[reqs[s].arg] >= 2
      BY <2>1 DEF Login, Handling
    <3> QED
      BY <3>2, <3>3, EmptyList
  <2>2. CASE ListOrgs(s)
    <3> DEFINE list == FindAllByUserID(reqs[s].user)
    <3>1. /\ reqs' = [reqs EXCEPT ![s].state = "ok", ![s].data = list]
          /\ reqs[s].kind = "orgs" /\ reqs[s].user # None
      BY <2>2 DEF ListOrgs, Handling
    <3>2. PICK u \in Users : reqs[s].user = u
      BY <1>0, <3>1 DEF Request
    <3>3. /\ list \in Seq(Membership) /\ joined[u] \in Seq(Membership)
          /\ Elems(list) \subseteq Elems(joined[u])
      BY <1>0, <3>2, MemberOf
    <3> HIDE DEF list
    <3>4. Tended(s, "ok", list)
      BY <1>0, <3>1, <3>3, TendedAll
    <3>5. OrgsOf(list) \subseteq OrgsOf(joined[u])
      BY <3>3, OrgsOfElems
    <3>6. OrgsOf(list) \subseteq Known
      BY <3>5 DEF SessionInv, ServerInv
    <3> QED
      BY <3>1, <3>3, <3>4, <3>6 DEF list
  <2> QED
    BY <2>1, <2>2
<1>3. SessionTypeOK'
  BY <1>0, <1>1, <1>2 DEF SessionTypeOK, Tended
<1>4. AccountInv'
  <2>1. Shape(s)'
    BY <1>0, <1>1, <1>2 DEF Shape, Tended, Known, Joins
  <2>2. /\ \A u \in Users : stage'[u] >= stage[u] /\ OrgsOf(joined[u]) \subseteq OrgsOf(joined'[u])
        /\ stage' \in [Users -> 0..4]
    BY <1>0, <1>1, StageKept
  <2>3. Known \subseteq Known'
    BY <1>1 DEF Known
  <2> QED
    BY <1>1, <1>2, <2>1, <2>2, <2>3, AccountServed
<1>5. ServerInv'
  <2>1. \A r \in Slots : Founding(r)' => Founding(r) /\ reqs'[r] = reqs[r]
    BY <1>1, <1>2, FoundingServed
  <2> QED
    BY <1>1, <2>1 DEF SessionInv, ServerInv, FoundingInv, Barren, Known
<1>6. ViewInv'
  BY <1>1 DEF SessionInv, ViewInv, HeaderMatchesView, CurrentIsListed, Known
<1>7. \A t \in Tabs : SyncInv(t)'
  BY <1>1, <1>2, SyncServed
<1> QED
  BY <1>3, <1>4, <1>5, <1>6, <1>7 DEF SessionInv

\* A user is given a membership: the tab that asked for it will hear of it, and
\* its list does not have it; the other tabs are out of step.
LEMMA GrantSync ==
    ASSUME SessionInv, NEW s \in Slots, NEW out \in {"ok", "failed"}, NEW m \in Membership,
           NEW u \in Users, Tended(s, out, <<m>>), Changed(s),
           reqs[s].kind \in Joins, reqs[s].state = "sent", reqs[s].user = u,
           user' = user, orgs' = orgs, current' = current, gone' = gone,
           joined' = [joined EXCEPT ![u] = Append(joined[u], m)],
           exists \subseteq exists', exists' \subseteq exists \cup {m.org},
           m.org \in exists', m.org \notin gone, m.org \notin OrgsOf(joined[u]),
           NEW t \in Tabs
    PROVE  SyncInv(t)'
<1>0. SessionTypeOK
  BY DEF SessionInv
<1>1. SUFFICES ASSUME Synced(t)' PROVE SyncInv(t)'
  BY DEF SyncInv
<1>2. Synced(t) /\ reqs[s].tab = t /\ reqs[s].live
  BY <1>1 DEF Synced, Changed
<1>3. SyncInv(t) /\ s \in Live(t, Changes) /\ s \notin Done(t, Joins)
  BY <1>2 DEF SessionInv, Tended, Live, Of, Done, Changes, Joins
<1>4. /\ Of(t, {"orgs"}) = {} /\ LoadInv(t)'
      /\ Live(t, Changes)' = Live(t, Changes)
      /\ Live(t, {"delete"})' = Live(t, {"delete"})
      /\ Live(t, {"accept"})' = {}
      /\ \A r \in Live(t, Changes)' : reqs'[r].user = user'[t]
  BY <1>2, <1>3, AskedServed
<1>5. user[t] = u
  BY <1>2, <1>3 DEF SyncInv
<1>6. SUFFICES ASSUME \A r \in Live(t, Changes)' : reqs'[r].state # "failed" PROVE ListInv(t)'
  BY <1>2, <1>3, <1>4 DEF SyncInv
<1>7. out = "ok"
  BY <1>3, <1>4, <1>6 DEF Tended
<1>8. ListInv(t)
  <2>1. \A r \in Live(t, Changes) : reqs[r].state # "failed"
    <3>1. \A r \in Live(t, Changes) : r \in Slots
      BY DEF Live, Of
    <3> QED
      BY <1>4, <1>6, <3>1 DEF Tended
  <2> QED
    BY <1>2, <1>3, <1>4, <2>1 DEF SyncInv
<1>9. /\ joined[u] \in Seq(Membership)
      /\ Elems(FindAllByUserID(u)) = {x \in Elems(joined[u]) : x.org \in exists}
      /\ OrgsOf(joined[u]) = {x.org : x \in Elems(joined[u])}
  BY <1>0, MemberOf, OrgsOfElems
<1>10. Elems(FindAllByUserID(u)') = Elems(FindAllByUserID(u)) \cup {m}
  <2>1. /\ Append(joined[u], m) \in Seq(Membership)
        /\ Elems(Append(joined[u], m)) = Elems(joined[u]) \cup {m}
    BY <1>9, AppendAdds
  <2>2. joined'[u] = Append(joined[u], m)
    BY <1>0 DEF SessionTypeOK
  <2>3. Elems(FindAllByUserID(u)') = {x \in Elems(joined[u]) \cup {m} : x.org \in exists'}
    <3>1. FindAllByUserID(u)' = Only(Append(joined[u], m), exists')
      BY <2>2 DEF FindAllByUserID
    <3> QED
      BY <2>1, <3>1, OnlyKeeps
  <2>4. \A x \in Elems(joined[u]) : x.org \in exists' <=> x.org \in exists
    BY <1>9
  <2> QED
    BY <1>9, <2>3, <2>4
<1>11. /\ Done(t, Joins)' = Done(t, Joins) \cup {s}
       /\ Done(t, {"delete"})' = Done(t, {"delete"})
       /\ \A r \in Done(t, Joins) : reqs'[r] = reqs[r]
       /\ \A r \in Done(t, {"delete"}) : reqs'[r] = reqs[r]
       /\ \A r \in Live(t, {"delete"}) : reqs'[r] = reqs[r]
  <2>1. /\ \A r \in Done(t, Joins) : r \in Slots /\ r # s
        /\ \A r \in Live(t, {"delete"}) : r \in Slots /\ r # s
        /\ Done(t, {"delete"}) \subseteq Live(t, {"delete"})
    BY <1>3 DEF Done, Live, Of, Joins
  <2>2. \A r \in Slots : r # s => reqs'[r] = reqs[r]
    BY DEF Tended
  <2>3. s \in Done(t, Joins)' /\ s \notin Done(t, {"delete"})'
    BY <1>2, <1>7 DEF Tended, Done, Live, Of, Joins
  <2>4. \A r \in Slots : r # s => /\ r \in Done(t, Joins)' <=> r \in Done(t, Joins)
                                  /\ r \in Done(t, {"delete"})' <=> r \in Done(t, {"delete"})
    BY <2>2 DEF Done, Live, Of
  <2>5. Done(t, Joins)' \subseteq Slots /\ Done(t, {"delete"})' \subseteq Slots
    BY DEF Done, Live, Of
  <2> QED
    BY <2>1, <2>2, <2>3, <2>4, <2>5
<1>12. reqs'[s].data[1] = m
  BY DEF Tended
<1>13. Coming(t)' = Coming(t) \cup {m}
  <2>1. Coming(t)' = {reqs'[r].data[1] : r \in Done(t, Joins) \cup {s}}
    BY <1>11 DEF Coming
  <2> QED
    BY <1>11, <1>12, <2>1 DEF Coming
<1>14. Going(t)' = Going(t) /\ Going(t) \subseteq gone
  BY <1>8, <1>11 DEF Going, ListInv
<1>15. \A x \in Elems(orgs[t]) \cup Coming(t) : x.org # m.org
  BY <1>5, <1>8, <1>9, <1>14 DEF ListInv
<1>16. m.org \notin OrgsOf(orgs[t])
  <2>1. orgs[t] \in Seq(Membership)
    BY <1>0 DEF SessionTypeOK
  <2> QED
    BY <1>15, <2>1, OrgsOfElems
<1>17. Elems(FindAllByUserID(u)') = {x \in Elems(orgs[t]) \cup Coming(t)' : x.org \notin Going(t)'}
  BY <1>5, <1>8, <1>10, <1>13, <1>14 DEF ListInv
<1>18. ASSUME NEW r \in Done(t, Joins)'
       PROVE  /\ reqs'[r].data[1].org \notin OrgsOf(orgs[t])
              /\ \A x \in Done(t, Joins)' : reqs'[x].data[1].org = reqs'[r].data[1].org => x = r
              /\ \A x \in Live(t, {"delete"}) : reqs'[x].arg # reqs'[r].data[1].org
  <2>1. \A x \in Done(t, Joins) : reqs'[x].data[1].org # m.org
    BY <1>11, <1>15 DEF Coming
  <2>2. \A x \in Live(t, {"delete"}) : reqs[x].arg # m.org
    BY <1>8, <1>16 DEF ListInv
  <2>3. CASE r = s
    BY <2>1, <2>2, <2>3, <1>11, <1>12, <1>16
  <2>4. CASE r # s
    <3>1. r \in Done(t, Joins)
      BY <2>4, <1>11, <1>18
    <3>2. /\ reqs'[r].data[1].org \notin OrgsOf(orgs[t])
          /\ \A x \in Live(t, {"delete"}) : reqs'[x].arg # reqs'[r].data[1].org
      BY <3>1, <1>8, <1>11 DEF ListInv
    <3>3. \A x \in Done(t, Joins) : reqs'[x].data[1].org = reqs'[r].data[1].org => x = r
      BY <3>1, <1>8, <1>11 DEF ListInv
    <3> QED
      BY <2>1, <3>1, <3>2, <3>3, <1>11, <1>12
  <2> QED
    BY <2>3, <2>4
<1>19. NoneTwice(orgs[t]) /\ \A r \in Live(t, {"delete"}) : reqs'[r].arg \in OrgsOf(orgs[t]) \cup gone
  BY <1>8, <1>11 DEF ListInv
<1> QED
  BY <1>4, <1>5, <1>14, <1>17, <1>18, <1>19 DEF ListInv

LEMMA FoundingKept ==
    ASSUME SessionInv,
           \A r \in Slots : Founding(r)' => Founding(r) /\ reqs'[r] = reqs[r],
           \A o \in exists : Barren(o) => o \in exists' /\ Barren(o)'
    PROVE  FoundingInv'
<1>1. SUFFICES ASSUME NEW s \in Slots, Founding(s)'
               PROVE  /\ Workspace[reqs[s].arg]' \in exists'
                      /\ Barren(Workspace[reqs[s].arg])'
                      /\ \A r \in Slots : (Founding(r) /\ Workspace[reqs[r].arg] = Workspace[reqs[s].arg])' => r = s
  BY DEF FoundingInv
<1>2. Founding(s) /\ reqs'[s] = reqs[s]
  BY <1>1
<1>3. PICK o \in exists :
          /\ o = Workspace[reqs[s].arg] /\ Barren(o)
          /\ \A r \in Slots : Founding(r) /\ Workspace[reqs[r].arg] = o => r = s
  BY <1>2 DEF SessionInv, ServerInv, FoundingInv
<1>4. o \in exists' /\ Barren(o)' /\ Workspace[reqs'[s].arg] = o
  BY <1>2, <1>3
<1>5. Barren(Workspace[reqs[s].arg])'
  BY <1>4 DEF Barren
<1> QED
  BY <1>2, <1>3, <1>4, <1>5

LEMMA GrantJoined ==
    ASSUME SessionTypeOK, ServerInv, NEW u \in Users, NEW m \in Membership,
           joined' = [joined EXCEPT ![u] = Append(joined[u], m)], m.org \notin OrgsOf(joined[u])
    PROVE  /\ joined' \in [Users -> Seq(Membership)]
           /\ m.org \in OrgsOf(joined'[u])
           /\ \A v \in Users : /\ OrgsOf(joined[v]) \subseteq OrgsOf(joined'[v])
                               /\ OrgsOf(joined'[v]) \subseteq OrgsOf(joined[v]) \cup {m.org}
                               /\ NoneTwice(joined'[v])
<1>1. joined \in [Users -> Seq(Membership)] /\ NoneTwice(joined[u])
  BY DEF SessionTypeOK, ServerInv
<1>2. /\ Append(joined[u], m) \in Seq(Membership)
      /\ OrgsOf(Append(joined[u], m)) = OrgsOf(joined[u]) \cup {m.org}
      /\ NoneTwice(Append(joined[u], m))
  BY <1>1, AppendAdds
<1>3. joined'[u] = Append(joined[u], m) /\ \A v \in Users : v # u => joined'[v] = joined[v]
  BY <1>1
<1>4. joined' \in [Users -> Seq(Membership)]
  BY <1>1, <1>2
<1>5. \A v \in Users : NoneTwice(joined[v])
  BY DEF ServerInv
<1> QED
  BY <1>2, <1>3, <1>4, <1>5

\* A new organization: nobody was a member of it.
LEMMA FreshOnly ==
    ASSUME SessionTypeOK, ServerInv, NEW o, Fresh(o), NEW u \in Users
    PROVE  /\ o \notin OrgsOf(joined[u])
           /\ Only(joined[u], exists \cup {o}) = Only(joined[u], exists)
<1>1. o \notin Known /\ OrgsOf(joined[u]) \subseteq Known
  BY DEF Fresh, Known, ServerInv
<1>2. \A i \in 1..Len(joined[u]) : joined[u][i].org \in exists \cup {o} <=> joined[u][i].org \in exists
  BY <1>1 DEF OrgsOf
<1> QED
  BY <1>1, <1>2, OnlySame

\* Creating an organization. Without the second insert no list changes.
LEMMA CreateInv ==
    ASSUME SessionInv, NEW s \in Slots, CreateOrg(s)
    PROVE  SessionInv'
<1>0. /\ SessionTypeOK /\ reqs[s] # None /\ reqs[s] \in Request /\ Shape(s)
      /\ reqs[s].kind = "create" /\ reqs[s].state = "sent"
  BY DEF CreateOrg, Handling, SessionInv, SessionTypeOK, AccountInv
<1>1. /\ stage' = stage /\ gone' = gone /\ invites' = invites
      /\ token' = token /\ selected' = selected /\ writer' = writer
      /\ user' = user /\ orgs' = orgs /\ current' = current /\ link' = link
      /\ dialog' = dialog /\ asked' = asked /\ clicks' = clicks
  BY DEF CreateOrg, Handling, storage
<1>2. PICK u \in Users : reqs[s].user = u
  BY <1>0 DEF CreateOrg, Request
<1>3. PICK o \in Orgs, m \in Membership :
          /\ m.org = o /\ Fresh(o) /\ exists' = exists \cup {o}
          /\ \/ /\ joined' = [joined EXCEPT ![u] = Append(joined[u], m)]
                /\ Changed(s)
                /\ Answer(s, <<m>>)
             \/ /\ reqs' = [reqs EXCEPT ![s].state = "failed"]
                /\ joined' = joined /\ skew' = skew
  <2>1. PICK o \in Orgs :
            /\ Fresh(o) /\ exists' = exists \cup {o}
            /\ \/ /\ joined' = [joined EXCEPT ![u] = Append(@, [org |-> o, role |-> "admin"])]
                  /\ Changed(s)
                  /\ Answer(s, <<[org |-> o, role |-> "admin"]>>)
               \/ /\ reqs' = [reqs EXCEPT ![s].state = "failed"]
                  /\ joined' = joined /\ skew' = skew
    BY <1>2 DEF CreateOrg
  <2>2. [org |-> o, role |-> "admin"] \in Membership /\ [org |-> o, role |-> "admin"].org = o
    BY DEF Membership
  <2> QED
    BY <2>1, <2>2
<1>4. /\ <<m>> \in Seq(Membership) /\ <<m>> # <<>> /\ OrgsOf(<<m>>) = {o}
  BY <1>3 DEF OrgsOf
<1>5. PICK out \in {"ok", "failed"}, data \in Seq(Membership) :
          /\ Tended(s, out, data) /\ OrgsOf(data) \subseteq Known' /\ (out = "ok" => data # <<>>)
          /\ \/ /\ joined' = [joined EXCEPT ![u] = Append(joined[u], m)] /\ Changed(s) /\ data = <<m>>
             \/ joined' = joined /\ skew' = skew /\ out = "failed"
  <2>1. Known \subseteq Known' /\ o \in Known'
    BY <1>1, <1>3 DEF Known
  <2>2. CASE Answer(s, <<m>>) /\ joined' = [joined EXCEPT ![u] = Append(joined[u], m)] /\ Changed(s)
    <3>1. PICK out \in {"ok", "failed"} : reqs' = [reqs EXCEPT ![s].state = out, ![s].data = <<m>>]
      BY <2>2 DEF Answer
    <3>2. Tended(s, out, <<m>>)
      BY <1>0, <1>4, <3>1, TendedAll
    <3> QED
      BY <1>4, <2>1, <2>2, <3>2
  <2>3. CASE reqs' = [reqs EXCEPT ![s].state = "failed"] /\ joined' = joined /\ skew' = skew
    <3>1. Tended(s, "failed", reqs[s].data) /\ reqs[s].data \in Seq(Membership)
      BY <1>0, <2>3, TendedState
    <3>2. OrgsOf(reqs[s].data) \subseteq Known
      BY <1>0 DEF Shape
    <3> QED
      BY <2>1, <2>3, <3>1, <3>2
  <2> QED
    BY <1>3, <2>2, <2>3
<1>6. o \notin OrgsOf(joined[u]) /\ o \notin exists /\ o \notin gone
  BY <1>0, <1>3, FreshOnly DEF SessionInv, Fresh
<1>7. /\ joined' \in [Users -> Seq(Membership)]
      /\ \A v \in Users : /\ OrgsOf(joined[v]) \subseteq OrgsOf(joined'[v])
                          /\ OrgsOf(joined'[v]) \subseteq OrgsOf(joined[v]) \cup {o}
                          /\ NoneTwice(joined'[v])
  <2>1. CASE joined' = joined
    BY <1>0, <2>1 DEF SessionInv, SessionTypeOK, ServerInv
  <2>2. CASE joined' = [joined EXCEPT ![u] = Append(joined[u], m)]
    BY <1>0, <1>3, <1>6, <2>2, GrantJoined DEF SessionInv
  <2> QED
    BY <1>5, <2>1, <2>2
<1>8. SessionTypeOK'
  <2>1. skew' \in [Tabs -> BOOLEAN]
    BY <1>0, <1>5 DEF SessionTypeOK, Changed
  <2>2. exists' \subseteq Orgs
    BY <1>0, <1>3 DEF SessionTypeOK
  <2> QED
    BY <1>0, <1>1, <1>5, <1>7, <2>1, <2>2 DEF SessionTypeOK, Tended
<1>9. AccountInv'
  <2>1. Shape(s)'
    BY <1>0, <1>5 DEF Shape, Tended, Joins
  <2>2. /\ \A v \in Users : stage'[v] >= stage[v]
        /\ stage' \in [Users -> 0..4]
    BY <1>0, <1>1, StageKept
  <2>3. Known \subseteq Known'
    BY <1>1, <1>3 DEF Known
  <2> QED
    BY <1>1, <1>5, <1>7, <2>1, <2>2, <2>3, AccountServed
<1>10. ServerInv'
  <2>1. \A r \in Slots : Founding(r)' => Founding(r) /\ reqs'[r] = reqs[r]
    BY <1>1, <1>5, FoundingServed
  <2>2. \A v \in Users : OrgsOf(joined'[v]) \subseteq Known' /\ NoneTwice(joined'[v])
    BY <1>1, <1>3, <1>7 DEF SessionInv, ServerInv, Known
  <2>3. \A x \in exists : Barren(x) => x \in exists' /\ Barren(x)'
    BY <1>1, <1>3, <1>6, <1>7 DEF Barren
  <2>4. exists' \cap gone' = {} /\ \A i \in invites' : i.org \in exists'
    BY <1>1, <1>3, <1>6 DEF SessionInv, ServerInv
  <2>5. FoundingInv'
    BY <2>1, <2>3, FoundingKept
  <2> QED
    BY <2>2, <2>4, <2>5 DEF ServerInv
<1>11. ViewInv'
  <2>1. Known \subseteq Known'
    BY <1>1, <1>3 DEF Known
  <2> QED
    BY <1>1, <2>1 DEF SessionInv, ViewInv, HeaderMatchesView, CurrentIsListed
<1>12. ASSUME NEW t \in Tabs PROVE SyncInv(t)'
  <2>1. CASE joined' = [joined EXCEPT ![u] = Append(joined[u], m)] /\ Changed(s) /\ data = <<m>>
    <3>1. /\ exists \subseteq exists' /\ exists' \subseteq exists \cup {m.org}
          /\ m.org \in exists' /\ m.org \notin gone /\ m.org \notin OrgsOf(joined[u])
      BY <1>3, <1>6
    <3>2. reqs[s].kind \in Joins
      BY <1>0 DEF Joins
    <3> QED
      BY <1>0, <1>1, <1>2, <1>5, <2>1, <3>1, <3>2, GrantSync
  <2>2. CASE joined' = joined /\ skew' = skew /\ out = "failed"
    <3>1. \A v \in Users : Only(joined'[v], exists') = Only(joined[v], exists)
      BY <1>0, <1>3, <2>2, FreshOnly DEF SessionInv
    <3>2. reqs[s].kind \in Changes
      BY <1>0 DEF Changes
    <3> QED
      BY <1>1, <1>5, <2>2, <3>1, <3>2, SyncServed
  <2> QED
    BY <1>5, <2>1, <2>2
<1> QED
  BY <1>8, <1>9, <1>10, <1>11, <1>12 DEF SessionInv

\* Accepting an invitation. Nobody is given a membership twice.
LEMMA JoinInv ==
    ASSUME SessionInv, NEW s \in Slots, JoinOrg(s)
    PROVE  SessionInv'
<1>0. /\ SessionTypeOK /\ reqs[s] # None /\ reqs[s] \in Request /\ Shape(s)
      /\ reqs[s].kind \in {"accept", "respond"} /\ reqs[s].state = "sent"
  BY DEF JoinOrg, Handling, SessionInv, SessionTypeOK, AccountInv
<1>1. /\ stage' = stage /\ exists' = exists /\ gone' = gone
      /\ token' = token /\ selected' = selected /\ writer' = writer
      /\ user' = user /\ orgs' = orgs /\ current' = current /\ link' = link
      /\ dialog' = dialog /\ asked' = asked /\ clicks' = clicks /\ Known' = Known
  BY DEF JoinOrg, Handling, storage, Known
<1>2. PICK i \in invites, u \in Users, m \in Membership :
          /\ i = reqs[s].arg /\ i.to = u /\ u = reqs[s].user /\ m.org = i.org
          /\ invites' = invites \ {i}
          /\ IF IsMember(u, i.org)
             THEN reqs' = [reqs EXCEPT ![s].state = "failed"] /\ joined' = joined /\ skew' = skew
             ELSE /\ joined' = [joined EXCEPT ![u] = Append(joined[u], m)]
                  /\ Changed(s)
                  /\ Answer(s, <<m>>)
  <2>1. PICK i \in invites : i = reqs[s].arg
    BY DEF JoinOrg
  <2>2. i \in Invitation
    BY <1>0, <2>1 DEF SessionTypeOK
  <2>3. /\ [org |-> i.org, role |-> i.role] \in Membership
        /\ [org |-> i.org, role |-> i.role].org = i.org /\ i.to \in Users
    BY <2>2 DEF Invitation, Membership
  <2>4. /\ i.to = reqs[s].user /\ invites' = invites \ {i}
        /\ IF IsMember(i.to, i.org)
           THEN reqs' = [reqs EXCEPT ![s].state = "failed"] /\ joined' = joined /\ skew' = skew
           ELSE /\ joined' = [joined EXCEPT ![i.to] = Append(@, [org |-> i.org, role |-> i.role])]
                /\ Changed(s)
                /\ Answer(s, <<[org |-> i.org, role |-> i.role]>>)
    BY <2>1 DEF JoinOrg
  <2> QED
    BY <2>1, <2>3, <2>4
<1>3. m.org \in exists /\ m.org \notin gone /\ m.org \in Known
  BY <1>2 DEF SessionInv, ServerInv, Known
<1>4. /\ <<m>> \in Seq(Membership) /\ <<m>> # <<>> /\ OrgsOf(<<m>>) = {m.org}
  BY DEF OrgsOf
<1>5. PICK out \in {"ok", "failed"}, data \in Seq(Membership) :
          /\ Tended(s, out, data) /\ OrgsOf(data) \subseteq Known /\ (out = "ok" => data # <<>>)
          /\ \/ /\ joined' = [joined EXCEPT ![u] = Append(joined[u], m)] /\ Changed(s) /\ data = <<m>>
                /\ m.org \notin OrgsOf(joined[u])
             \/ joined' = joined /\ skew' = skew /\ out = "failed"
  <2>1. CASE ~IsMember(u, i.org)
    <3>1. PICK out \in {"ok", "failed"} : reqs' = [reqs EXCEPT ![s].state = out, ![s].data = <<m>>]
      BY <1>2, <2>1 DEF Answer
    <3>2. Tended(s, out, <<m>>)
      BY <1>0, <1>4, <3>1, TendedAll
    <3>3. m.org \notin OrgsOf(joined[u])
      BY <1>0, <1>2, <1>3, <2>1, MemberOf
    <3> QED
      BY <1>2, <1>3, <1>4, <2>1, <3>2, <3>3
  <2>2. CASE IsMember(u, i.org)
    <3>1. Tended(s, "failed", reqs[s].data) /\ reqs[s].data \in Seq(Membership)
      BY <1>0, <1>2, <2>2, TendedState
    <3>2. OrgsOf(reqs[s].data) \subseteq Known
      BY <1>0 DEF Shape
    <3> QED
      BY <1>2, <2>2, <3>1, <3>2
  <2> QED
    BY <2>1, <2>2
<1>6. /\ joined' \in [Users -> Seq(Membership)]
      /\ \A v \in Users : /\ OrgsOf(joined[v]) \subseteq OrgsOf(joined'[v])
                          /\ OrgsOf(joined'[v]) \subseteq OrgsOf(joined[v]) \cup {m.org}
                          /\ NoneTwice(joined'[v])
  <2>1. CASE joined' = joined
    BY <1>0, <2>1 DEF SessionInv, SessionTypeOK, ServerInv
  <2>2. CASE joined' = [joined EXCEPT ![u] = Append(joined[u], m)] /\ m.org \notin OrgsOf(joined[u])
    BY <1>0, <2>2, GrantJoined DEF SessionInv
  <2> QED
    BY <1>5, <2>1, <2>2
<1>7. SessionTypeOK'
  <2>1. skew' \in [Tabs -> BOOLEAN]
    BY <1>0, <1>5 DEF SessionTypeOK, Changed
  <2> QED
    BY <1>0, <1>1, <1>2, <1>5, <1>6, <2>1 DEF SessionTypeOK, Tended
<1>8. AccountInv'
  <2>1. Shape(s)'
    BY <1>0, <1>1, <1>5 DEF Shape, Tended, Joins
  <2>2. /\ \A v \in Users : stage'[v] >= stage[v]
        /\ stage' \in [Users -> 0..4]
    BY <1>0, <1>1, StageKept
  <2> QED
    BY <1>1, <1>5, <1>6, <2>1, <2>2, AccountServed
<1>9. ServerInv'
  <2>1. \A r \in Slots : Founding(r)' => Founding(r) /\ reqs'[r] = reqs[r]
    BY <1>1, <1>5, FoundingServed
  <2>2. \A v \in Users : OrgsOf(joined'[v]) \subseteq Known' /\ NoneTwice(joined'[v])
    BY <1>1, <1>3, <1>6 DEF SessionInv, ServerInv
  <2>3. \A x \in exists : Barren(x) => x \in exists' /\ Barren(x)'
    BY <1>1, <1>2, <1>6 DEF Barren
  <2>4. FoundingInv'
    BY <2>1, <2>3, FoundingKept
  <2> QED
    BY <1>1, <1>2, <2>2, <2>4 DEF SessionInv, ServerInv
<1>10. ViewInv'
  BY <1>1 DEF SessionInv, ViewInv, HeaderMatchesView, CurrentIsListed
<1>11. ASSUME NEW t \in Tabs PROVE SyncInv(t)'
  <2>1. CASE /\ joined' = [joined EXCEPT ![u] = Append(joined[u], m)] /\ Changed(s) /\ data = <<m>>
             /\ m.org \notin OrgsOf(joined[u])
    <3>1. /\ exists \subseteq exists' /\ exists' \subseteq exists \cup {m.org}
          /\ m.org \in exists' /\ m.org \notin gone
      BY <1>1, <1>3
    <3>2. reqs[s].kind \in Joins /\ reqs[s].state = "sent" /\ reqs[s].user = u
      BY <1>0, <1>2 DEF Joins
    <3> QED
      BY <1>1, <1>5, <2>1, <3>1, <3>2, GrantSync
  <2>2. CASE joined' = joined /\ skew' = skew /\ out = "failed"
    <3>1. reqs[s].kind \in Changes
      BY <1>0 DEF Changes
    <3> QED
      BY <1>1, <1>5, <2>2, <3>1, SyncServed
  <2> QED
    BY <1>5, <2>1, <2>2
<1> QED
  BY <1>7, <1>8, <1>9, <1>10, <1>11 DEF SessionInv

\* Deleting an organization: the tab that asked for it will hear of it.
LEMMA DeleteSync ==
    ASSUME SessionInv, NEW s \in Slots, NEW out \in {"ok", "failed"}, NEW o \in Orgs,
           Tended(s, out, <<>>), Changed(s),
           reqs[s].kind = "delete", reqs[s].state = "sent", reqs[s].arg = o,
           user' = user, orgs' = orgs, current' = current, joined' = joined,
           exists' = exists \ {o}, gone' = gone \cup {o},
           NEW t \in Tabs
    PROVE  SyncInv(t)'
<1>0. SessionTypeOK
  BY DEF SessionInv
<1>1. SUFFICES ASSUME Synced(t)' PROVE SyncInv(t)'
  BY DEF SyncInv
<1>2. Synced(t) /\ reqs[s].tab = t /\ reqs[s].live
  BY <1>1 DEF Synced, Changed
<1>3. /\ SyncInv(t) /\ s \in Live(t, Changes) /\ s \in Live(t, {"delete"})
      /\ s \notin Done(t, Joins) /\ s \notin Done(t, {"delete"})
  BY <1>2 DEF SessionInv, Tended, Live, Of, Done, Changes, Joins
<1>4. /\ Of(t, {"orgs"}) = {} /\ LoadInv(t)'
      /\ Live(t, Changes)' = Live(t, Changes)
      /\ Live(t, {"delete"})' = Live(t, {"delete"})
      /\ Live(t, {"accept"})' = {}
      /\ \A r \in Live(t, Changes)' : reqs'[r].user = user'[t]
  BY <1>2, <1>3, AskedServed
<1>5. user[t] \in Users
  BY <1>0, <1>2 DEF Synced, SessionTypeOK
<1>6. SUFFICES ASSUME \A r \in Live(t, Changes)' : reqs'[r].state # "failed" PROVE ListInv(t)'
  BY <1>2, <1>3, <1>4 DEF SyncInv
<1>7. out = "ok"
  BY <1>3, <1>4, <1>6 DEF Tended
<1>8. ListInv(t)
  <2>1. \A r \in Live(t, Changes) : reqs[r].state # "failed"
    <3>1. \A r \in Live(t, Changes) : r \in Slots
      BY DEF Live, Of
    <3> QED
      BY <1>4, <1>6, <3>1 DEF Tended
  <2> QED
    BY <1>2, <1>3, <1>4, <2>1 DEF SyncInv
<1>9. Elems(FindAllByUserID(user[t])') = {x \in Elems(FindAllByUserID(user[t])) : x.org # o}
  <2>1. FindAllByUserID(user[t])' = Only(joined[user[t]], exists \ {o})
    BY DEF FindAllByUserID
  <2>2. joined[user[t]] \in Seq(Membership)
    BY <1>0, <1>5 DEF SessionTypeOK
  <2>3. Elems(Only(joined[user[t]], exists \ {o})) = {x \in Elems(joined[user[t]]) : x.org \in exists \ {o}}
    BY <2>2, OnlyKeeps
  <2>4. Elems(FindAllByUserID(user[t])) = {x \in Elems(joined[user[t]]) : x.org \in exists}
    BY <1>0, <1>5, MemberOf
  <2> QED
    BY <2>1, <2>3, <2>4
<1>10. /\ Done(t, Joins)' = Done(t, Joins)
       /\ Done(t, {"delete"})' = Done(t, {"delete"}) \cup {s}
       /\ \A r \in Done(t, Joins) : reqs'[r] = reqs[r]
       /\ \A r \in Live(t, {"delete"}) : reqs'[r].arg = reqs[r].arg
  <2>1. \A r \in Done(t, Joins) : r \in Slots /\ r # s
    BY <1>3 DEF Done, Live, Of
  <2>2. \A r \in Slots : r # s => reqs'[r] = reqs[r]
    BY DEF Tended
  <2>3. s \notin Done(t, Joins)' /\ s \in Done(t, {"delete"})'
    BY <1>2, <1>7 DEF Tended, Done, Live, Of, Joins
  <2>4. \A r \in Slots : r # s => /\ r \in Done(t, Joins)' <=> r \in Done(t, Joins)
                                  /\ r \in Done(t, {"delete"})' <=> r \in Done(t, {"delete"})
    BY <2>2 DEF Done, Live, Of
  <2>5. /\ Done(t, Joins)' \subseteq Slots /\ Done(t, {"delete"})' \subseteq Slots
        /\ Done(t, Joins) \subseteq Slots /\ Done(t, {"delete"}) \subseteq Slots
        /\ Live(t, {"delete"}) \subseteq Slots
    BY DEF Done, Live, Of
  <2>6. \A r \in Live(t, {"delete"}) : reqs'[r].arg = reqs[r].arg
    BY <2>5 DEF Tended
  <2> QED
    BY <1>3, <2>1, <2>2, <2>3, <2>4, <2>5, <2>6
<1>11. Coming(t)' = Coming(t)
  BY <1>10 DEF Coming
<1>12. Going(t)' = Going(t) \cup {o}
  <2>1. Done(t, {"delete"}) \subseteq Live(t, {"delete"})
    BY DEF Done
  <2>2. Going(t)' = {reqs'[r].arg : r \in Done(t, {"delete"}) \cup {s}}
    BY <1>10 DEF Going
  <2>3. reqs'[s].arg = o
    BY DEF Tended
  <2> QED
    BY <1>10, <2>1, <2>2, <2>3 DEF Going
<1>13. Elems(FindAllByUserID(user[t])') = {x \in Elems(orgs[t]) \cup Coming(t)' : x.org \notin Going(t)'}
  BY <1>8, <1>9, <1>11, <1>12 DEF ListInv
<1>14. NoneTwice(orgs[t]) /\ Going(t)' \subseteq gone'
  BY <1>8, <1>12 DEF ListInv
<1>15. ASSUME NEW r \in Done(t, Joins)
       PROVE  /\ reqs'[r].data[1].org \notin OrgsOf(orgs[t])
              /\ \A x \in Done(t, Joins) : reqs'[x].data[1].org = reqs'[r].data[1].org => x = r
              /\ \A x \in Live(t, {"delete"}) : reqs'[x].arg # reqs'[r].data[1].org
  BY <1>8, <1>10 DEF ListInv
<1>16. \A r \in Live(t, {"delete"}) : reqs'[r].arg \in OrgsOf(orgs[t]) \cup gone'
  BY <1>8, <1>10 DEF ListInv
<1> QED
  BY <1>4, <1>10, <1>13, <1>14, <1>15, <1>16 DEF ListInv

LEMMA DeleteInv ==
    ASSUME SessionInv, NEW s \in Slots, DeleteOrg(s)
    PROVE  SessionInv'
<1>0. /\ SessionTypeOK /\ reqs[s] # None /\ reqs[s] \in Request /\ Shape(s)
      /\ reqs[s].kind = "delete" /\ reqs[s].state = "sent"
  BY DEF DeleteOrg, Handling, SessionInv, SessionTypeOK, AccountInv
<1>1. /\ stage' = stage /\ joined' = joined
      /\ token' = token /\ selected' = selected /\ writer' = writer
      /\ user' = user /\ orgs' = orgs /\ current' = current /\ link' = link
      /\ dialog' = dialog /\ asked' = asked /\ clicks' = clicks
  BY DEF DeleteOrg, Handling, storage
<1>2. PICK o \in Orgs, u \in Users, out \in {"ok", "failed"} :
          /\ reqs[s].arg = o /\ IsAdmin(u, o)
          /\ exists' = exists \ {o} /\ gone' = gone \cup {o}
          /\ invites' = {i \in invites : i.org # o}
          /\ Changed(s) /\ reqs' = [reqs EXCEPT ![s].state = out, ![s].data = <<>>]
  <2>1. reqs[s].arg \in Orgs /\ reqs[s].user \in Users \cup {None}
    BY <1>0 DEF Shape, Request
  <2>2. /\ reqs[s].user # None /\ IsAdmin(reqs[s].user, reqs[s].arg)
        /\ exists' = exists \ {reqs[s].arg} /\ gone' = gone \cup {reqs[s].arg}
        /\ invites' = {i \in invites : i.org # reqs[s].arg}
        /\ Changed(s) /\ Answer(s, <<>>)
    BY DEF DeleteOrg
  <2> QED
    BY <2>1, <2>2 DEF Answer
<1>3. Tended(s, out, <<>>)
  BY <1>0, <1>2, EmptyList, TendedAll
<1>4. o \in exists /\ o \in OrgsOf(joined[u])
  BY <1>0, <1>2, MemberOf
<1>5. Known' = Known
  BY <1>2, <1>4 DEF Known
<1>6. SessionTypeOK'
  <2>1. skew' \in [Tabs -> BOOLEAN]
    BY <1>0, <1>2 DEF SessionTypeOK, Changed
  <2> QED
    BY <1>0, <1>1, <1>2, <1>3, <2>1 DEF SessionTypeOK, Tended
<1>7. AccountInv'
  <2>1. Shape(s)'
    BY <1>0, <1>3, EmptyList DEF Shape, Tended, Joins
  <2>2. /\ \A v \in Users : stage'[v] >= stage[v] /\ OrgsOf(joined[v]) \subseteq OrgsOf(joined'[v])
        /\ stage' \in [Users -> 0..4]
    BY <1>0, <1>1, StageKept
  <2> QED
    BY <1>1, <1>3, <1>5, <2>1, <2>2, AccountServed
<1>8. ServerInv'
  <2>1. \A r \in Slots : Founding(r)' => Founding(r) /\ reqs'[r] = reqs[r]
    BY <1>1, <1>3, FoundingServed
  <2>2. \A x \in exists : Barren(x) => x \in exists' /\ Barren(x)'
    BY <1>1, <1>2, <1>4 DEF Barren
  <2>3. FoundingInv'
    BY <2>1, <2>2, FoundingKept
  <2>4. exists' \cap gone' = {} /\ \A i \in invites' : i.org \in exists'
    BY <1>2 DEF SessionInv, ServerInv
  <2> QED
    BY <1>1, <1>5, <2>3, <2>4 DEF SessionInv, ServerInv
<1>9. ViewInv'
  BY <1>1, <1>5 DEF SessionInv, ViewInv, HeaderMatchesView, CurrentIsListed
<1>10. \A t \in Tabs : SyncInv(t)'
  BY <1>0, <1>1, <1>2, <1>3, DeleteSync
<1> QED
  BY <1>6, <1>7, <1>8, <1>9, <1>10 DEF SessionInv

\* An insert of a registration. No other registration of the user is running,
\* and nobody else has anything to do with the new organization.
LEMMA RegisterInv ==
    ASSUME SessionInv, NEW s \in Slots, Register(s)
    PROVE  SessionInv'
<1>0. /\ SessionTypeOK /\ reqs[s] # None /\ reqs[s] \in Request /\ Shape(s)
      /\ reqs[s].kind = "register"
  BY DEF Register, Handling, SessionInv, SessionTypeOK, AccountInv
<1>1. /\ gone' = gone /\ invites' = invites
      /\ token' = token /\ selected' = selected /\ writer' = writer
      /\ user' = user /\ orgs' = orgs /\ current' = current /\ link' = link
      /\ dialog' = dialog /\ asked' = asked /\ clicks' = clicks
  BY DEF Register, Handling, storage
<1>2. PICK u \in Users, m \in Membership, n \in 0..4 :
          /\ reqs[s].arg = u /\ m.org = Workspace[u] /\ n = stage[u]
          /\ reqs[s].state = "sent" \/ reqs[s].state = "running"
          /\ (reqs[s].state = "sent") <=> (n = 0)
          /\ n = 2 => Fresh(m.org)
          /\ stage' = [stage EXCEPT ![u] = n + 1]
          /\ exists' = IF n = 2 THEN exists \cup {m.org} ELSE exists
          /\ IF n = 3
             THEN /\ joined' = [joined EXCEPT ![u] = Append(joined[u], m)]
                  /\ Changed(s)
                  /\ Answer(s, <<>>)
             ELSE reqs' = [reqs EXCEPT ![s].state = "running"] /\ joined' = joined /\ skew' = skew
  <2>1. reqs[s].arg \in Users
    BY <1>0 DEF Shape
  <2>2. PICK u \in Users : u = reqs[s].arg
    BY <2>1
  <2>3. PICK n \in 0..4 : n = stage[u]
    BY <1>0 DEF SessionTypeOK
  <2>4. PICK m \in Membership : m = [org |-> Workspace[u], role |-> "admin"] /\ m.org = Workspace[u]
    <3>1. Workspace[u] \in Orgs
      BY SessionAssumption
    <3>2. /\ [org |-> Workspace[u], role |-> "admin"] \in Membership
          /\ [org |-> Workspace[u], role |-> "admin"].org = Workspace[u]
      BY <3>1 DEF Membership
    <3> QED
      BY <3>2
  <2>5. n + 1 = 1 <=> n = 0
    BY <2>3
  <2>6. n + 1 = 3 <=> n = 2
    BY <2>3
  <2>7. n + 1 = 4 <=> n = 3
    BY <2>3
  <2>8. /\ reqs[s].state \in {"sent", "running"}
        /\ (reqs[s].state = "sent") = (n + 1 = 1)
        /\ n + 1 = 3 => Fresh(m.org)
        /\ stage' = [stage EXCEPT ![u] = n + 1]
        /\ exists' = IF n + 1 = 3 THEN exists \cup {m.org} ELSE exists
        /\ IF n + 1 = 4
           THEN /\ joined' = [joined EXCEPT ![u] = Append(joined[u], m)]
                /\ Changed(s)
                /\ Answer(s, <<>>)
           ELSE reqs' = [reqs EXCEPT ![s].state = "running"] /\ joined' = joined /\ skew' = skew
    BY <2>2, <2>3, <2>4 DEF Register, Handling
  <2>9. /\ reqs[s].state = "sent" \/ reqs[s].state = "running"
        /\ (reqs[s].state = "sent") <=> (n = 0)
        /\ n = 2 => Fresh(m.org)
    BY <2>5, <2>6, <2>8
  <2>10. exists' = IF n = 2 THEN exists \cup {m.org} ELSE exists
    BY <2>6, <2>8
  <2>11. IF n = 3
         THEN /\ joined' = [joined EXCEPT ![u] = Append(joined[u], m)]
              /\ Changed(s)
              /\ Answer(s, <<>>)
         ELSE reqs' = [reqs EXCEPT ![s].state = "running"] /\ joined' = joined /\ skew' = skew
    BY <2>7, <2>8
  <2>12. reqs[s].arg = u /\ m.org = Workspace[u] /\ n = stage[u] /\ stage' = [stage EXCEPT ![u] = n + 1]
    BY <2>2, <2>3, <2>4, <2>8
  <2> WITNESS u \in Users, m \in Membership, n \in 0..4
  <2> QED
    BY <2>9, <2>10, <2>11, <2>12, Zenon
<1>3. n \in 0..3 /\ (n # 0 => Running(s))
  <2>1. reqs[s].state = "running" => n \in 1..3
    BY <1>0, <1>2 DEF Shape
  <2> QED
    BY <1>0, <1>2, <2>1 DEF Running
<1>4. \A r \in Slots : r # s /\ Running(r) => reqs[r].arg # u
  <2>1. SUFFICES ASSUME NEW r \in Slots, r # s, Running(r), reqs[r].arg = u PROVE FALSE
    OBVIOUS
  <2>2. Shape(r) /\ stage[u] \in 1..3
    BY <2>1 DEF SessionInv, AccountInv, Running, Shape
  <2>3. Running(s)
    BY <1>2, <1>3, <2>2
  <2> QED
    BY <1>2, <2>1, <2>3 DEF SessionInv, AccountInv
<1>5. /\ stage' \in [Users -> 0..4] /\ stage'[u] = n + 1 /\ \A v \in Users : v # u => stage'[v] = stage[v]
      /\ \A v \in Users : stage'[v] >= stage[v]
  <2>1. stage \in [Users -> 0..4] /\ n + 1 \in 0..4
    BY <1>0, <1>3 DEF SessionTypeOK
  <2>2. /\ stage' \in [Users -> 0..4] /\ stage'[u] = n + 1
        /\ \A v \in Users : v # u => stage'[v] = stage[v]
    BY <1>2, <2>1
  <2>3. \A v \in Users : stage[v] \in 0..4 /\ stage'[v] \in 0..4
    BY <2>1, <2>2
  <2>4. ASSUME NEW v \in Users PROVE stage'[v] >= stage[v]
    <3>1. CASE v = u
      BY <1>2, <2>2, <3>1
    <3>2. CASE v # u
      BY <2>2, <2>3, <3>2
    <3> QED
      BY <3>1, <3>2
  <2> QED
    BY <2>2, <2>4
<1>6. PICK out \in {"running", "ok", "failed"}, data \in Seq(Membership) :
          /\ Tended(s, out, data) /\ OrgsOf(data) \subseteq Known
          /\ IF n = 3 THEN out # "running" ELSE out = "running"
  <2>1. CASE n = 3
    <3>1. PICK out \in {"ok", "failed"} : reqs' = [reqs EXCEPT ![s].state = out, ![s].data = <<>>]
      BY <1>2, <2>1 DEF Answer
    <3>2. Tended(s, out, <<>>)
      BY <1>0, <3>1, EmptyList, TendedAll
    <3> QED
      BY <2>1, <3>2, EmptyList
  <2>2. CASE n # 3
    <3>1. reqs' = [reqs EXCEPT ![s].state = "running"]
      BY <1>2, <2>2
    <3>2. Tended(s, "running", reqs[s].data) /\ reqs[s].data \in Seq(Membership)
      BY <1>0, <3>1, TendedState
    <3>3. OrgsOf(reqs[s].data) \subseteq Known
      BY <1>0 DEF Shape
    <3> QED
      BY <2>2, <3>2, <3>3
  <2> QED
    BY <2>1, <2>2
<1>7. Known \subseteq Known' /\ (n = 2 => m.org \in Known') /\ (n # 2 => exists' = exists)
  BY <1>1, <1>2 DEF Known
<1>8. n = 3 => Founding(s) /\ Barren(m.org) /\ m.org \in exists /\ m.org \notin OrgsOf(joined[u])
  <2>1. SUFFICES ASSUME n = 3
                 PROVE  Founding(s) /\ Barren(m.org) /\ m.org \in exists /\ m.org \notin OrgsOf(joined[u])
    OBVIOUS
  <2>2. Running(s) /\ stage[reqs[s].arg] = 3 /\ m.org = Workspace[reqs[s].arg]
    BY <1>2, <1>3, <2>1
  <2>3. Founding(s)
    BY <2>2 DEF Founding
  <2>4. Barren(m.org) /\ m.org \in exists
    BY <2>2, <2>3 DEF SessionInv, ServerInv, FoundingInv
  <2> QED
    BY <2>3, <2>4 DEF Barren
<1>9. /\ joined' \in [Users -> Seq(Membership)]
      /\ \A v \in Users : /\ OrgsOf(joined[v]) \subseteq OrgsOf(joined'[v])
                          /\ OrgsOf(joined'[v]) \subseteq OrgsOf(joined[v]) \cup (IF n = 3 THEN {m.org} ELSE {})
                          /\ NoneTwice(joined'[v])
      /\ n = 3 => m.org \in OrgsOf(joined'[u])
  <2>1. CASE n # 3
    BY <1>0, <1>2, <2>1 DEF SessionInv, SessionTypeOK, ServerInv
  <2>2. CASE n = 3
    BY <1>0, <1>2, <1>8, <2>2, GrantJoined DEF SessionInv
  <2> QED
    BY <2>1, <2>2
<1>10. SessionTypeOK'
  <2>1. skew' \in [Tabs -> BOOLEAN]
    BY <1>0, <1>2 DEF SessionTypeOK, Changed
  <2>2. exists' \subseteq Orgs
    BY <1>0, <1>2 DEF SessionTypeOK, Membership
  <2> QED
    BY <1>0, <1>1, <1>5, <1>6, <1>9, <2>1, <2>2 DEF SessionTypeOK, Tended
<1>11. AccountInv'
  <2>1. Shape(s)'
    <3>1. out = "running" => stage'[u] \in 1..3
      BY <1>3, <1>5, <1>6
    <3>2. out = "ok" => Workspace[u] \in OrgsOf(joined'[u])
      BY <1>2, <1>6, <1>9
    <3>3. /\ reqs'[s].kind = "register" /\ reqs'[s].arg = u /\ reqs'[s].state = out
          /\ reqs'[s].data = data /\ OrgsOf(data) \subseteq Known'
      BY <1>0, <1>2, <1>6, <1>7 DEF Tended
    <3> QED
      BY <3>1, <3>2, <3>3 DEF Shape, Joins
  <2>2. \A r \in Slots : r # s /\ Running(r) => stage'[reqs[r].arg] = stage[reqs[r].arg]
    <3>1. \A r \in Slots : Running(r) => reqs[r].arg \in Users
      BY DEF SessionInv, AccountInv, Running, Shape
    <3> QED
      BY <1>4, <1>5, <3>1
  <2> QED
    BY <1>1, <1>2, <1>4, <1>5, <1>6, <1>7, <1>9, <2>1, <2>2, AccountServed
<1>12. ServerInv'
  <2>1. \A v \in Users : OrgsOf(joined'[v]) \subseteq Known' /\ NoneTwice(joined'[v])
    <3>1. \A v \in Users : OrgsOf(joined[v]) \subseteq Known
      BY DEF SessionInv, ServerInv
    <3>2. n = 3 => m.org \in Known'
      BY <1>7, <1>8 DEF Known
    <3> QED
      BY <1>7, <1>9, <3>1, <3>2
  <2>2. exists' \cap gone' = {} /\ \A i \in invites' : i.org \in exists'
    BY <1>1, <1>2 DEF SessionInv, ServerInv, Fresh
  <2>3. ASSUME NEW r \in Slots, r # s, Founding(r)'
        PROVE  /\ Founding(r) /\ reqs'[r] = reqs[r]
               /\ n \in {2, 3} => Workspace[reqs[r].arg] # m.org
               /\ Workspace[reqs[r].arg] \in exists /\ Barren(Workspace[reqs[r].arg])
    <3>1. reqs'[r] = reqs[r] /\ Running(r)
      BY <1>6, <2>3 DEF Founding, Running, Tended
    <3>2. reqs[r].arg \in Users /\ reqs[r].arg # u
      BY <1>4, <2>3, <3>1 DEF SessionInv, AccountInv, Running, Shape
    <3>3. Founding(r)
      BY <1>5, <2>3, <3>1, <3>2 DEF Founding
    <3>4. /\ Workspace[reqs[r].arg] \in exists /\ Barren(Workspace[reqs[r].arg])
          /\ \A q \in Slots : Founding(q) /\ Workspace[reqs[q].arg] = Workspace[reqs[r].arg] => q = r
      BY <3>3 DEF SessionInv, ServerInv, FoundingInv
    <3>5. n = 2 => Workspace[reqs[r].arg] # m.org
      BY <1>2, <3>4 DEF Fresh
    <3>6. n = 3 => Workspace[reqs[r].arg] # m.org
      BY <1>2, <1>8, <2>3, <3>4
    <3> QED
      BY <3>1, <3>3, <3>4, <3>5, <3>6
  <2>4. ASSUME NEW o, Barren(o), n = 3 => o # m.org PROVE Barren(o)'
    BY <1>1, <1>9, <2>4 DEF Barren
  <2>5. Founding(s)' => n = 2
    <3>1. Founding(s)' => stage'[u] = 3
      BY <1>2, <1>6 DEF Founding, Tended
    <3> QED
      BY <1>3, <1>5, <3>1
  <2>6. n = 2 => Barren(m.org)
    <3>1. n = 2 => m.org \notin Known
      BY <1>2 DEF Fresh, Known
    <3> QED
      BY <3>1 DEF SessionInv, ServerInv, Barren, Known
  <2>7. ASSUME NEW r \in Slots, Founding(r)'
        PROVE  \E o \in exists' :
                   /\ o = Workspace[reqs'[r].arg] /\ Barren(o)'
                   /\ \A q \in Slots : Founding(q)' /\ Workspace[reqs'[q].arg] = o => q = r
    <3>1. CASE r = s
      <4>1. n = 2 /\ m.org \in exists' /\ Workspace[reqs'[r].arg] = m.org
        BY <1>2, <1>6, <2>5, <2>7, <3>1 DEF Tended
      <4>2. Barren(m.org)'
        BY <2>4, <2>6, <4>1
      <4>3. \A q \in Slots : Founding(q)' /\ Workspace[reqs'[q].arg] = m.org => q = r
        BY <2>3, <3>1, <4>1
      <4> QED
        BY <4>1, <4>2, <4>3
    <3>2. CASE r # s
      <4>1. PICK o \in exists : /\ o = Workspace[reqs[r].arg] /\ Barren(o) /\ Founding(r)
                                /\ reqs'[r] = reqs[r] /\ (n \in {2, 3} => o # m.org)
        BY <2>3, <2>7, <3>2
      <4>2. o \in exists' /\ Barren(o)'
        BY <1>2, <2>4, <4>1
      <4>3. ASSUME NEW q \in Slots, Founding(q)', Workspace[reqs'[q].arg] = o PROVE q = r
        <5>1. CASE q = s
          <6>1. n = 2 /\ Workspace[reqs'[s].arg] = m.org
            BY <1>2, <1>6, <2>5, <4>3, <5>1 DEF Tended
          <6> QED
            BY <4>1, <4>3, <5>1, <6>1
        <5>2. CASE q # s
          <6>1. Founding(q) /\ reqs'[q] = reqs[q]
            BY <2>3, <4>3, <5>2
          <6> QED
            BY <4>1, <4>3, <6>1 DEF SessionInv, ServerInv, FoundingInv
        <5> QED
          BY <5>1, <5>2
      <4> QED
        BY <4>1, <4>2, <4>3
    <3> QED
      BY <3>1, <3>2
  <2>8. FoundingInv'
    BY <2>7 DEF FoundingInv, Barren
  <2> QED
    BY <2>1, <2>2, <2>8 DEF ServerInv
<1>13. ViewInv'
  BY <1>1, <1>7 DEF SessionInv, ViewInv, HeaderMatchesView, CurrentIsListed
<1>14. ASSUME NEW t \in Tabs PROVE SyncInv(t)'
  <2>1. CASE n = 3
    <3>1. skew'[t]
      BY <1>0, <1>2, <2>1 DEF Changed
    <3> QED
      BY <3>1 DEF SyncInv, Synced
  <2>2. CASE n # 3
    <3>1. skew' = skew /\ joined' = joined
      BY <1>2, <2>2
    <3>2. \A v \in Users : Only(joined'[v], exists') = Only(joined[v], exists)
      BY <1>0, <1>2, <3>1, FreshOnly DEF SessionInv
    <3> QED
      BY <1>0, <1>1, <1>6, <3>1, <3>2, SyncServed
  <2> QED
    BY <2>1, <2>2
<1> QED
  BY <1>10, <1>11, <1>12, <1>13, <1>14 DEF SessionInv

\* Inviting: the organization has an admin, so it is not being founded.
LEMMA InviteInv ==
    ASSUME SessionInv, NEW i \in Invitation, Invite(i)
    PROVE  SessionInv'
<1>0. SessionTypeOK /\ AccountInv /\ ServerInv
  BY DEF SessionInv
<1>1. /\ stage' = stage /\ joined' = joined /\ exists' = exists /\ gone' = gone
      /\ invites' = invites \cup {i}
      /\ token' = token /\ selected' = selected /\ writer' = writer
      /\ user' = user /\ orgs' = orgs /\ current' = current /\ link' = link
      /\ dialog' = dialog /\ asked' = asked /\ skew' = skew /\ reqs' = reqs
  BY DEF Invite, storage, tabs
<1>2. PICK u \in Users : i.org \in exists /\ i.org \in OrgsOf(joined[u])
  BY <1>0, MemberOf DEF Invite
<1>3. SessionTypeOK'
  <2>1. clicks' \in 0..MaxClicks
    BY <1>0, SessionAssumption DEF Invite, Click, SessionTypeOK
  <2> QED
    BY <1>0, <1>1, <2>1 DEF SessionTypeOK
<1>4. AccountInv'
  BY <1>0, <1>1 DEF AccountInv, Shape, Running, Known
<1>5. ServerInv'
  <2>1. \A r \in Slots : Founding(r)' => Founding(r) /\ reqs'[r] = reqs[r]
    BY <1>1 DEF Founding, Running
  <2>2. \A o \in exists : Barren(o) => o \in exists' /\ Barren(o)'
    BY <1>1, <1>2 DEF Barren
  <2>3. FoundingInv'
    BY <2>1, <2>2, FoundingKept
  <2> QED
    BY <1>0, <1>1, <1>2, <2>3 DEF ServerInv, Known
<1>6. ViewInv'
  BY <1>1 DEF SessionInv, ViewInv, HeaderMatchesView, CurrentIsListed, Known
<1>7. ASSUME NEW t \in Tabs PROVE SyncInv(t)'
  <2>1. SyncInv(t)
    BY DEF SessionInv
  <2> QED
    BY <1>1, <2>1, SyncFrame
<1> QED
  BY <1>3, <1>4, <1>5, <1>6, <1>7 DEF SessionInv

-----------------------------------------------------------------------------
(* The invariant.                                                          *)

LEMMA InitInv == SessionInit => SessionInv
<1>1. SUFFICES ASSUME SessionInit PROVE SessionInv
  OBVIOUS
<1>2. ASSUME NEW u \in Users
      PROVE  /\ joined[u] \in Seq(Membership) /\ NoneTwice(joined[u])
             /\ OrgsOf(joined[u]) \subseteq exists /\ stage[u] \in 0..4
  <2>1. CASE u \in Founders
    <3>1. PICK m : m = [org |-> Workspace[u], role |-> "admin"]
      OBVIOUS
    <3>2. m \in Membership /\ m.org = Workspace[u]
      <4>1. Workspace[u] \in Orgs
        BY SessionAssumption
      <4> QED
        BY <3>1, <4>1 DEF Membership
    <3>3. joined[u] = <<m>> /\ Workspace[u] \in exists
      BY <1>1, <2>1, <3>1 DEF SessionInit
    <3>4. <<m>> \in Seq(Membership) /\ NoneTwice(<<m>>) /\ OrgsOf(<<m>>) = {m.org}
      BY <3>2 DEF NoneTwice, OrgsOf
    <3>5. stage[u] \in 0..4
      BY <1>1, <2>1 DEF SessionInit
    <3> QED
      BY <3>2, <3>3, <3>4, <3>5
  <2>2. CASE u \notin Founders
    <3>1. joined[u] = <<>>
      BY <1>1, <2>2 DEF SessionInit
    <3>2. stage[u] \in 0..4
      BY <1>1, <2>2 DEF SessionInit
    <3> QED
      BY <3>1, <3>2, EmptyList
  <2> QED
    BY <2>1, <2>2
<1>3. SessionTypeOK
  <2>1. stage \in [Users -> 0..4] /\ joined \in [Users -> Seq(Membership)]
    <3>1. stage = [u \in Users |-> stage[u]] /\ joined = [u \in Users |-> joined[u]]
      BY <1>1 DEF SessionInit
    <3> QED
      BY <1>2, <3>1
  <2>2. exists \subseteq Orgs
    BY <1>1, SessionAssumption DEF SessionInit
  <2>3. clicks \in 0..MaxClicks
    BY <1>1, SessionAssumption DEF SessionInit
  <2>4. orgs \in [Tabs -> Seq(Membership)]
    BY <1>1, EmptyList DEF SessionInit
  <2> QED
    BY <1>1, <2>1, <2>2, <2>3, <2>4 DEF SessionInit, SessionTypeOK
<1>4. /\ \A s \in Slots : reqs[s] = None
      /\ \A t \in Tabs : user[t] = None /\ orgs[t] = <<>> /\ current[t] = None
      /\ token = None /\ gone = {} /\ invites = {}
  BY <1>1 DEF SessionInit
<1>5. AccountInv
  BY <1>4 DEF AccountInv, Running
<1>6. ServerInv
  BY <1>2, <1>4 DEF ServerInv, FoundingInv, Founding, Running, Known
<1>7. ViewInv
  BY <1>4, EmptyList DEF ViewInv, HeaderMatchesView, CurrentIsListed
<1>8. \A t \in Tabs : SyncInv(t)
  BY <1>4 DEF SyncInv, Synced
<1> QED
  BY <1>3, <1>5, <1>6, <1>7, <1>8 DEF SessionInv

LEMMA StutterInv ==
    ASSUME SessionInv, UNCHANGED sessionVars
    PROVE  SessionInv'
<1>1. /\ stage' = stage /\ joined' = joined /\ exists' = exists /\ gone' = gone /\ invites' = invites
      /\ token' = token /\ selected' = selected /\ writer' = writer
      /\ user' = user /\ orgs' = orgs /\ current' = current /\ link' = link
      /\ dialog' = dialog /\ asked' = asked /\ skew' = skew /\ reqs' = reqs /\ clicks' = clicks
  BY DEF sessionVars, server, storage, tabs
<1>2. SessionTypeOK' /\ AccountInv'
  BY <1>1 DEF SessionInv, SessionTypeOK, AccountInv, Shape, Running, Known
<1>3. ServerInv'
  BY <1>1 DEF SessionInv, ServerInv, FoundingInv, Founding, Running, Barren, Known
<1>4. ViewInv'
  BY <1>1 DEF SessionInv, ViewInv, HeaderMatchesView, CurrentIsListed, Known
<1>5. ASSUME NEW t \in Tabs PROVE SyncInv(t)'
  <2>1. SyncInv(t)
    BY DEF SessionInv
  <2> QED
    BY <1>1, <2>1, SyncFrame
<1> QED
  BY <1>2, <1>3, <1>4, <1>5 DEF SessionInv

LEMMA NextInv == SessionInv /\ [SessionNext]_sessionVars => SessionInv'
<1>1. SUFFICES ASSUME SessionInv, [SessionNext]_sessionVars PROVE SessionInv'
  OBVIOUS
<1>2. ASSUME NEW t \in Tabs, NEW u \in Users, useLogin(t, u) \/ useRegister(t, u) PROVE SessionInv'
  BY <1>1, <1>2, FormInv
<1>3. ASSUME NEW t \in Tabs, \/ logout(t)
                             \/ \E m \in Membership : switchOrg(t, m)
                             \/ closeDialog(t)
                             \/ PendingReply(t)
      PROVE  SessionInv'
  BY <1>1, <1>3, ScreenInv
<1>4. ASSUME NEW t \in Tabs, \/ handleCreate(t)
                             \/ handleDelete(t)
                             \/ \E i \in dialog[t] : handleRespond(t, i)
      PROVE  SessionInv'
  BY <1>1, <1>4, ChangeInv
<1>5. ASSUME NEW t \in Tabs, \E where \in invites \cup {None} : Open(t, where) PROVE SessionInv'
  BY <1>1, <1>5, OpenInv
<1>6. ASSUME NEW t \in Tabs, goToDashboard(t) PROVE SessionInv'
  BY <1>1, <1>6, DashboardInv
<1>7. ASSUME NEW s \in Slots, Serve(s) PROVE SessionInv'
  BY <1>1, <1>7, ReadInv, RegisterInv, CreateInv, JoinInv, DeleteInv DEF Serve
<1>8. ASSUME NEW s \in Slots, \/ LoginReply(s) \/ OrgsReply(s) \/ JoinReply(s)
                              \/ DeleteReply(s) \/ ErrorReply(s) \/ SilentReply(s)
      PROVE  SessionInv'
  BY <1>1, <1>8, LoginReplyInv, OrgsReplyInv, JoinReplyInv, DeleteReplyInv, ErrorInv, SilentInv
<1>9. ASSUME NEW i \in Invitation, Invite(i) PROVE SessionInv'
  BY <1>1, <1>9, InviteInv
<1>10. CASE UNCHANGED sessionVars
  BY <1>1, <1>10, StutterInv
<1> QED
  BY <1>1, <1>2, <1>3, <1>4, <1>5, <1>6, <1>7, <1>8, <1>9, <1>10 DEF SessionNext

\* SessionInv holds in every state: whatever the tabs do at the same time, and
\* in whatever order the server works and its answers come back.
THEOREM SessionHolds == SessionSpec => []SessionInv
<1>1. SessionInit => SessionInv
  BY InitInv
<1>2. SessionInv /\ [SessionNext]_sessionVars => SessionInv'
  BY NextInv
<1> QED
  BY <1>1, <1>2, PTL DEF SessionSpec

\* The variables have their types.
THEOREM SessionTypes == SessionSpec => []SessionTypeOK
<1>1. SessionInv => SessionTypeOK
  BY DEF SessionInv
<1> QED
  BY <1>1, SessionHolds, PTL

\* The organization that requests name is the one on the screen of the tab
\* that wrote it last (org-context.tsx, api-client.ts).
THEOREM HeaderMatches == SessionSpec => []HeaderMatchesView
<1>1. SessionInv => HeaderMatchesView
  BY DEF SessionInv, ViewInv
<1> QED
  BY <1>1, SessionHolds, PTL

\* A tab that lists organizations has one of them on the screen
\* (org-context.tsx).
THEOREM CurrentListed == SessionSpec => []CurrentIsListed
<1>1. SessionInv => CurrentIsListed
  BY DEF SessionInv, ViewInv
<1> QED
  BY <1>1, SessionHolds, PTL

\* addOrg and removeOrg keep the list of a tab equal to the server's
\* (org-context.tsx): with nothing in flight nothing is coming or going.
THEOREM ListInStep == SessionSpec => []ListIsTheServers
<1>1. SessionInv => ListIsTheServers
  <2>1. SUFFICES ASSUME SessionInv, NEW t \in Tabs, user[t] # None, ~skew[t], Of(t, Kinds) = {}
                 PROVE  /\ Elems(orgs[t]) = Elems(FindAllByUserID(user[t]))
                        /\ NoneTwice(orgs[t])
                        /\ orgs[t] = <<>> => current[t] = None
    BY DEF ListIsTheServers
  <2>2. Of(t, {"orgs"}) = {} /\ Live(t, Changes) = {}
    BY <2>1 DEF Live, Of, Kinds, Changes
  <2>3. Coming(t) = {} /\ Going(t) = {}
    BY <2>1 DEF Coming, Going, Done, Live, Of, Kinds, Joins
  <2>4. ListInv(t) /\ (orgs[t] = <<>> => current[t] = None)
    BY <2>1, <2>2 DEF SessionInv, SyncInv, Synced
  <2>5. Elems(FindAllByUserID(user[t])) = {m \in Elems(orgs[t]) \cup Coming(t) : m.org \notin Going(t)}
    BY <2>4 DEF ListInv
  <2>6. {m \in Elems(orgs[t]) \cup Coming(t) : m.org \notin Going(t)} = Elems(orgs[t])
    BY <2>3
  <2> QED
    BY <2>4, <2>5, <2>6 DEF ListInv
<1> QED
  BY <1>1, SessionHolds, PTL

\* A registration that reports success has made all of its four inserts, and
\* only a user with an account is signed in (auth.go).
THEOREM RegistrationComplete == SessionSpec => []RegisteredIsComplete
<1>1. SessionInv => RegisteredIsComplete
  <2>1. SUFFICES ASSUME SessionInv PROVE RegisteredIsComplete
    OBVIOUS
  <2>2. ASSUME NEW s \in Slots, reqs[s] # None, reqs[s].kind = "register", reqs[s].state = "ok"
        PROVE  \E m \in Elems(joined[reqs[s].arg]) : m.org = Workspace[reqs[s].arg]
    <3>1. Shape(s)
      BY <2>1, <2>2 DEF SessionInv, AccountInv
    <3>2. Workspace[reqs[s].arg] \in OrgsOf(joined[reqs[s].arg])
      BY <2>2, <3>1 DEF Shape
    <3> QED
      BY <3>2 DEF OrgsOf, Elems
  <2> QED
    BY <2>1, <2>2 DEF SessionInv, AccountInv, RegisteredIsComplete
<1> QED
  BY <1>1, SessionHolds, PTL

\* DeleteOrg compares the name (organization.go): whatever other tabs selected
\* meanwhile, only an organization that a request for its deletion names is
\* deleted. No other step deletes one.
THEOREM DeletionNamed == SessionSpec => DeletesWhatItNames
<1> DEFINE Named == \A o \in exists \ exists' :
                        \E s \in Slots : reqs[s] # None /\ reqs[s].kind = "delete" /\ reqs[s].arg = o
<1>1. [SessionNext]_sessionVars => [Named]_sessionVars
  <2>1. SUFFICES ASSUME SessionNext PROVE Named
    OBVIOUS
  <2>2. ASSUME NEW t \in Tabs, NEW u \in Users, useLogin(t, u) \/ useRegister(t, u) PROVE exists' = exists
    BY <2>2 DEF useLogin, useRegister, server
  <2>3. ASSUME NEW t \in Tabs, \/ logout(t)
                               \/ \E where \in invites \cup {None} : Open(t, where)
                               \/ goToDashboard(t)
                               \/ \E m \in Membership : switchOrg(t, m)
                               \/ handleCreate(t)
                               \/ handleDelete(t)
                               \/ \E i \in dialog[t] : handleRespond(t, i)
                               \/ closeDialog(t)
                               \/ PendingReply(t)
        PROVE  exists' = exists
    BY <2>3 DEF logout, Open, goToDashboard, switchOrg, handleCreate, handleDelete, handleRespond,
                Ask, closeDialog, PendingReply, server
  <2>4. ASSUME NEW s \in Slots, \/ LoginReply(s) \/ OrgsReply(s) \/ JoinReply(s)
                                \/ DeleteReply(s) \/ ErrorReply(s) \/ SilentReply(s)
        PROVE  exists' = exists
    BY <2>4 DEF LoginReply, OrgsReply, JoinReply, DeleteReply, ErrorReply, SilentReply, Answered, server
  <2>5. ASSUME NEW s \in Slots, Serve(s) PROVE Named
    <3>1. CASE Login(s) \/ ListOrgs(s) \/ JoinOrg(s)
      BY <3>1 DEF Login, ListOrgs, JoinOrg, server
    <3>2. CASE Register(s)
      <4>1. exists \subseteq exists'
        BY <3>2 DEF Register
      <4> QED
        BY <4>1
    <3>3. CASE CreateOrg(s)
      <4>1. exists \subseteq exists'
        BY <3>3 DEF CreateOrg
      <4> QED
        BY <4>1
    <3>4. CASE DeleteOrg(s)
      BY <3>4 DEF DeleteOrg, Handling
    <3> QED
      BY <2>5, <3>1, <3>2, <3>3, <3>4 DEF Serve
  <2>6. ASSUME NEW i \in Invitation, Invite(i) PROVE exists' = exists
    BY <2>6 DEF Invite
  <2>7. exists' = exists => Named
    OBVIOUS
  <2> HIDE DEF Named
  <2> QED
    BY <2>1, <2>2, <2>3, <2>4, <2>5, <2>6, <2>7 DEF SessionNext
<1> QED
  BY <1>1, PTL DEF SessionSpec, DeletesWhatItNames
=============================================================================
