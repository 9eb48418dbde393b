--------------------------- MODULE LockedListProofs ---------------------------
(***************************************************************************)
(* For any number of threads and nodes, no walk along a list that locks    *)
(* node by node touches a node that has been deleted, no node is lost, and *)
(* every walk sees each node that was in the list all the time.            *)
(***************************************************************************)
EXTENDS LockedList, LinkedListTheorems

-----------------------------------------------------------------------------
(* The list *)

\* The places of the list: its nodes and its head.
LEMMA FinitePlaces ==
    ASSUME ConstantsAssumption
    PROVE  IsFiniteSet(Places) /\ Null \notin Places /\ head \in Places
<1>1. IsFiniteSet(Nodes \cup {head})
  BY FS_AddElement DEF ConstantsAssumption
<1> QED
  BY <1>1 DEF Places, ConstantsAssumption

\* The facts about lists, of this heap.
LEMMA OkPlaces ==
    ASSUME ConstantsAssumption, NEW n, NEW f, Ok(n, f)
    PROVE  On(n, f) \subseteq Places /\ (n # Null => n \in On(n, f))
BY FinitePlaces, ListNodes DEF On, Ok

\* The lemmas on linked lists, for places: the empty list,
LEMMA OkEmpty ==
    ASSUME ConstantsAssumption, NEW f
    PROVE  Ok(Null, f) /\ On(Null, f) = {}
BY FinitePlaces, ListEmpty DEF On, Ok

\* a list none of whose links changes,
LEMMA OkFrame ==
    ASSUME ConstantsAssumption, NEW n, NEW f, Ok(n, f), NEW g, \A m \in On(n, f) : g[m] = f[m]
    PROVE  Ok(n, g) /\ On(n, g) = On(n, f)
BY FinitePlaces, ListFrame DEF On, Ok

\* a list without its first place,
LEMMA OkPop ==
    ASSUME ConstantsAssumption, NEW n, n # Null, NEW f, Ok(n, f)
    PROVE  n \in Places /\ Ok(f[n], f) /\ On(f[n], f) = On(n, f) \ {n}
BY FinitePlaces, ListPop DEF On, Ok

\* the rest of a list from one of its places on,
LEMMA OkRest ==
    ASSUME ConstantsAssumption, NEW n, NEW f, Ok(n, f), NEW m, m \in On(n, f)
    PROVE  Ok(m, f) /\ On(m, f) \subseteq On(n, f)
BY FinitePlaces, ListRest DEF On, Ok

\* Behind a node of the list comes a node of the list, or none.
LEMMA OkNext ==
    ASSUME ConstantsAssumption, NEW n, NEW f, Ok(n, f), NEW m, m \in On(n, f)
    PROVE  /\ Ok(f[m], f) /\ On(f[m], f) = On(m, f) \ {m} /\ On(m, f) \subseteq On(n, f)
           /\ f[m] \in (On(n, f) \ {m}) \cup {Null}
<1>p. PICK p : p = f[m]
  OBVIOUS
<1>1. Ok(m, f) /\ On(m, f) \subseteq On(n, f) /\ m # Null
  BY OkRest, OkPlaces, FinitePlaces
<1>2. Ok(p, f) /\ On(p, f) = On(m, f) \ {m}
  BY <1>p, <1>1, OkPop
<1>3. p # Null => p \in On(p, f)
  BY <1>2, OkPlaces
<1> QED
  BY <1>p, <1>1, <1>2, <1>3

\* a list with a node put after a place,
LEMMA OkInsert ==
    ASSUME ConstantsAssumption, NEW f, Ok(head, f), NEW c \in On(head, f),
           NEW n \in Nodes, n \notin On(head, f),
           NEW g, g[c] = n, g[n] = f[c], \A m \in On(head, f) : m # c => g[m] = f[m]
    PROVE  /\ Ok(head, g) /\ On(head, g) = On(head, f) \cup {n}
           /\ \A m \in On(head, f) : On(m, f) \subseteq On(m, g)
<1>1. /\ Relinked(OnList(head, f, Null, Places), c, f, g)
      /\ IsFiniteSet(Places) /\ Null \notin Places /\ IsLinked(head, f, Null, Places)
      /\ c \in OnList(head, f, Null, Places) /\ n \in Places
      /\ n \notin OnList(head, f, Null, Places)
  BY FinitePlaces DEF Relinked, On, Ok, Places
<1>2. ASSUME NEW m \in On(head, f)
      PROVE  /\ Ok(m, g)
             /\ On(m, g) = IF c \in On(m, f) THEN On(m, f) \cup {n} ELSE On(m, f)
  BY <1>1, ListInsert DEF On, Ok
<1>3. head \in On(head, f)
  BY FinitePlaces, OkPlaces
<1> QED
  BY <1>2, <1>3

\* and a list with the node after a place unlinked.
LEMMA OkRemove ==
    ASSUME ConstantsAssumption, NEW f, Ok(head, f), NEW c \in On(head, f),
           NEW n, n = f[c], n # Null,
           NEW g, g[c] = f[n], \A m \in On(head, f) : m # c => g[m] = f[m]
    PROVE  /\ Ok(head, g) /\ On(head, g) = On(head, f) \ {n}
           /\ \A m \in On(head, f) : On(m, f) \ {n} \subseteq On(m, g)
<1>1. /\ Relinked(OnList(head, f, Null, Places), c, f, g)
      /\ IsFiniteSet(Places) /\ Null \notin Places /\ IsLinked(head, f, Null, Places)
      /\ c \in OnList(head, f, Null, Places)
  BY FinitePlaces DEF Relinked, On, Ok, Places
<1>2. ASSUME NEW m \in On(head, f)
      PROVE  /\ Ok(m, g)
             /\ On(m, g) = IF c \in On(m, f) THEN On(m, f) \ {n} ELSE On(m, f)
  BY <1>1, ListRemove DEF On, Ok
<1>3. head \in On(head, f)
  BY FinitePlaces, OkPlaces
<1> QED
  BY <1>2, <1>3

\* What the model calls the list.
LEMMA ListedIs ==
    ASSUME ConstantsAssumption, Ok(head, next)
    PROVE  /\ Listed \in Seq(Nodes) /\ Chain(Listed, next[head], next, Null)
           /\ ToSet(Listed) = On(next[head], next)
           /\ Listed = ListOf(next[head], next, Null, Places)
           /\ Ok(next[head], next)
           /\ On(next[head], next) = On(head, next) \ {head}
           /\ On(next[head], next) \subseteq Nodes
<1> DEFINE h == next[head]
           c == ListOf(h, next, Null, Places)
<1>1. Ok(h, next) /\ On(h, next) = On(head, next) \ {head} /\ On(head, next) \subseteq Places
  BY FinitePlaces, OkPlaces, OkPop
<1>2. c \in Seq(Places) /\ Chain(c, h, next, Null) /\ On(h, next) = Elements(c)
  BY <1>1 DEF Ok, On, IsLinked, OnList
<1>3. On(h, next) \subseteq Nodes
  BY <1>1 DEF Places
<1> HIDE DEF c, h
<1>4. c \in Seq(Nodes)
  <2>1. \A i \in 1 .. Len(c) : c[i] \in Nodes
    BY <1>2, <1>3 DEF Elements
  <2> QED
    BY <1>2, <2>1
<1>5. Reached(h, next, Null, Cardinality(Nodes)) = c
  BY <1>2, <1>4, ReachedIs DEF ConstantsAssumption
<1>6. Listed = c
  BY <1>5 DEF Listed, h
<1>7. ToSet(c) = Elements(c)
  BY <1>2 DEF ToSet, Elements
<1> QED
  BY <1>1, <1>2, <1>3, <1>4, <1>6, <1>7 DEF c, h

-----------------------------------------------------------------------------
(* What a step does *)

\* The steps of one thread.
Steps(t) ==
    \/ push_front(t) \/ PushBackArgument(t) \/ push_back(t) \/ PushBackTooLate(t) \/ Walk(t)

\* What a step leaves alone of the other threads.
LEMMA OthersKept ==
    ASSUME TypeOK, NEW t \in Threads, Steps(t), NEW u \in Threads, u # t
    PROVE  /\ pc'[u] = pc[u] /\ cur'[u] = cur[u] /\ nxt'[u] = nxt[u]
           /\ unseen'[u] \subseteq unseen[u]
<1> USE DEF TypeOK, Return, vars
<1>1. CASE push_front(t) \/ PushBackArgument(t) \/ push_back(t) \/ PushBackTooLate(t)
  BY <1>1 DEF push_front, PushBackArgument, push_back, PushBackTooLate
<1>2. CASE (\E op \in Visits \cup Edits : Begin(t, op)) \/ Step(t) \/ Finish(t)
  BY <1>2 DEF Begin, Step, Finish
<1>3. CASE LockNext(t)
  BY <1>3 DEF LockNext
<1>4. CASE find_first_if(t) \/ insert_if(t)
  BY <1>4 DEF find_first_if, insert_if
<1>5. CASE remove_if(t) \/ remove_first(t)
  BY <1>5 DEF remove_if, remove_first
<1> QED
  BY <1>1, <1>2, <1>3, <1>4, <1>5 DEF Steps, Walk

\* Nobody takes a mutex from its owner.
LEMMA OwnersKept ==
    ASSUME ConstantsAssumption, TypeOK, LocalsOK, NEW t \in Threads, Steps(t),
           NEW u \in Threads, u # t, NEW m \in Places, owner[m] = u
    PROVE  owner'[m] = u
<1>1. CASE push_front(t) \/ PushBackArgument(t) \/ push_back(t) \/ PushBackTooLate(t)
  BY <1>1 DEF push_front, PushBackArgument, push_back, PushBackTooLate
<1>2. ASSUME NEW op \in Visits \cup Edits, Begin(t, op)
      PROVE  owner'[m] = u
  BY <1>2 DEF Begin, TypeOK, ConstantsAssumption
<1>3. CASE LockNext(t)
  <2>1. WalkOK(t) /\ nxt[t] = Null
    BY <1>3 DEF LockNext, Walking, LocalsOK, LocalOK
  <2>2. owner[cur[t]] = t
    BY <2>1 DEF WalkOK, Spot
  <2>n. PICK n, c : n = next[cur[t]] /\ c = cur[t]
    OBVIOUS
  <2>3. CASE owner' = owner
    BY <2>3
  <2>4. CASE owner' # owner
    <3>1. /\ owner[n] = Null
          /\ owner' = [owner EXCEPT ![n] = t, ![c] = IF pc[t] \in Visits THEN Null ELSE @]
      BY <1>3, <2>n, <2>4 DEF LockNext
    <3>2. m # n /\ m # c
      BY <2>2, <2>n, <3>1 DEF ConstantsAssumption
    <3> QED
      BY <3>1, <3>2 DEF TypeOK
  <2> QED
    BY <2>3, <2>4
<1>4. CASE Step(t)
  BY <1>4 DEF Step, TypeOK
<1>5. CASE Finish(t) \/ find_first_if(t) \/ remove_first(t) \/ insert_if(t)
  <2>1. owner' = Unlocked(t)
    BY <1>5 DEF Finish, find_first_if, remove_first, insert_if
  <2> QED
    BY <2>1 DEF Unlocked, TypeOK
<1>6. CASE remove_if(t)
  <2>1. WalkOK(t) /\ nxt[t] # Null
    BY <1>6 DEF remove_if, LocalsOK, LocalOK, Edits
  <2>2. owner[nxt[t]] = t
    BY <2>1 DEF WalkOK, Spot
  <2>3. owner' = [owner EXCEPT ![nxt[t]] = Null]
    BY <1>6 DEF remove_if
  <2> QED
    BY <2>2, <2>3 DEF TypeOK
<1> QED
  BY <1>1, <1>2, <1>3, <1>4, <1>5, <1>6 DEF Steps, Walk

-----------------------------------------------------------------------------
(* What the steps leave the others *)

\* A walk goes on if the places it has the mutexes of stay as they are, and what it
\* has not seen stays behind it.
LEMMA WalkStays ==
    ASSUME ConstantsAssumption, IInv, NEW t \in Threads, Steps(t),
           NEW u \in Threads, u # t, WalkOK(u),
           \A m \in On(head, next) : owner[m] = u => m \in On(head, next') /\ next'[m] = next[m],
           \A s : s = next[Spot(u)] => unseen'[u] \cap On(s, next) \subseteq On(s, next')
    PROVE  WalkOK(u)'
<1>n. PICK c, n, p, s : c = cur[u] /\ n = nxt[u] /\ p = Spot(u) /\ s = next[p]
  OBVIOUS
<1>1. pc'[u] = pc[u] /\ cur'[u] = c /\ nxt'[u] = n /\ unseen'[u] \subseteq unseen[u]
  BY <1>n, OthersKept DEF IInv
<1>2. Spot(u)' = p
  BY <1>n, <1>1 DEF Spot
<1>3. p \in On(head, next) /\ owner[p] = u /\ unseen[u] \subseteq On(s, next)
  BY <1>n DEF WalkOK
<1>4. On(head, next) \subseteq Places
  BY OkPlaces DEF IInv, Lists
<1>5. p \in On(head, next') /\ next'[p] = s /\ owner'[p] = u
  BY <1>n, <1>3, <1>4, OwnersKept DEF IInv
<1>6. unseen'[u] \subseteq On(s, next')
  BY <1>n, <1>1, <1>3
<1>7. c \notin {n, Null}
  BY <1>n DEF WalkOK
<1>8. pc[u] \in Edits /\ n # Null =>
        c \in On(head, next') /\ owner'[c] = u /\ next'[c] = n
  <2> SUFFICES ASSUME pc[u] \in Edits /\ n # Null
               PROVE  c \in On(head, next') /\ owner'[c] = u /\ next'[c] = n
    OBVIOUS
  <2>1. c \in On(head, next) /\ owner[c] = u /\ next[c] = n
    BY <1>n DEF WalkOK
  <2> QED
    BY <1>4, <2>1, OwnersKept DEF IInv
<1> QED
  BY <1>1, <1>2, <1>5, <1>6, <1>7, <1>8 DEF WalkOK

\* A push_back goes on if its node is left alone.
LEMMA PushStays ==
    ASSUME ConstantsAssumption, IInv, NEW t \in Threads, Steps(t),
           NEW u \in Threads, u # t, PushOK(u), pc[u] = "push_back",
           nxt[u] \notin free' \cup On(head', next'), next'[nxt[u]] = next[nxt[u]],
           pc'[t] = "push_back" => nxt'[t] # nxt[u]
    PROVE  PushOK(u)'
<1>1. /\ nxt'[u] = nxt[u]
      /\ \A v \in Threads : v # t => pc'[v] = pc[v] /\ nxt'[v] = nxt[v]
  BY OthersKept DEF IInv
<1>2. \A v \in Threads \ {u} : pc'[v] = "push_back" => nxt'[v] # nxt[u]
  BY <1>1 DEF PushOK
<1> QED
  BY <1>1, <1>2 DEF PushOK

\* The steps that leave the list alone.
LEMMA OthersSame ==
    ASSUME ConstantsAssumption, IInv, NEW t \in Threads, Steps(t),
           next' = next, free' = free, pc'[t] # "push_back" \/ (pc[t] = pc'[t] /\ nxt'[t] = nxt[t]),
           NEW u \in Threads, u # t
    PROVE  LocalOK(u)'
<1>0. LocalOK(u) /\ pc'[u] = pc[u] /\ nxt'[u] = nxt[u]
  BY OthersKept DEF IInv, LocalsOK
<1>1. CASE pc[u] = "push_back"
  <2>1. PushOK(u)
    BY <1>0, <1>1 DEF LocalOK
  <2>2. pc'[t] = "push_back" => nxt'[t] # nxt[u]
    BY <1>1, <2>1 DEF PushOK
  <2>3. nxt[u] \notin free' \cup On(head', next') /\ next'[nxt[u]] = next[nxt[u]]
    BY <2>1 DEF PushOK
  <2> QED
    BY <1>0, <1>1, <2>1, <2>2, <2>3, PushStays DEF LocalOK, Visits, Edits
<1>2. CASE pc[u] \in Visits \cup Edits
  <2>1. WalkOK(u)
    BY <1>0, <1>2 DEF LocalOK
  <2>2. WalkOK(u)'
    BY <2>1, WalkStays
  <2> QED
    BY <1>0, <1>2, <2>2 DEF LocalOK, Visits, Edits
<1>3. CASE pc[u] \notin {"push_back"} \cup Visits \cup Edits
  BY <1>0, <1>3 DEF LocalOK
<1> QED
  BY <1>1, <1>2, <1>3

\* A step of t that puts the node n behind c.
Inserts(t, c, n) ==
    /\ c \in On(head, next) /\ owner[c] \in {Null, t}
    /\ n \in Nodes /\ n \notin On(head, next)
    /\ next'[c] = n /\ next'[n] = next[c]
    /\ \A m \in Places \ {c, n} : next'[m] = next[m]

\* insert_if, push_front and push_back: what is reached from the head.
LEMMA InsertList ==
    ASSUME ConstantsAssumption, IInv, NEW t, NEW c, NEW n, Inserts(t, c, n)
    PROVE  /\ Ok(head, next') /\ On(head, next') = On(head, next) \cup {n}
           /\ \A m \in On(head, next) : On(m, next) \subseteq On(m, next')
<1>1. /\ Ok(head, next) /\ c \in On(head, next) /\ n \in Nodes /\ n \notin On(head, next)
      /\ next'[c] = n /\ next'[n] = next[c]
  BY DEF IInv, Lists, Inserts
<1>2. On(head, next) \subseteq Places
  BY <1>1, OkPlaces
<1>3. \A m \in On(head, next) : m # c => next'[m] = next[m]
  BY <1>1, <1>2 DEF Inserts
<1> QED
  BY <1>1, <1>3, OkInsert

\* They leave the other walks where they are.
LEMMA OthersInsert ==
    ASSUME ConstantsAssumption, IInv, NEW t \in Threads, Steps(t),
           NEW c, NEW n, Inserts(t, c, n), free' \subseteq free, pc'[t] # "push_back",
           n \in free \/ (pc[t] = "push_back" /\ nxt[t] = n),
           NEW u \in Threads, u # t
    PROVE  LocalOK(u)'
<1>0. LocalOK(u) /\ pc'[u] = pc[u] /\ nxt'[u] = nxt[u]
  BY OthersKept DEF IInv, LocalsOK
<1>l. /\ On(head, next') = On(head, next) \cup {n}
      /\ \A m \in On(head, next) : On(m, next) \subseteq On(m, next')
  BY InsertList
<1>p. On(head, next) \subseteq Places /\ Ok(head, next)
  BY OkPlaces DEF IInv, Lists
<1>1. CASE pc[u] = "push_back"
  <2>k. PICK k : k = nxt[u]
    OBVIOUS
  <2>1. PushOK(u) /\ k \in Nodes /\ k \notin free /\ k \notin On(head, next)
    BY <1>0, <1>1, <2>k DEF LocalOK, PushOK
  <2>2. k # n /\ k # c
    BY <1>1, <2>k, <2>1 DEF PushOK, Inserts
  <2>3. next'[k] = next[k]
    BY <2>1, <2>2 DEF Inserts, Places
  <2>4. k \notin free' \cup On(head', next')
    BY <1>l, <2>1, <2>2
  <2>5. PushOK(u)'
    BY <1>1, <2>k, <2>1, <2>3, <2>4, PushStays
  <2> QED
    BY <1>0, <1>1, <2>5 DEF LocalOK, Visits, Edits
<1>2. CASE pc[u] \in Visits \cup Edits
  <2>1. WalkOK(u)
    BY <1>0, <1>2 DEF LocalOK
  <2>2. ASSUME NEW m \in On(head, next), owner[m] = u
        PROVE  m \in On(head, next') /\ next'[m] = next[m]
    <3>1. m # c /\ m # n
      BY <2>2 DEF Inserts, ConstantsAssumption
    <3> QED
      BY <1>l, <1>p, <3>1 DEF Inserts
  <2>3. ASSUME NEW s, s = next[Spot(u)]
        PROVE  unseen'[u] \cap On(s, next) \subseteq On(s, next')
    <3>1. Spot(u) \in On(head, next)
      BY <2>1 DEF WalkOK
    <3>2. s \in On(head, next) \cup {Null}
      BY <1>p, <2>3, <3>1, OkNext
    <3>3. On(Null, next) = {}
      BY OkEmpty
    <3> QED
      BY <1>l, <3>2, <3>3
  <2>4. WalkOK(u)'
    BY <2>1, <2>2, <2>3, WalkStays
  <2> QED
    BY <1>0, <1>2, <2>4 DEF LocalOK, Visits, Edits
<1>3. CASE pc[u] \notin {"push_back"} \cup Visits \cup Edits
  BY <1>0, <1>3 DEF LocalOK
<1> QED
  BY <1>1, <1>2, <1>3

\* A step of t that takes the node n out from behind c.
Removes(t, c, n) ==
    /\ c \in On(head, next) /\ owner[c] = t
    /\ n = next[c] /\ n \in On(head, next) \ {c} /\ n \in Nodes /\ owner[n] = t
    /\ next'[c] = next[n]
    /\ \A m \in Places \ {c} : next'[m] = next[m]
    /\ free' = free \cup {n}
    /\ \A u \in Threads : unseen'[u] \subseteq unseen[u] \ {n}

\* remove_if and remove_first: what is reached from the head.
LEMMA RemoveList ==
    ASSUME ConstantsAssumption, IInv, NEW t, NEW c, NEW n, Removes(t, c, n)
    PROVE  /\ Ok(head, next') /\ On(head, next') = On(head, next) \ {n}
           /\ \A m \in On(head, next) : On(m, next) \ {n} \subseteq On(m, next')
<1>1. /\ Ok(head, next) /\ c \in On(head, next) /\ n = next[c] /\ n # Null
      /\ next'[c] = next[n]
  BY DEF IInv, Lists, Removes, ConstantsAssumption
<1>2. On(head, next) \subseteq Places
  BY <1>1, OkPlaces
<1>3. \A m \in On(head, next) : m # c => next'[m] = next[m]
  BY <1>1, <1>2 DEF Removes
<1> QED
  BY <1>1, <1>3, OkRemove

\* They leave the other walks where they are.
LEMMA OthersRemove ==
    ASSUME ConstantsAssumption, IInv, NEW t \in Threads, Steps(t),
           NEW c, NEW n, Removes(t, c, n), pc'[t] # "push_back",
           NEW u \in Threads, u # t
    PROVE  LocalOK(u)'
<1>0. LocalOK(u) /\ pc'[u] = pc[u] /\ nxt'[u] = nxt[u]
  BY OthersKept DEF IInv, LocalsOK
<1>l. /\ On(head, next') = On(head, next) \ {n}
      /\ \A m \in On(head, next) : On(m, next) \ {n} \subseteq On(m, next')
  BY RemoveList
<1>p. On(head, next) \subseteq Places /\ Ok(head, next)
  BY OkPlaces DEF IInv, Lists
<1>1. CASE pc[u] = "push_back"
  <2>k. PICK k : k = nxt[u]
    OBVIOUS
  <2>1. PushOK(u) /\ k \in Nodes /\ k \notin free /\ k \notin On(head, next)
    BY <1>0, <1>1, <2>k DEF LocalOK, PushOK
  <2>2. k # n /\ k # c
    BY <2>1 DEF Removes
  <2>3. next'[k] = next[k]
    BY <2>1, <2>2 DEF Removes, Places
  <2>4. k \notin free' \cup On(head', next')
    BY <1>l, <2>1, <2>2 DEF Removes
  <2>5. PushOK(u)'
    BY <1>1, <2>k, <2>1, <2>3, <2>4, PushStays
  <2> QED
    BY <1>0, <1>1, <2>5 DEF LocalOK, Visits, Edits
<1>2. CASE pc[u] \in Visits \cup Edits
  <2>1. WalkOK(u)
    BY <1>0, <1>2 DEF LocalOK
  <2>2. ASSUME NEW m \in On(head, next), owner[m] = u
        PROVE  m \in On(head, next') /\ next'[m] = next[m]
    <3>1. m # c /\ m # n
      BY <2>2 DEF Removes
    <3> QED
      BY <1>l, <1>p, <3>1 DEF Removes
  <2>3. ASSUME NEW s, s = next[Spot(u)]
        PROVE  unseen'[u] \cap On(s, next) \subseteq On(s, next')
    <3>1. Spot(u) \in On(head, next)
      BY <2>1 DEF WalkOK
    <3>2. s \in On(head, next) \cup {Null}
      BY <1>p, <2>3, <3>1, OkNext
    <3>3. On(Null, next) = {}
      BY OkEmpty
    <3>4. n \notin unseen'[u]
      BY DEF Removes
    <3> QED
      BY <1>l, <3>2, <3>3, <3>4
  <2>4. WalkOK(u)'
    BY <2>1, <2>2, <2>3, WalkStays
  <2> QED
    BY <1>0, <1>2, <2>4 DEF LocalOK, Visits, Edits
<1>3. CASE pc[u] \notin {"push_back"} \cup Visits \cup Edits
  BY <1>0, <1>3 DEF LocalOK
<1> QED
  BY <1>1, <1>2, <1>3

-----------------------------------------------------------------------------
(* Each step *)

\* Where a walk that is not at the end goes on.
LEMMA WalkAhead ==
    ASSUME ConstantsAssumption, IInv, NEW t \in Threads, pc[t] \in Visits \cup Edits
    PROVE  /\ cur[t] \in Places /\ Spot(t) \in Places /\ Spot(t) \in On(head, next)
           /\ next[Spot(t)] \in (On(head, next) \ {Spot(t), head}) \cup {Null}
           /\ next[Spot(t)] \notin free
<1>1. WalkOK(t) /\ TypeOK /\ Ok(head, next) /\ free \cap On(head, next) = {}
  BY DEF IInv, LocalsOK, LocalOK, Lists, Apart
<1>2. cur[t] \in Places /\ Spot(t) \in On(head, next)
  BY <1>1 DEF WalkOK, TypeOK
<1>p. PICK p : p = Spot(t)
  OBVIOUS
<1>3. p \in Places /\ next[p] \in (On(head, next) \ {p}) \cup {Null}
  BY <1>p, <1>1, <1>2, OkNext, OkPlaces
<1>4. next[p] # head /\ Null \notin free
  BY <1>1, <1>3 DEF TypeOK, ConstantsAssumption
<1> QED
  BY <1>p, <1>1, <1>2, <1>3, <1>4

\* So no step goes wrong, but for a push_back that comes too late.
LEMMA StepTypeOK ==
    ASSUME ConstantsAssumption, IInv, NEW t \in Threads, Steps(t)
    PROVE  TypeOK'
<1>0. TypeOK
  BY DEF IInv
<1>i. "idle" \in PC
  BY DEF PC
<1> USE <1>0 DEF TypeOK, Return, vars
<1>1. CASE push_front(t)
  <2>1. PICK n \in free :
          /\ free' = free \ {n}
          /\ next' = [next EXCEPT ![n] = next[head], ![head] = n]
          /\ last' = IF Double /\ next[head] = Null THEN n ELSE last
    BY <1>1 DEF push_front
  <2>2. UNCHANGED <<owner, pc, cur, nxt, unseen, error>>
    BY <1>1 DEF push_front
  <2>3. n \in Nodes /\ n \in Places /\ next[head] \in Nodes \cup {Null}
    BY DEF Places
  <2>4. next' \in [Places -> Nodes \cup {Null}] /\ last' \in Places
    BY <2>1, <2>3
  <2> QED
    BY <2>1, <2>2, <2>4
<1>2. CASE PushBackArgument(t)
  <2>1. PICK n \in free :
          /\ free' = free \ {n}
          /\ next' = [next EXCEPT ![n] = Null]
          /\ nxt' = [nxt EXCEPT ![t] = n]
    BY <1>2 DEF PushBackArgument
  <2>2. /\ cur' = [cur EXCEPT ![t] = last] /\ pc' = [pc EXCEPT ![t] = "push_back"]
        /\ UNCHANGED <<owner, last, unseen, error>>
    BY <1>2 DEF PushBackArgument
  <2>3. "push_back" \in PC
    BY <1>2 DEF PushBackArgument, PC
  <2>4. next' \in [Places -> Nodes \cup {Null}] /\ nxt' \in [Threads -> Nodes \cup {Null}]
    BY <2>1
  <2>5. pc' \in [Threads -> PC] /\ cur' \in [Threads -> Places \cup {Null}]
    BY <2>2, <2>3
  <2> QED
    BY <2>1, <2>2, <2>4, <2>5
<1>3. CASE push_back(t)
  <2>n. PICK n : n = nxt[t]
    OBVIOUS
  <2>1. n \in Nodes
    <3>1. pc[t] = "push_back"
      BY <1>3 DEF push_back
    <3>2. PushOK(t)
      BY <3>1 DEF IInv, LocalsOK, LocalOK
    <3> QED
      BY <2>n, <3>2 DEF PushOK
  <2>2. /\ next' = [next EXCEPT ![last] = n] /\ last' = n
        /\ pc' = [pc EXCEPT ![t] = "idle"] /\ cur' = [cur EXCEPT ![t] = Null]
        /\ nxt' = [nxt EXCEPT ![t] = Null] /\ unseen' = [unseen EXCEPT ![t] = {}]
        /\ UNCHANGED <<owner, free, error>>
    BY <1>3, <2>n DEF push_back
  <2>3. next' \in [Places -> Nodes \cup {Null}] /\ last' \in Places
    BY <2>1, <2>2 DEF Places
  <2> QED
    BY <1>i, <2>2, <2>3
<1>4. CASE PushBackTooLate(t)
  BY <1>4 DEF PushBackTooLate
<1>5. ASSUME NEW op \in Visits \cup Edits, Begin(t, op)
      PROVE  TypeOK'
  <2>1. op \in PC
    BY DEF PC
  <2>2. ToSet(Listed) \subseteq Nodes
    BY ListedIs DEF IInv, Lists
  <2> HIDE DEF Listed
  <2> QED
    BY <1>5, <2>1, <2>2 DEF Begin, Places
<1>6. CASE LockNext(t)
  <2>n. PICK n : n = next[cur[t]]
    OBVIOUS
  <2>1. /\ nxt[t] = Null /\ pc[t] \in Visits \cup Edits /\ n # Null
        /\ UNCHANGED <<next, last, free, pc, cur>>
    BY <1>6, <2>n DEF LockNext, Walking
  <2>2. Spot(t) = cur[t]
    BY <2>1 DEF Spot
  <2>3. cur[t] \in Places /\ n \in Nodes /\ n \notin free
    BY <2>n, <2>1, <2>2, WalkAhead
  <2>4. /\ owner' = [owner EXCEPT ![n] = t, ![cur[t]] = IF pc[t] \in Visits THEN Null ELSE @]
        /\ nxt' = [nxt EXCEPT ![t] = n]
        /\ unseen' = [unseen EXCEPT ![t] = @ \ {n}]
        /\ UNCHANGED error
    BY <1>6, <2>n, <2>3 DEF LockNext
  <2>5. owner' \in [Places -> Threads \cup {Null}]
    BY <2>3, <2>4
  <2>6. nxt' \in [Threads -> Nodes \cup {Null}] /\ unseen' \in [Threads -> SUBSET Nodes]
    BY <2>3, <2>4
  <2> QED
    BY <2>1, <2>4, <2>5, <2>6
<1>7. CASE Step(t)
  <2>1. nxt[t] \in Places
    BY <1>7 DEF Step, Places
  <2> QED
    BY <1>7, <2>1 DEF Step
<1>8. Unlocked(t) \in [Places -> Threads \cup {Null}]
  BY DEF Unlocked
<1>9. CASE Finish(t) \/ find_first_if(t)
  BY <1>i, <1>8, <1>9 DEF Finish, find_first_if
<1>10. CASE remove_if(t) \/ remove_first(t)
  <2>1. pc[t] \in Visits \cup Edits /\ nxt[t] # Null
    BY <1>10 DEF remove_if, remove_first, IInv, PC, Visits, Edits
  <2>2. nxt[t] \in Nodes /\ nxt[t] \in Places /\ cur[t] \in Places
    BY <2>1, WalkAhead DEF Places
  <2>3. next[nxt[t]] \in Nodes \cup {Null}
    BY <2>2
  <2>4. CASE remove_if(t)
    BY <2>2, <2>3, <2>4 DEF remove_if, Unlink
  <2>5. CASE remove_first(t)
    BY <1>i, <1>8, <2>2, <2>3, <2>5 DEF remove_first, Unlink
  <2> QED
    BY <1>10, <2>4, <2>5
<1>11. CASE insert_if(t)
  <2>1. pc[t] \in Visits \cup Edits /\ nxt[t] # Null
    BY <1>11 DEF insert_if, PC, Visits, Edits
  <2>2. nxt[t] \in Nodes
    BY <2>1
  <2> QED
    BY <1>i, <1>8, <1>11, <2>2 DEF insert_if
<1> QED
  BY <1>1, <1>2, <1>3, <1>4, <1>5, <1>6, <1>7, <1>9, <1>10, <1>11 DEF Steps, Walk

\* A step that leaves the list, and the pushes, alone.
LEMMA SameLists ==
    ASSUME IInv, NEW t \in Threads, Steps(t), UNCHANGED <<next, free, last>>,
           pc[t] # "push_back", pc'[t] # "push_back"
    PROVE  Lists'
<1>1. \A u \in Threads : pc[u] = "push_back" => pc'[u] = pc[u] /\ nxt'[u] = nxt[u]
  BY OthersKept DEF IInv
<1>2. Apart'
  BY <1>1 DEF IInv, Lists, Apart
<1> QED
  BY <1>2 DEF IInv, Lists, Ends

\* A walk begins.
LEMMA BeginRight ==
    ASSUME ConstantsAssumption, IInv, NEW t \in Threads, Steps(t),
           NEW op \in Visits \cup Edits, Begin(t, op)
    PROVE  Lists' /\ LocalsOK'
<1>0. TypeOK /\ Ok(head, next) /\ LocalOK(t)
  BY DEF IInv, Lists, LocalsOK
<1>1. /\ pc[t] = "idle" /\ pc'[t] = op /\ op \notin {"idle", "push_back"}
      /\ owner'[head] = t /\ cur'[t] = head /\ unseen'[t] = ToSet(Listed)
      /\ UNCHANGED <<next, last, free, nxt>>
  BY <1>0, FinitePlaces DEF Begin, Idle, TypeOK, Visits, Edits
<1>2. nxt'[t] = Null
  BY <1>0, <1>1 DEF LocalOK
<1>3. head \in On(head, next) /\ unseen'[t] = On(next[head], next) /\ head # Null
  BY <1>0, <1>1, ListedIs, OkPlaces, FinitePlaces
<1>4. WalkOK(t)'
  BY <1>1, <1>2, <1>3 DEF WalkOK, Spot
<1>5. LocalOK(t)'
  BY <1>1, <1>4 DEF LocalOK
<1>6. \A u \in Threads : u # t => LocalOK(u)'
  BY <1>1, OthersSame
<1>7. Lists'
  BY <1>1, SameLists
<1> QED
  BY <1>5, <1>6, <1>7 DEF LocalsOK

\* It takes the next mutex.
LEMMA LockNextRight ==
    ASSUME ConstantsAssumption, IInv, NEW t \in Threads, Steps(t), LockNext(t)
    PROVE  Lists' /\ LocalsOK'
<1>0. TypeOK /\ Ok(head, next) /\ LocalOK(t)
  BY DEF IInv, Lists, LocalsOK
<1>n. PICK n, c : n = next[cur[t]] /\ c = cur[t]
  OBVIOUS
<1>1. /\ nxt[t] = Null /\ pc[t] \in Visits \cup Edits /\ n # Null
      /\ UNCHANGED <<next, last, free, pc, cur>>
  BY <1>n DEF LockNext, Walking
<1>2. Spot(t) = c
  BY <1>n, <1>1 DEF Spot
<1>3. /\ c \in Places /\ c \in On(head, next) /\ n \in On(head, next) /\ n # c /\ n # head
      /\ n \notin free
  BY <1>n, <1>1, <1>2, WalkAhead
<1>4. n \in Nodes
  BY <1>0, <1>3, OkPlaces DEF Places
<1>5. /\ owner' = [owner EXCEPT ![n] = t, ![c] = IF pc[t] \in Visits THEN Null ELSE @]
      /\ nxt' = [nxt EXCEPT ![t] = n]
      /\ unseen' = [unseen EXCEPT ![t] = @ \ {n}]
  BY <1>n, <1>3 DEF LockNext
<1>6. WalkOK(t)
  BY <1>0, <1>1 DEF LocalOK
<1>7. owner[c] = t /\ unseen[t] \subseteq On(n, next) /\ c # Null
  BY <1>n, <1>2, <1>6 DEF WalkOK
<1>8. /\ owner'[n] = t /\ (pc[t] \in Edits => owner'[c] = t) /\ nxt'[t] = n
      /\ unseen'[t] = unseen[t] \ {n}
  <2>1. owner'[n] = t
    BY <1>0, <1>3, <1>4, <1>5 DEF TypeOK, Places
  <2>2. pc[t] \in Edits => owner'[c] = t
    BY <1>0, <1>3, <1>5, <1>7 DEF TypeOK, Visits, Edits
  <2> QED
    BY <1>0, <1>5, <2>1, <2>2 DEF TypeOK
<1>9. On(next[n], next) = On(n, next) \ {n}
  BY <1>0, <1>3, OkNext
<1>10. n # Null
  BY <1>1
<1>11. WalkOK(t)'
  <2>1. Spot(t)' = n
    BY <1>8, <1>10 DEF Spot
  <2>2. unseen'[t] \subseteq On(next'[n], next')
    BY <1>1, <1>7, <1>8, <1>9
  <2>3. cur'[t] = c /\ next'[c] = n /\ c \notin {n, Null}
    BY <1>n, <1>1, <1>3, <1>7
  <2> QED
    BY <1>1, <1>3, <1>8, <2>1, <2>2, <2>3 DEF WalkOK
<1>12. LocalOK(t)'
  BY <1>1, <1>11 DEF LocalOK, Visits, Edits
<1>13. pc[t] # "push_back" /\ pc'[t] # "push_back"
  BY <1>1 DEF Visits, Edits
<1>14. \A u \in Threads : u # t => LocalOK(u)'
  BY <1>1, <1>13, OthersSame
<1>15. Lists'
  BY <1>1, <1>13, SameLists
<1> QED
  BY <1>12, <1>14, <1>15 DEF LocalsOK

\* It goes on to it.
LEMMA StepRight ==
    ASSUME ConstantsAssumption, IInv, NEW t \in Threads, Steps(t), Step(t)
    PROVE  Lists' /\ LocalsOK'
<1>0. TypeOK /\ LocalOK(t)
  BY DEF IInv, LocalsOK
<1>n. PICK n, c : n = nxt[t] /\ c = cur[t]
  OBVIOUS
<1>1. /\ n # Null /\ pc[t] \in Visits \cup Edits
      /\ UNCHANGED <<next, last, free, pc, unseen>>
      /\ owner' = [owner EXCEPT ![c] = IF @ = t THEN Null ELSE @]
      /\ cur' = [cur EXCEPT ![t] = n] /\ nxt' = [nxt EXCEPT ![t] = Null]
  BY <1>n DEF Step, Walking
<1>2. WalkOK(t)
  BY <1>0, <1>1 DEF LocalOK
<1>3. Spot(t) = n /\ cur'[t] = n /\ nxt'[t] = Null
  BY <1>0, <1>n, <1>1 DEF Spot, TypeOK
<1>4. /\ n \in On(head, next) /\ owner[n] = t /\ c # n /\ unseen[t] \subseteq On(next[n], next)
  BY <1>n, <1>2, <1>3 DEF WalkOK
<1>5. owner'[n] = t
  BY <1>0, <1>n, <1>1, <1>4 DEF TypeOK, Places
<1>6. WalkOK(t)'
  <2>1. Spot(t)' = n
    BY <1>3 DEF Spot
  <2> QED
    BY <1>1, <1>3, <1>4, <1>5, <2>1 DEF WalkOK
<1>7. LocalOK(t)'
  BY <1>1, <1>6 DEF LocalOK, Visits, Edits
<1>8. pc[t] # "push_back" /\ pc'[t] # "push_back"
  BY <1>1 DEF Visits, Edits
<1>9. \A u \in Threads : u # t => LocalOK(u)'
  BY <1>1, <1>8, OthersSame
<1>10. Lists'
  BY <1>1, <1>8, SameLists
<1> QED
  BY <1>7, <1>9, <1>10 DEF LocalsOK

\* Its end.
LEMMA FinishRight ==
    ASSUME ConstantsAssumption, IInv, NEW t \in Threads, Steps(t), Finish(t) \/ find_first_if(t)
    PROVE  Lists' /\ LocalsOK'
<1>0. TypeOK
  BY DEF IInv
<1>1. /\ pc[t] # "push_back" /\ pc'[t] = "idle" /\ nxt'[t] = Null
      /\ UNCHANGED <<next, last, free>>
  BY <1>0 DEF Finish, AtEnd, Walking, find_first_if, Return, TypeOK, Visits, Edits
<1>2. LocalOK(t)'
  BY <1>1 DEF LocalOK, Visits, Edits
<1>3. \A u \in Threads : u # t => LocalOK(u)'
  BY <1>1, OthersSame
<1>4. Lists'
  BY <1>1, SameLists
<1> QED
  BY <1>2, <1>3, <1>4 DEF LocalsOK

\* push_back has come too late: nothing changes.
LEMMA TooLateRight ==
    ASSUME ConstantsAssumption, IInv, NEW t \in Threads, Steps(t), PushBackTooLate(t)
    PROVE  Lists' /\ LocalsOK'
<1>1. UNCHANGED <<next, owner, last, free, pc, cur, nxt, unseen>>
  BY DEF PushBackTooLate
<1>2. Lists'
  BY <1>1 DEF IInv, Lists, Apart, Ends
<1>3. \A u \in Threads : LocalOK(u) => LocalOK(u)'
  BY <1>1 DEF LocalOK, PushOK, WalkOK, Spot
<1> QED
  BY <1>2, <1>3 DEF IInv, LocalsOK


\* A node is pushed at the front,
LEMMA PushFrontRight ==
    ASSUME ConstantsAssumption, IInv, NEW t \in Threads, Steps(t), push_front(t)
    PROVE  Lists' /\ LocalsOK'
<1>0. TypeOK /\ Ok(head, next) /\ Apart /\ Ends /\ LocalOK(t)
  BY DEF IInv, Lists, LocalsOK
<1>1. PICK n \in free :
        /\ free' = free \ {n}
        /\ next' = [next EXCEPT ![n] = next[head], ![head] = n]
        /\ last' = IF Double /\ next[head] = Null THEN n ELSE last
  BY DEF push_front
<1>2. /\ pc[t] = "idle" /\ owner[head] = Null
      /\ UNCHANGED <<owner, pc, cur, nxt, unseen>>
  BY DEF push_front, Idle
<1>p. /\ On(head, next) \subseteq Places /\ head \in Places /\ head \in On(head, next)
      /\ n \in Nodes /\ n \in Places /\ n # head /\ n \notin On(head, next)
  BY <1>0, OkPlaces, FinitePlaces DEF TypeOK, Apart, ConstantsAssumption, Places
<1>3. next'[head] = n /\ next'[n] = next[head] /\ \A m \in Places \ {head, n} : next'[m] = next[m]
  BY <1>0, <1>1, <1>p DEF TypeOK
<1>4. Inserts(t, head, n)
  BY <1>2, <1>3, <1>p DEF Inserts
<1>5. /\ Ok(head, next') /\ On(head, next') = On(head, next) \cup {n}
  BY <1>4, InsertList
<1>6. Apart'
  <2>1. free' \cap On(head, next') = {}
    BY <1>0, <1>1, <1>5 DEF Apart
  <2>2. ASSUME NEW m \in Nodes
        PROVE  \/ m \in free' \cup On(head, next')
               \/ \E u \in Threads : pc'[u] = "push_back" /\ nxt'[u] = m
    BY <1>0, <1>1, <1>2, <1>5 DEF Apart
  <2> QED
    BY <2>1, <2>2 DEF Apart
<1>7. Ends'
  <2> SUFFICES ASSUME Double
               PROVE  last' \in On(head, next') /\ next'[last'] = Null
    BY DEF Ends
  <2>1. CASE next[head] = Null
    BY <1>1, <1>3, <1>5, <2>1
  <2>2. CASE next[head] # Null
    <3>1. last' = last /\ last \in On(head, next) /\ next[last] = Null
      BY <1>0, <1>1, <2>2 DEF Ends
    <3>2. last # head /\ last # n /\ last \in Places
      BY <1>p, <2>2, <3>1
    <3> QED
      BY <1>3, <1>5, <3>1, <3>2
  <2> QED
    BY <2>1, <2>2
<1>8. LocalOK(t)'
  BY <1>0, <1>2 DEF LocalOK, Visits, Edits
<1>9. \A u \in Threads : u # t => LocalOK(u)'
  BY <1>1, <1>2, <1>4, OthersInsert
<1> QED
  BY <1>5, <1>6, <1>7, <1>8, <1>9 DEF Lists, LocalsOK

\* before the node that a walk has found,
LEMMA InsertIfRight ==
    ASSUME ConstantsAssumption, IInv, NEW t \in Threads, Steps(t), insert_if(t)
    PROVE  Lists' /\ LocalsOK'
<1>0. TypeOK /\ Ok(head, next) /\ Apart /\ Ends /\ LocalOK(t)
  BY DEF IInv, Lists, LocalsOK
<1>k. PICK c, k : c = cur[t] /\ k = nxt[t]
  OBVIOUS
<1>1. PICK n \in free :
        /\ free' = free \ {n}
        /\ next' = [next EXCEPT ![n] = k, ![c] = n]
  BY <1>k DEF insert_if
<1>2. /\ pc[t] = "insert_if" /\ k # Null /\ last' = last
  BY <1>k DEF insert_if
<1>i. pc[t] \in Visits \cup Edits /\ pc[t] \in Edits
  BY <1>0, <1>2 DEF TypeOK, PC, Visits, Edits
<1>3. pc'[t] = "idle" /\ nxt'[t] = Null
  BY <1>0 DEF insert_if, Return, TypeOK
<1>o. \A u \in Threads : u # t => pc'[u] = pc[u] /\ nxt'[u] = nxt[u]
  BY <1>0, OthersKept
<1>4. c \in On(head, next) /\ owner[c] = t /\ next[c] = k
  BY <1>0, <1>k, <1>2, <1>i DEF LocalOK, WalkOK
<1>p. /\ On(head, next) \subseteq Places /\ c \in Places
      /\ n \in Nodes /\ n \in Places /\ n # c /\ n \notin On(head, next)
  BY <1>0, <1>4, OkPlaces DEF TypeOK, Apart, Places
<1>5. next'[c] = n /\ next'[n] = next[c] /\ \A m \in Places \ {c, n} : next'[m] = next[m]
  BY <1>0, <1>1, <1>4, <1>p DEF TypeOK
<1>6. Inserts(t, c, n)
  BY <1>4, <1>5, <1>p DEF Inserts
<1>7. /\ Ok(head, next') /\ On(head, next') = On(head, next) \cup {n}
  BY <1>6, InsertList
<1>8. Apart'
  <2>1. free' \cap On(head, next') = {}
    BY <1>0, <1>1, <1>7 DEF Apart
  <2>2. ASSUME NEW m \in Nodes
        PROVE  \/ m \in free' \cup On(head, next')
               \/ \E u \in Threads : pc'[u] = "push_back" /\ nxt'[u] = m
    BY <1>0, <1>1, <1>2, <1>o, <1>7 DEF Apart
  <2> QED
    BY <2>1, <2>2 DEF Apart
<1>9. Ends'
  <2> SUFFICES ASSUME Double
               PROVE  last' \in On(head, next') /\ next'[last'] = Null
    BY DEF Ends
  <2>1. last' = last /\ last \in On(head, next) /\ next[last] = Null
    BY <1>0, <1>2 DEF Ends
  <2>2. last # c /\ last # n /\ last \in Places
    BY <1>2, <1>4, <1>p, <2>1
  <2> QED
    BY <1>5, <1>7, <2>1, <2>2
<1>10. LocalOK(t)'
  BY <1>3 DEF LocalOK, Visits, Edits
<1>11. \A u \in Threads : u # t => LocalOK(u)'
  BY <1>1, <1>3, <1>6, OthersInsert
<1> QED
  BY <1>7, <1>8, <1>9, <1>10, <1>11 DEF Lists, LocalsOK

\* at the back.
LEMMA PushBackRight ==
    ASSUME ConstantsAssumption, IInv, NEW t \in Threads, Steps(t), push_back(t)
    PROVE  Lists' /\ LocalsOK'
<1>0. TypeOK /\ Ok(head, next) /\ Apart /\ Ends /\ LocalOK(t)
  BY DEF IInv, Lists, LocalsOK
<1>n. PICK n : n = nxt[t]
  OBVIOUS
<1>1. /\ pc[t] = "push_back" /\ owner[last] = Null
      /\ next' = [next EXCEPT ![last] = n] /\ last' = n /\ free' = free
  BY <1>n DEF push_back
<1>2. pc'[t] = "idle" /\ nxt'[t] = Null
  BY <1>0 DEF push_back, Return, TypeOK
<1>o. \A u \in Threads : u # t => pc'[u] = pc[u] /\ nxt'[u] = nxt[u]
  BY <1>0, OthersKept
<1>d. Double
  BY <1>0, <1>1 DEF TypeOK, PC, Visits, Edits
<1>3. PushOK(t)
  BY <1>0, <1>1 DEF LocalOK
<1>4. n \in Nodes /\ n \notin free /\ n \notin On(head, next) /\ next[n] = Null
  BY <1>n, <1>3 DEF PushOK
<1>5. last \in On(head, next) /\ next[last] = Null
  BY <1>0, <1>d DEF Ends
<1>p. /\ On(head, next) \subseteq Places /\ last \in Places /\ n \in Places /\ n # last
  BY <1>0, <1>4, <1>5, OkPlaces DEF Places
<1>6. next'[last] = n /\ next'[n] = Null /\ \A m \in Places \ {last, n} : next'[m] = next[m]
  BY <1>0, <1>1, <1>4, <1>p DEF TypeOK
<1>l. PICK l : l = last
  OBVIOUS
<1>7. Inserts(t, l, n)
  BY <1>l, <1>1, <1>4, <1>5, <1>6 DEF Inserts
<1>8. /\ Ok(head, next') /\ On(head, next') = On(head, next) \cup {n}
  BY <1>7, InsertList
<1>9. Apart'
  <2>1. free' \cap On(head, next') = {}
    BY <1>0, <1>1, <1>4, <1>8 DEF Apart
  <2>2. ASSUME NEW m \in Nodes
        PROVE  \/ m \in free' \cup On(head, next')
               \/ \E u \in Threads : pc'[u] = "push_back" /\ nxt'[u] = m
    <3>1. \/ m \in free \cup On(head, next)
          \/ \E u \in Threads : pc[u] = "push_back" /\ nxt[u] = m
      BY <1>0 DEF Apart
    <3>2. m # n => \A u \in Threads : pc[u] = "push_back" /\ nxt[u] = m => u # t
      BY <1>n
    <3> QED
      BY <1>1, <1>8, <1>o, <3>1, <3>2
  <2> QED
    BY <2>1, <2>2 DEF Apart
<1>10. Ends'
  BY <1>1, <1>6, <1>8 DEF Ends
<1>11. LocalOK(t)'
  BY <1>2 DEF LocalOK, Visits, Edits
<1>12. \A u \in Threads : u # t => LocalOK(u)'
  BY <1>1, <1>2, <1>7, <1>n, OthersInsert
<1> QED
  BY <1>8, <1>9, <1>10, <1>11, <1>12 DEF Lists, LocalsOK

\* push_back takes its node.
LEMMA PushBackArgumentRight ==
    ASSUME ConstantsAssumption, IInv, NEW t \in Threads, Steps(t), PushBackArgument(t)
    PROVE  Lists' /\ LocalsOK'
<1>0. TypeOK /\ Ok(head, next) /\ Apart /\ Ends /\ LocalOK(t) /\ LocalsOK
  BY DEF IInv, Lists, LocalsOK
<1>1. PICK n \in free :
        /\ free' = free \ {n}
        /\ next' = [next EXCEPT ![n] = Null]
        /\ nxt' = [nxt EXCEPT ![t] = n]
  BY DEF PushBackArgument
<1>2. pc[t] = "idle" /\ last' = last
  BY DEF PushBackArgument, Idle
<1>3. pc'[t] = "push_back" /\ nxt'[t] = n
  BY <1>0, <1>1 DEF PushBackArgument, TypeOK
<1>o. \A u \in Threads : u # t => pc'[u] = pc[u] /\ nxt'[u] = nxt[u]
  BY <1>0, OthersKept
<1>4. n \in Nodes /\ n \in Places /\ n \notin On(head, next)
  BY <1>0 DEF TypeOK, Apart, Places
<1>5. next'[n] = Null /\ \A m \in Places \ {n} : next'[m] = next[m]
  BY <1>0, <1>1, <1>4 DEF TypeOK
<1>p. On(head, next) \subseteq Places
  BY <1>0, OkPlaces
<1>6. \A m \in On(head, next) : next'[m] = next[m]
  BY <1>4, <1>5, <1>p
<1>7. Ok(head, next') /\ On(head, next') = On(head, next)
  BY <1>0, <1>6, OkFrame
<1>8. Apart'
  <2>1. free' \cap On(head, next') = {}
    BY <1>0, <1>1, <1>7 DEF Apart
  <2>2. ASSUME NEW m \in Nodes
        PROVE  \/ m \in free' \cup On(head, next')
               \/ \E u \in Threads : pc'[u] = "push_back" /\ nxt'[u] = m
    <3>1. \/ m \in free \cup On(head, next)
          \/ \E u \in Threads : u # t /\ pc[u] = "push_back" /\ nxt[u] = m
      BY <1>0, <1>2 DEF Apart
    <3> QED
      BY <1>1, <1>3, <1>7, <1>o, <3>1
  <2> QED
    BY <2>1, <2>2 DEF Apart
<1>9. Ends'
  BY <1>0, <1>2, <1>6, <1>7 DEF Ends
<1>10. \A u \in Threads : u # t /\ pc[u] = "push_back" => nxt[u] # n /\ nxt[u] \in Nodes
  BY <1>0 DEF LocalsOK, LocalOK, PushOK
<1>11. LocalOK(t)'
  <2>1. PushOK(t)'
    BY <1>1, <1>3, <1>4, <1>5, <1>7, <1>10, <1>o DEF PushOK
  <2> QED
    BY <1>3, <2>1 DEF LocalOK, Visits, Edits
<1>12. ASSUME NEW u \in Threads, u # t
       PROVE  LocalOK(u)'
  <2>0. LocalOK(u) /\ pc'[u] = pc[u] /\ nxt'[u] = nxt[u]
    BY <1>0, <1>o, <1>12 DEF LocalsOK
  <2>1. CASE pc[u] = "push_back"
    <3>k. PICK k : k = nxt[u]
      OBVIOUS
    <3>1. PushOK(u) /\ k \in Nodes /\ k \notin free /\ k \notin On(head, next) /\ k # n
      BY <1>10, <1>12, <2>0, <2>1, <3>k DEF LocalOK, PushOK
    <3>2. next'[k] = next[k] /\ k \notin free' \cup On(head', next')
      BY <1>1, <1>5, <1>7, <3>1 DEF Places
    <3>3. PushOK(u)'
      BY <1>3, <1>12, <2>1, <3>k, <3>1, <3>2, PushStays
    <3> QED
      BY <2>0, <2>1, <3>3 DEF LocalOK, Visits, Edits
  <2>2. CASE pc[u] \in Visits \cup Edits
    <3>1. WalkOK(u)
      BY <2>0, <2>2 DEF LocalOK
    <3>2. ASSUME NEW m \in On(head, next), owner[m] = u
          PROVE  m \in On(head, next') /\ next'[m] = next[m]
      BY <1>6, <1>7
    <3>3. ASSUME NEW s, s = next[Spot(u)]
          PROVE  unseen'[u] \cap On(s, next) \subseteq On(s, next')
      <4>1. Spot(u) \in On(head, next)
        BY <3>1 DEF WalkOK
      <4>2. Ok(s, next) /\ On(s, next) \subseteq On(head, next)
        BY <1>0, <3>3, <4>1, OkNext
      <4>3. On(s, next') = On(s, next)
        BY <1>6, <4>2, OkFrame
      <4> QED
        BY <4>3
    <3>4. WalkOK(u)'
      BY <1>12, <3>1, <3>2, <3>3, WalkStays
    <3> QED
      BY <2>0, <2>2, <3>4 DEF LocalOK, Visits, Edits
  <2>3. CASE pc[u] \notin {"push_back"} \cup Visits \cup Edits
    BY <2>0, <2>3 DEF LocalOK
  <2> QED
    BY <2>1, <2>2, <2>3
<1> QED
  BY <1>7, <1>8, <1>9, <1>11, <1>12 DEF Lists, LocalsOK

\* The list after a removal.
LEMMA RemoveLists ==
    ASSUME ConstantsAssumption, IInv, NEW t \in Threads, Steps(t), NEW c, NEW n,
           Removes(t, c, n), pc[t] # "push_back",
           last' = IF Double /\ next[n] = Null THEN c ELSE last
    PROVE  Lists'
<1>0. Ok(head, next) /\ Apart /\ Ends /\ TypeOK
  BY DEF IInv, Lists
<1>1. Ok(head, next') /\ On(head, next') = On(head, next) \ {n}
  BY RemoveList
<1>o. \A u \in Threads : pc[u] = "push_back" => pc'[u] = pc[u] /\ nxt'[u] = nxt[u]
  BY <1>0, OthersKept
<1>2. /\ c \in On(head, next) /\ n \in On(head, next) /\ n # c /\ next'[c] = next[n]
      /\ next[c] = n /\ n # Null
      /\ \A m \in Places \ {c} : next'[m] = next[m]
      /\ free' = free \cup {n}
  BY DEF Removes, ConstantsAssumption
<1>3. Apart'
  <2>1. free' \cap On(head, next') = {}
    BY <1>0, <1>1, <1>2 DEF Apart
  <2>2. ASSUME NEW m \in Nodes
        PROVE  \/ m \in free' \cup On(head, next')
               \/ \E u \in Threads : pc'[u] = "push_back" /\ nxt'[u] = m
    BY <1>0, <1>1, <1>2, <1>o DEF Apart
  <2> QED
    BY <2>1, <2>2 DEF Apart
<1>4. Ends'
  <2> SUFFICES ASSUME Double
               PROVE  last' \in On(head, next') /\ next'[last'] = Null
    BY DEF Ends
  <2>1. CASE next[n] = Null
    BY <1>1, <1>2, <2>1
  <2>2. CASE next[n] # Null
    <3>1. last' = last /\ last \in On(head, next) /\ next[last] = Null
      BY <1>0, <2>2 DEF Ends
    <3>2. last # n /\ last # c /\ last \in Places
      BY <1>0, <1>2, <2>2, <3>1, OkPlaces
    <3> QED
      BY <1>1, <1>2, <3>1, <3>2
  <2> QED
    BY <2>1, <2>2
<1> QED
  BY <1>1, <1>3, <1>4 DEF Lists

\* The node a walk has found goes,
LEMMA RemoveIfRight ==
    ASSUME ConstantsAssumption, IInv, NEW t \in Threads, Steps(t), remove_if(t)
    PROVE  Lists' /\ LocalsOK'
<1>0. TypeOK /\ Ok(head, next) /\ LocalOK(t)
  BY DEF IInv, Lists, LocalsOK
<1>n. PICK n, c, k : n = nxt[t] /\ c = cur[t] /\ k = next[n]
  OBVIOUS
<1>1. /\ pc[t] = "remove_if" /\ n # Null
      /\ next' = [next EXCEPT ![c] = k]
      /\ last' = IF Double /\ k = Null THEN c ELSE last
      /\ free' = free \cup {n}
      /\ owner' = [owner EXCEPT ![n] = Null]
      /\ nxt' = [nxt EXCEPT ![t] = Null]
      /\ unseen' = [u \in Threads |-> unseen[u] \ {n}]
      /\ UNCHANGED <<pc, cur>>
  BY <1>n DEF remove_if, Unlink
<1>i. pc[t] \in Edits /\ pc[t] \notin {"idle", "push_back"}
  BY <1>1 DEF Edits
<1>2. WalkOK(t)
  BY <1>0, <1>i DEF LocalOK
<1>3. Spot(t) = n
  BY <1>n, <1>1 DEF Spot
<1>4. /\ n \in On(head, next) /\ owner[n] = t /\ c # n /\ c # Null
      /\ unseen[t] \subseteq On(k, next)
      /\ c \in On(head, next) /\ owner[c] = t /\ next[c] = n
  BY <1>n, <1>1, <1>2, <1>3, <1>i DEF WalkOK
<1>5. n \in Nodes /\ n \in Places /\ c \in Places
  BY <1>0, <1>n, <1>1, <1>4, OkPlaces DEF TypeOK, Places
<1>6. next'[c] = k /\ \A m \in Places \ {c} : next'[m] = next[m]
  BY <1>0, <1>1, <1>5 DEF TypeOK
<1>7. \A u \in Threads : unseen'[u] = unseen[u] \ {n}
  BY <1>1
<1>8. Removes(t, c, n)
  BY <1>n, <1>1, <1>4, <1>5, <1>6, <1>7 DEF Removes
<1>9. Lists'
  BY <1>n, <1>1, <1>i, <1>8, RemoveLists
<1>10. \A u \in Threads : u # t => LocalOK(u)'
  BY <1>1, <1>i, <1>8, OthersRemove
<1>11. On(head, next') = On(head, next) \ {n}
  BY <1>8, RemoveList
<1>12. unseen'[t] \subseteq On(k, next')
  <2>1. On(n, next) = On(c, next) \ {c} /\ On(n, next) \subseteq Places
    BY <1>0, <1>4, OkNext, OkPlaces
  <2>2. Ok(k, next) /\ On(k, next) = On(n, next) \ {n}
    BY <1>0, <1>n, <1>4, OkNext
  <2>3. \A m \in On(k, next) : next'[m] = next[m]
    BY <1>6, <2>1, <2>2
  <2>4. On(k, next') = On(k, next)
    BY <2>2, <2>3, OkFrame
  <2> QED
    BY <1>4, <1>7, <2>4
<1>13. LocalOK(t)'
  <2>1. nxt'[t] = Null /\ cur'[t] = c /\ owner'[c] = t
    BY <1>0, <1>n, <1>1, <1>4, <1>5 DEF TypeOK
  <2>2. Spot(t)' = c
    BY <2>1 DEF Spot
  <2>3. WalkOK(t)'
    BY <1>4, <1>6, <1>11, <1>12, <2>1, <2>2 DEF WalkOK
  <2> QED
    BY <1>1, <1>i, <2>3 DEF LocalOK
<1> QED
  BY <1>9, <1>10, <1>13 DEF LocalsOK

\* or ends the walk as well.
LEMMA RemoveFirstRight ==
    ASSUME ConstantsAssumption, IInv, NEW t \in Threads, Steps(t), remove_first(t)
    PROVE  Lists' /\ LocalsOK'
<1>0. TypeOK /\ Ok(head, next) /\ LocalOK(t)
  BY DEF IInv, Lists, LocalsOK
<1>n. PICK n, c, k : n = nxt[t] /\ c = cur[t] /\ k = next[n]
  OBVIOUS
<1>1. /\ pc[t] = "remove_first" /\ n # Null
      /\ next' = [next EXCEPT ![c] = k]
      /\ last' = IF Double /\ k = Null THEN c ELSE last
      /\ free' = free \cup {n}
      /\ pc' = [pc EXCEPT ![t] = "idle"]
      /\ nxt' = [nxt EXCEPT ![t] = Null]
      /\ unseen' = [u \in Threads |-> IF u = t THEN {} ELSE unseen[u] \ {n}]
  BY <1>n DEF remove_first, Unlink
<1>i. pc[t] \in Edits /\ pc[t] \notin {"idle", "push_back"}
  BY <1>0, <1>1 DEF TypeOK, PC, Visits, Edits
<1>2. WalkOK(t)
  BY <1>0, <1>i DEF LocalOK
<1>3. Spot(t) = n
  BY <1>n, <1>1 DEF Spot
<1>4. /\ n \in On(head, next) /\ owner[n] = t /\ c # n
      /\ c \in On(head, next) /\ owner[c] = t /\ next[c] = n
  BY <1>n, <1>1, <1>2, <1>3, <1>i DEF WalkOK
<1>5. n \in Nodes /\ c \in Places
  BY <1>0, <1>n, <1>1, <1>4, OkPlaces DEF TypeOK
<1>6. next'[c] = k /\ \A m \in Places \ {c} : next'[m] = next[m]
  BY <1>0, <1>1, <1>5 DEF TypeOK
<1>7. \A u \in Threads : unseen'[u] \subseteq unseen[u] \ {n}
  BY <1>1
<1>8. Removes(t, c, n)
  BY <1>n, <1>1, <1>4, <1>5, <1>6, <1>7 DEF Removes
<1>9. Lists'
  BY <1>n, <1>1, <1>i, <1>8, RemoveLists
<1>r. pc'[t] = "idle" /\ nxt'[t] = Null
  BY <1>0, <1>1 DEF TypeOK
<1>10. \A u \in Threads : u # t => LocalOK(u)'
  BY <1>r, <1>8, OthersRemove
<1>11. LocalOK(t)'
  BY <1>r DEF LocalOK, Visits, Edits
<1> QED
  BY <1>9, <1>10, <1>11 DEF LocalsOK


-----------------------------------------------------------------------------
(* The theorems *)

\* The constructor establishes the invariant.
LEMMA InitIInv ==
    ASSUME ConstantsAssumption, Init
    PROVE  IInv
<1>1. TypeOK
  BY FinitePlaces DEF Init, TypeOK, Places, PC
<1>2. Ok(head, next) /\ On(head, next) = {head}
  <2>1. /\ IsFiniteSet(Places) /\ Null \notin Places /\ head \in Places
        /\ next[head] = Null
    BY FinitePlaces DEF Init, Places
  <2>2. IsLinked(Null, next, Null, Places) /\ OnList(Null, next, Null, Places) = {}
    BY <2>1, ListEmpty
  <2>3. InFront(head, Null, next, next, OnList(Null, next, Null, Places))
    BY <2>1, <2>2 DEF InFront
  <2> QED
    BY <2>1, <2>2, <2>3, ListPush DEF Ok, On
<1>3. Apart
  BY <1>2 DEF Apart, Init, ConstantsAssumption
<1>4. Ends
  BY <1>2, FinitePlaces DEF Ends, Init, Places
<1>5. LocalsOK
  BY DEF LocalsOK, LocalOK, Init, Visits, Edits
<1> QED
  BY <1>1, <1>2, <1>3, <1>4, <1>5 DEF IInv, Lists

\* Every step preserves it.
LEMMA StepIInv ==
    ASSUME ConstantsAssumption, IInv, [Next]_vars
    PROVE  IInv'
<1>1. ASSUME NEW t \in Threads, Steps(t)
      PROVE  IInv'
  <2>0. TypeOK'
    BY <1>1, StepTypeOK
  <2>1. CASE push_front(t) \/ insert_if(t)
    BY <1>1, <2>0, <2>1, PushFrontRight, InsertIfRight DEF IInv
  <2>2. CASE PushBackArgument(t) \/ push_back(t) \/ PushBackTooLate(t)
    BY <1>1, <2>0, <2>2, PushBackArgumentRight, PushBackRight, TooLateRight DEF IInv
  <2>3. CASE \E op \in Visits \cup Edits : Begin(t, op)
    BY <1>1, <2>0, <2>3, BeginRight DEF IInv
  <2>4. CASE LockNext(t) \/ Step(t)
    BY <1>1, <2>0, <2>4, LockNextRight, StepRight DEF IInv
  <2>5. CASE Finish(t) \/ find_first_if(t)
    BY <1>1, <2>0, <2>5, FinishRight DEF IInv
  <2>6. CASE remove_if(t) \/ remove_first(t)
    BY <1>1, <2>0, <2>6, RemoveIfRight, RemoveFirstRight DEF IInv
  <2> QED
    BY <1>1, <2>1, <2>2, <2>3, <2>4, <2>5, <2>6 DEF Steps, Walk
<1>2. CASE UNCHANGED vars
  <2>1. TypeOK' /\ Lists'
    BY <1>2 DEF vars, IInv, TypeOK, Lists, Apart, Ends
  <2>2. \A t \in Threads : LocalOK(t) => LocalOK(t)'
    BY <1>2 DEF vars, LocalOK, PushOK, WalkOK, Spot
  <2> QED
    BY <2>1, <2>2 DEF IInv, LocalsOK
<1> QED
  BY <1>1, <1>2 DEF Next, Steps, Broken

\* Every node is in one place.
LEMMA IInvAccounted ==
    ASSUME ConstantsAssumption, IInv
    PROVE  NodesAccounted
<1> DEFINE listed == Listed
           pushing == {t \in Threads : pc[t] = "push_back"}
           pushed == {nxt[t] : t \in pushing}
<1>0. Ok(head, next) /\ TypeOK /\ Apart /\ Ends /\ LocalsOK
  BY DEF IInv, Lists
<1>1. /\ listed \in Seq(Nodes) /\ Chain(listed, next[head], next, Null)
      /\ ToSet(listed) = On(head, next) \ {head}
      /\ listed = ListOf(next[head], next, Null, Places)
      /\ Ok(next[head], next) /\ ToSet(listed) = On(next[head], next)
  BY <1>0, ListedIs
<1> HIDE DEF listed
<1>2. \A t \in pushing : nxt[t] \in Nodes \ (free \cup On(head, next))
  BY <1>0 DEF LocalsOK, LocalOK, PushOK
<1>3. IsInjective(listed)
  <2>1. DOMAIN listed = 1 .. Len(listed)
    BY <1>1
  <2> QED
    BY <1>1, <2>1 DEF IsInjective, Chain
<1>4. \A s, t \in pushing : s # t => nxt[s] # nxt[t]
  BY <1>0 DEF LocalsOK, LocalOK, PushOK
<1>5. pushed \cap ToSet(listed) = {}
  BY <1>1, <1>2
<1>6. free = Nodes \ (ToSet(listed) \cup pushed)
  <2>1. ASSUME NEW m \in free
        PROVE  m \in Nodes \ (ToSet(listed) \cup pushed)
    <3>1. m \in Nodes /\ m \notin ToSet(listed)
      BY <1>0, <1>1 DEF TypeOK, Apart
    <3>2. m \notin pushed
      BY <1>2
    <3> QED
      BY <3>1, <3>2
  <2>2. ASSUME NEW m \in Nodes, m \notin ToSet(listed), m \notin pushed
        PROVE  m \in free
    <3>1. m # head
      BY DEF ConstantsAssumption
    <3> QED
      BY <1>0, <1>1, <2>2, <3>1 DEF Apart
  <2> QED
    BY <2>1, <2>2
<1>7. Double => last = IF listed = <<>> THEN head ELSE Last(listed)
  <2> SUFFICES ASSUME Double
               PROVE  last = IF listed = <<>> THEN head ELSE Last(listed)
    OBVIOUS
  <2>1. last \in On(head, next) /\ next[last] = Null
    BY <1>0 DEF Ends
  <2>2. last \in ToSet(listed) \/ last = head
    BY <1>1, <2>1
  <2>3. listed = <<>> <=> next[head] = Null
    BY <1>0, <1>1, FinitePlaces DEF Chain, ConstantsAssumption
  <2>4. CASE last = head
    BY <2>1, <2>3, <2>4
  <2>5. CASE last \in ToSet(listed)
    <3>1. listed # <<>>
      BY <2>5 DEF ToSet
    <3>h. PICK h : h = next[head]
      OBVIOUS
    <3>2. last = LastOf(listed)
      <4>1. /\ IsLinked(h, next, Null, Places) /\ last \in OnList(h, next, Null, Places)
            /\ listed = ListOf(h, next, Null, Places)
        BY <1>1, <2>5, <3>h DEF Ok, On
      <4> QED
        BY <2>1, <4>1, ListEnd, FinitePlaces
    <3> QED
      BY <3>1, <3>2 DEF LastOf, Last
  <2> QED
    BY <2>2, <2>4, <2>5
<1> QED
  BY <1>3, <1>4, <1>5, <1>6, <1>7 DEF NodesAccounted, listed

\* A walk holds the mutex of a place of the list, which nobody can delete.
LEMMA IInvSafe ==
    ASSUME ConstantsAssumption, IInv
    PROVE  NoUseAfterFree /\ WalksSeeAll
<1>1. NoUseAfterFree
  BY DEF IInv, TypeOK, NoUseAfterFree
<1>2. ASSUME NEW t \in Threads, AtEnd(t)
      PROVE  unseen[t] = {}
  <2>1. pc[t] \in Visits \cup Edits /\ nxt[t] = Null /\ next[cur[t]] = Null
    BY <1>2 DEF AtEnd, Walking
  <2>2. WalkOK(t) /\ Spot(t) = cur[t]
    BY <2>1 DEF IInv, LocalsOK, LocalOK, Spot
  <2>3. unseen[t] \subseteq On(Null, next)
    BY <2>1, <2>2 DEF WalkOK
  <2> QED
    BY <2>3, OkEmpty
<1> QED
  BY <1>1, <1>2 DEF WalksSeeAll

\* The invariant holds, whether the list has a pointer to its last node or not.
THEOREM Invariance == ASSUME ConstantsAssumption PROVE Spec => []IInv
BY InitIInv, StepIInv, PTL DEF Spec

\* No walk goes into a node that has been deleted (threadsafelist.h:42-97).
THEOREM MemorySafety == ASSUME ConstantsAssumption PROVE Spec => []NoUseAfterFree
BY IInvSafe, Invariance, PTL

\* Every node is deleted, in the list once, or in one push_back.
THEOREM Accounted == ASSUME ConstantsAssumption PROVE Spec => []NodesAccounted
BY IInvAccounted, Invariance, PTL

\* A walk that has reached the end has seen each node that was in the list all the time.
THEOREM WalksComplete == ASSUME ConstantsAssumption PROVE Spec => []WalksSeeAll
BY IInvSafe, Invariance, PTL

=============================================================================
