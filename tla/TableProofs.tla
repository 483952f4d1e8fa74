---------------------------- MODULE TableProofs -----------------------------
(***************************************************************************)
(* Lemmas about the tables of the servers: scans, sums of counters, the    *)
(* table of connections, and tables of objects with references.            *)
(***************************************************************************)
EXTENDS ConnectionTable, RefTable, FiniteSetTheorems, TLAPS

\* The loops that scan a table stop at an index that matches, and at no
\* later one: First(S) is the least element of S.  The argument takes the
\* smallest of the finite intervals 0 .. i with i in S.
THEOREM FirstIsLeast ==
  ASSUME NEW S \in SUBSET Nat, S # {}
  PROVE  First(S) \in S /\ \A j \in S : First(S) <= j
<1>. DEFINE T == {0 .. i : i \in S}
            R == StrictSubsetOrdering(Nat)
<1>1. \A i \in S : IsFiniteSet(0 .. i) /\ 0 .. i \in SUBSET Nat
  BY FS_Interval
<1>2. T \subseteq FiniteSubsetsOf(Nat) /\ T # {}
  BY <1>1, Zenon DEF FiniteSubsetsOf
<1>3. PICK x \in T : \A y \in T : ~(<<y, x>> \in R)
  <2>. HIDE DEF T, R
  <2>1. IsWellFoundedOn(R, FiniteSubsetsOf(Nat))
    BY FS_StrictSubsetOrderingWellFounded DEF R
  <2>. QED
    BY <1>2, <2>1, WFMin
<1>4. PICK i \in S : x = 0 .. i
  BY DEF T
<1>5. \A j \in S : i <= j
  <2>. SUFFICES ASSUME NEW j \in S, j < i
                PROVE  FALSE
    OBVIOUS
  <2>1. 0 .. j \in T /\ 0 .. j \subseteq 0 .. i /\ i \notin 0 .. j /\ i \in 0 .. i
    OBVIOUS
  <2>2. <<0 .. j, x>> \in R
    BY <1>4, <2>1, <1>1, Zenon DEF StrictSubsetOrdering
  <2>. QED
    BY <2>1, <2>2, <1>3, Zenon
<1>. QED
  BY Zenon, <1>4, <1>5 DEF First

-----------------------------------------------------------------------------
(***************************************************************************)
(* Sums of counters.                                                       *)
(***************************************************************************)

\* The units of a function: f[x] pairs for every x.
LEMMA UnitsOf ==
  ASSUME NEW D, NEW f, NEW u, f \in [D -> Nat]
  PROVE  u \in Units(f) <=> \E x \in D : \E k \in 1 .. f[x] : u = <<x, k>>
<1>1. DOMAIN f = D
  OBVIOUS
<1>2. u \in Units(f) <=> \E x \in D : u \in {x} \X (1 .. f[x])
  BY Zenon, <1>1 DEF Units
<1>3. ASSUME NEW x \in D
      PROVE  u \in {x} \X (1 .. f[x]) <=> \E k \in 1 .. f[x] : u = <<x, k>>
  OBVIOUS
<1>. QED
  BY Zenon, <1>2, <1>3

\* There are finitely many units, so that the total is a number.
LEMMA TotalType ==
  ASSUME NEW D, NEW f, IsFiniteSet(D), f \in [D -> Nat]
  PROVE  IsFiniteSet(Units(f)) /\ Total(f) \in Nat
<1>. DEFINE U(x) == {x} \X (1 .. f[x])
            g == [x \in D |-> U(x)]
            T == {U(x) : x \in D}
<1>1. g \in Surjection(D, T)
  BY Zenon DEF Surjection
<1>2. IsFiniteSet(T)
  <2>. HIDE DEF g, T
  <2>. QED
    BY Zenon, <1>1, FS_Surjection
<1>3. \A x \in D : IsFiniteSet(U(x))
  <2>. SUFFICES ASSUME NEW x \in D
                PROVE  IsFiniteSet({x} \X (1 .. f[x]))
    OBVIOUS
  <2>1. f[x] \in Int /\ 1 \in Int
    OBVIOUS
  <2>2. IsFiniteSet({x}) /\ IsFiniteSet(1 .. f[x])
    BY Zenon, <2>1, FS_Singleton, FS_Interval
  <2>. QED
    BY Zenon, <2>2, FS_Product
<1>4. \A S \in T : IsFiniteSet(S)
  BY Zenon, <1>3
<1>5. Units(f) = UNION T
  <2>1. DOMAIN f = D
    OBVIOUS
  <2>. QED
    BY Zenon, <2>1 DEF Units
<1>. HIDE DEF T, U
<1>6. IsFiniteSet(Units(f))
  BY Zenon, <1>2, <1>4, <1>5, FS_UNION
<1>. QED
  BY Zenon, <1>6, FS_CardinalityType DEF Total

\* One counter goes up by one.
LEMMA TotalUp ==
  ASSUME NEW D, NEW f, NEW g, NEW x, IsFiniteSet(D), f \in [D -> Nat], g \in [D -> Nat],
         x \in D, g[x] = f[x] + 1, \A y \in D \ {x} : g[y] = f[y]
  PROVE  Total(g) = Total(f) + 1
<1>. DEFINE n == <<x, f[x] + 1>>
<1>1. ASSUME NEW u
      PROVE  u \in Units(g) <=> u \in Units(f) \/ u = n
  <2>1. u \in Units(g) <=> \E y \in D : \E k \in 1 .. g[y] : u = <<y, k>>
    BY UnitsOf
  <2>2. u \in Units(f) <=> \E y \in D : \E k \in 1 .. f[y] : u = <<y, k>>
    BY UnitsOf
  <2>3. \A k : k \in 1 .. g[x] <=> k \in 1 .. f[x] \/ k = f[x] + 1
    OBVIOUS
  <2>. QED
    BY Zenon, <2>1, <2>2, <2>3
<1>2. Units(g) = Units(f) \cup {n}
  BY Zenon, <1>1
<1>3. n \notin Units(f)
  <2>1. n \in Units(f) <=> \E y \in D : \E k \in 1 .. f[y] : n = <<y, k>>
    BY UnitsOf
  <2>. QED
    BY <2>1
<1>. QED
  BY ZenonT(40), <1>2, <1>3, TotalType, FS_AddElement DEF Total

\* A sum with a counter that is not zero is not zero.
LEMMA TotalPositive ==
  ASSUME NEW D, NEW f, NEW x, IsFiniteSet(D), f \in [D -> Nat], x \in D, f[x] > 0
  PROVE  Total(f) > 0
<1>1. 1 \in 1 .. f[x]
  OBVIOUS
<1>2. <<x, 1>> \in Units(f)
  BY Zenon, <1>1, UnitsOf
<1>3. Cardinality(Units(f)) # 0 /\ Cardinality(Units(f)) \in Nat
  BY Zenon, <1>2, TotalType, FS_EmptySet DEF Total
<1>. QED
  BY <1>3 DEF Total

\* The total of zeros is zero.
LEMMA TotalZero ==
  ASSUME NEW D, NEW f, f \in [D -> Nat], \A x \in D : f[x] = 0
  PROVE  Total(f) = 0
<1>1. \A x \in D : 1 .. f[x] = {}
  OBVIOUS
<1>2. Units(f) = {}
  BY Zenon, <1>1, UnitsOf
<1>. QED
  BY Zenon, <1>2, FS_EmptySet DEF Total

-----------------------------------------------------------------------------
(***************************************************************************)
(* The table of connections.                                               *)
(***************************************************************************)

\* A table t with the indexes D, whose entries in use are those with a count
\* of connections and belong to different clients in K.
ConnTable(D, K, t) ==
  /\ D \subseteq Nat /\ IsFiniteSet(D) /\ K \subseteq Nat \X Nat
  /\ t \in [D -> [remote : Int, port : Int, count : Nat]]
  /\ \A i \in D : t[i].remote < 0 => t[i].count = 0
  /\ \A i \in D : t[i].remote >= 0 => t[i].count > 0 /\ <<t[i].remote, t[i].port>> \in K
  /\ \A i, j \in D : t[i].remote >= 0 /\ t[i].remote = t[j].remote /\ t[i].port = t[j].port => i = j

\* Entry i is the one of client c.
EntryOf(D, t, c, i) ==
  /\ i \in D /\ lookup(t, c) = {i} /\ First(lookup(t, c)) = i
  /\ ConnectionsOf(t, c) = t[i].count /\ t[i].count > 0
  /\ t[i].remote = c[1] /\ t[i].port = c[2]

\* lookup() finds the entry of a client, if there is one.
LEMMA Looked ==
  ASSUME NEW D, NEW K, NEW t, NEW c, ConnTable(D, K, t), c \in K
  PROVE  \/ lookup(t, c) = {} /\ ConnectionsOf(t, c) = 0
         \/ \E i : EntryOf(D, t, c, i)
<1>. c \in Nat \X Nat /\ D \subseteq Nat
  BY Zenon DEF ConnTable
<1>1. CASE lookup(t, c) = {}
  BY Zenon, <1>1 DEF ConnectionsOf
<1>2. CASE lookup(t, c) # {}
  <2>1. DOMAIN t = D
    BY Zenon DEF ConnTable
  <2>2. PICK i \in D : t[i].remote = c[1] /\ t[i].port = c[2]
    BY Zenon, <1>2, <2>1 DEF lookup
  <2>3. t[i].remote >= 0
    BY <2>2
  <2>4. lookup(t, c) = {i} /\ t[i].count > 0
    BY Zenon, <2>1, <2>2, <2>3 DEF lookup, ConnTable
  <2>5. {i} \in SUBSET Nat /\ {i} # {}
    OBVIOUS
  <2>6. First({i}) = i
    BY Zenon, <2>5, FirstIsLeast
  <2>7. ConnectionsOf(t, c) = t[i].count
    BY Zenon, <1>2, <2>4, <2>6 DEF ConnectionsOf
  <2>. QED
    BY Zenon, <2>2, <2>4, <2>6, <2>7 DEF EntryOf
<1>. QED
  BY Zenon, <1>1, <1>2

\* The connections of a client are counted.
LEMMA ConnectionsNat ==
  ASSUME NEW D, NEW K, NEW t, NEW c, ConnTable(D, K, t), c \in K
  PROVE  ConnectionsOf(t, c) \in Nat
<1>1. CASE ConnectionsOf(t, c) = 0
  BY <1>1
<1>2. ASSUME NEW i, EntryOf(D, t, c, i) PROVE ConnectionsOf(t, c) \in Nat
  BY Zenon, <1>2 DEF EntryOf, ConnTable
<1>. QED
  BY Zenon, <1>1, <1>2, Looked

\* The entries of other clients do not matter to a client.
LEMMA SameConnections ==
  ASSUME NEW D, NEW K, NEW t, NEW u, NEW i, NEW d, ConnTable(D, K, t), ConnTable(D, K, u),
         \A j \in D \ {i} : u[j] = t[j], i \notin lookup(t, d), i \notin lookup(u, d)
  PROVE  ConnectionsOf(u, d) = ConnectionsOf(t, d)
<1>. D \subseteq Nat /\ DOMAIN t = D /\ DOMAIN u = D
  BY Zenon DEF ConnTable
<1>1. \A j : j \in lookup(u, d) <=> j \in lookup(t, d)
  BY Zenon DEF lookup
<1>2. lookup(u, d) = lookup(t, d)
  BY Zenon, <1>1
<1>3. lookup(t, d) \subseteq D \ {i}
  BY Zenon DEF lookup
<1>4. CASE lookup(t, d) = {}
  BY Zenon, <1>2, <1>4 DEF ConnectionsOf
<1>5. CASE lookup(t, d) # {}
  <2>1. First(lookup(t, d)) \in lookup(t, d)
    BY <1>3, <1>5, FirstIsLeast
  <2>. QED
    BY Zenon, <1>2, <1>3, <1>5, <2>1 DEF ConnectionsOf
<1>. QED
  BY Zenon, <1>4, <1>5

\* From t to u, client c has one more connection.
OneMore(D, t, u, c) ==
  /\ ConnectionsOf(u, c) = ConnectionsOf(t, c) + 1
  /\ Total([i \in D |-> u[i].count]) = Total([i \in D |-> t[i].count]) + 1

\* The clients other than c have as many connections in u as in t.
OthersKeep(K, t, u, c) ==
  \A d \in K \ {c} : ConnectionsOf(u, d) = ConnectionsOf(t, d)

\* connect(): a client has one more connection and the others have theirs,
\* unless the table has no entry for it; then nothing changes.
LEMMA Connected ==
  ASSUME NEW D, NEW K, NEW t, NEW c, NEW u, ConnTable(D, K, t), c \in K, u = connect(t, c)
  PROVE  /\ ConnTable(D, K, u)
         /\ connect_ret(t, c) = 0 => OneMore(D, t, u, c)
         /\ connect_ret(t, c) # 0 => u = t /\ ConnectionsOf(t, c) = 0
         /\ OthersKeep(K, t, u, c)
<1>. DEFINE done == connect_ret(t, c) = 0
            Cases == \/ ~done /\ lookup(t, c) = {} /\ u = t
                     \/ \E i \in D : /\ u \in [D -> [remote : Int, port : Int, count : Nat]]
                                     /\ u[i].remote = c[1] /\ u[i].port = c[2]
                                     /\ u[i].count = ConnectionsOf(t, c) + 1
                                     /\ \A j \in D \ {i} : u[j] = t[j]
                                     /\ t[i].count = ConnectionsOf(t, c)
                                     /\ t[i].remote < 0 \/ i \in lookup(t, c)
                                     /\ lookup(t, c) \subseteq {i}
<1>1. DOMAIN t = D /\ t \in [D -> [remote : Int, port : Int, count : Nat]]
  BY Zenon DEF ConnTable
<1>k. D \subseteq Nat /\ IsFiniteSet(D) /\ K \subseteq Nat \X Nat
  BY Zenon DEF ConnTable
<1>2. c[1] \in Nat /\ c[2] \in Nat /\ c = <<c[1], c[2]>>
  BY <1>k
<1>3. Cases
  <2>1. ASSUME NEW i, EntryOf(D, t, c, i)
        PROVE  Cases
    <3>. /\ i \in D /\ lookup(t, c) = {i} /\ First(lookup(t, c)) = i
         /\ ConnectionsOf(t, c) = t[i].count /\ t[i].remote = c[1] /\ t[i].port = c[2]
      BY Zenon, <2>1 DEF EntryOf
    <3>1. u = [t EXCEPT ![i].count = t[i].count + 1]
      BY Zenon, <2>1 DEF connect
    <3>2. /\ u \in [D -> [remote : Int, port : Int, count : Nat]]
          /\ u[i].remote = c[1] /\ u[i].port = c[2]
          /\ u[i].count = t[i].count + 1 /\ \A j \in D \ {i} : u[j] = t[j]
      BY <1>1, <2>1, <3>1
    <3>. QED
      BY Zenon, <2>1, <3>2
  <2>2. ASSUME lookup(t, c) = {}, ConnectionsOf(t, c) = 0, EmptySlots(t) # {}
        PROVE  Cases
    <3>. DEFINE i == First(EmptySlots(t))
    <3>1. EmptySlots(t) \in SUBSET Nat
      BY Zenon, <1>1, <1>k DEF EmptySlots
    <3>2. i \in EmptySlots(t)
      BY Zenon, <2>2, <3>1, FirstIsLeast
    <3>3. i \in D /\ t[i].remote < 0 /\ t[i].count = 0
      BY Zenon, <1>1, <3>2 DEF EmptySlots, ConnTable
    <3>4. u = [t EXCEPT ![i] = [remote |-> c[1], port |-> c[2], count |-> 1]]
      BY Zenon, <2>2 DEF connect
    <3>. HIDE DEF i
    <3>5. /\ u \in [D -> [remote : Int, port : Int, count : Nat]]
          /\ u[i].remote = c[1] /\ u[i].port = c[2]
          /\ u[i].count = 1 /\ \A j \in D \ {i} : u[j] = t[j]
      BY <1>1, <1>2, <3>3, <3>4
    <3>6. u[i].count = ConnectionsOf(t, c) + 1
      BY <2>2, <3>5
    <3>. QED
      BY Zenon, <2>2, <3>3, <3>5, <3>6
  <2>3. ASSUME lookup(t, c) = {}, EmptySlots(t) = {}
        PROVE  Cases
    <3>1. u = t /\ connect_ret(t, c) = -1
      BY Zenon, <2>3 DEF connect, connect_ret
    <3>2. ~done
      BY <3>1
    <3>. QED
      BY Zenon, <2>3, <3>1, <3>2
  <2>. QED
    BY Zenon, <2>1, <2>2, <2>3, Looked
<1>4. CASE ~done /\ lookup(t, c) = {} /\ u = t
  <2>1. ConnectionsOf(t, c) = 0
    BY Zenon, <1>4 DEF ConnectionsOf
  <2>. QED
    BY Zenon, <1>4, <2>1 DEF OthersKeep
<1>5. ASSUME NEW i \in D, u \in [D -> [remote : Int, port : Int, count : Nat]],
             u[i].remote = c[1], u[i].port = c[2],
             u[i].count = ConnectionsOf(t, c) + 1, \A j \in D \ {i} : u[j] = t[j],
             t[i].count = ConnectionsOf(t, c), t[i].remote < 0 \/ i \in lookup(t, c),
             lookup(t, c) \subseteq {i}
      PROVE  /\ ConnTable(D, K, u)
             /\ ConnectionsOf(u, c) = ConnectionsOf(t, c) + 1
             /\ Total([k \in D |-> u[k].count]) = Total([k \in D |-> t[k].count]) + 1
             /\ \A d \in K \ {c} : ConnectionsOf(u, d) = ConnectionsOf(t, d)
  <2>. HIDE DEF done
  <2>1. u[i].remote >= 0 /\ ~(u[i].remote < 0) /\ u[i].count > 0 /\ <<u[i].remote, u[i].port>> \in K
    BY <1>1, <1>2, <1>5
  <2>2. \A j \in D \ {i} : ~(t[j].remote = c[1] /\ t[j].port = c[2])
    BY Zenon, <1>1, <1>5 DEF lookup
  <2>3. ConnTable(D, K, u)
    <3>1. ASSUME NEW j \in D, NEW k \in D, u[j].remote >= 0, u[j].remote = u[k].remote,
                 u[j].port = u[k].port
          PROVE  j = k
      <4>1. CASE j = i
        BY Zenon, <1>5, <2>2, <3>1, <4>1
      <4>2. CASE k = i
        BY Zenon, <1>5, <2>2, <3>1, <4>2
      <4>3. CASE j # i /\ k # i
        BY ZenonT(40), <1>5, <3>1, <4>3 DEF ConnTable
      <4>. QED
        BY Zenon, <4>1, <4>2, <4>3
    <3>2. ASSUME NEW j \in D
          PROVE  /\ u[j].remote < 0 => u[j].count = 0
                 /\ u[j].remote >= 0 => u[j].count > 0 /\ <<u[j].remote, u[j].port>> \in K
      BY Zenon, <1>5, <2>1 DEF ConnTable
    <3>. QED
      BY Zenon, <1>5, <3>1, <3>2 DEF ConnTable
  <2>4. ConnectionsOf(u, c) = u[i].count
    <3>1. i \in lookup(u, c)
      BY Zenon, <1>5 DEF lookup
    <3>2. PICK j : EntryOf(D, u, c, j)
      BY Zenon, <2>3, <3>1, Looked
    <3>. QED
      BY Zenon, <3>1, <3>2 DEF EntryOf
  <2>5. Total([k \in D |-> u[k].count]) = Total([k \in D |-> t[k].count]) + 1
    <3>1. PICK f \in [D -> Nat] : f = [k \in D |-> t[k].count]
      BY Zenon, <1>1
    <3>2. PICK g \in [D -> Nat] : g = [k \in D |-> u[k].count]
      BY Zenon, <1>5
    <3>3. g[i] = f[i] + 1 /\ \A k \in D \ {i} : g[k] = f[k]
      BY Zenon, <1>5, <3>1, <3>2
    <3>4. Total(g) = Total(f) + 1
      BY Zenon, <1>k, <3>3, TotalUp
    <3>. QED
      BY Zenon, <3>1, <3>2, <3>4
  <2>6. ASSUME NEW d \in K \ {c}
        PROVE  ConnectionsOf(u, d) = ConnectionsOf(t, d)
    <3>1. d[1] \in Nat /\ ~(d[1] = c[1] /\ d[2] = c[2])
      BY <1>k, <1>2
    <3>2. i \notin lookup(u, d)
      BY Zenon, <1>5, <3>1 DEF lookup
    <3>3. i \notin lookup(t, d)
      <4>1. CASE t[i].remote < 0
        BY <1>1, <3>1, <4>1 DEF lookup
      <4>2. CASE i \in lookup(t, c)
        BY Zenon, <3>1, <4>2 DEF lookup
      <4>. QED
        BY Zenon, <1>5, <4>1, <4>2
    <3>. QED
      BY <1>5, <2>3, <3>2, <3>3, SameConnections
  <2>. QED
    BY Zenon, <1>5, <2>3, <2>4, <2>5, <2>6
<1>6. ASSUME NEW i \in D, t[i].remote < 0 \/ i \in lookup(t, c) PROVE done
  BY Zenon, <1>1, <1>6 DEF connect_ret, EmptySlots
<1>. QED
  BY Zenon, <1>3, <1>4, <1>5, <1>6 DEF OneMore, OthersKeep

\* The entry that disconnect() leaves.
LEMMA DroppedEntry ==
  ASSUME NEW e \in [remote : Int, port : Int, count : Nat], e.count > 0, e.remote >= 0
  PROVE  LET d == Dropped(e) IN
         /\ d \in [remote : Int, port : Int, count : Nat]
         /\ e.count = d.count + 1
         /\ d.remote < 0 => d.count = 0
         /\ d.remote >= 0 => d.remote = e.remote /\ d.port = e.port /\ d.count > 0
         /\ d.count = 0 => d.remote < 0
         /\ ~(d.remote < 0 /\ d.remote >= 0)
<1>. DEFINE r == IF e.count = 1 THEN -1 ELSE e.remote
<1>1. Dropped(e) = [remote |-> r, port |-> e.port, count |-> e.count - 1]
  BY DEF Dropped
<1>2. PICK n \in Nat : n = e.count - 1
  OBVIOUS
<1>. HIDE DEF r
<1>3. r \in Int /\ (n = 0 => r = -1) /\ (n # 0 => r = e.remote)
  BY <1>2 DEF r
<1>. QED
  BY <1>1, <1>2, <1>3

\* disconnect(): a client that is connected has one connection less and the
\* others have theirs.
LEMMA Disconnected ==
  ASSUME NEW D, NEW K, NEW t, NEW c, NEW u, ConnTable(D, K, t), c \in K, u = disconnect(t, c)
  PROVE  /\ ConnTable(D, K, u)
         /\ ConnectionsOf(t, c) = 0 => u = t
         /\ ConnectionsOf(t, c) # 0 => OneMore(D, u, t, c)
         /\ OthersKeep(K, t, u, c)
<1>1. DOMAIN t = D /\ t \in [D -> [remote : Int, port : Int, count : Nat]]
  BY Zenon DEF ConnTable
<1>k. D \subseteq Nat /\ IsFiniteSet(D) /\ K \subseteq Nat \X Nat
  BY Zenon DEF ConnTable
<1>2. c[1] \in Nat /\ c[2] \in Nat /\ c = <<c[1], c[2]>>
  BY <1>k
<1>3. CASE lookup(t, c) = {}
  <2>1. u = t /\ ConnectionsOf(t, c) = 0
    BY Zenon, <1>3 DEF disconnect, ConnectionsOf
  <2>. QED
    BY Zenon, <2>1 DEF OthersKeep
<1>4. ASSUME NEW i, EntryOf(D, t, c, i)
      PROVE  /\ ConnTable(D, K, u)
             /\ ConnectionsOf(t, c) = ConnectionsOf(u, c) + 1
             /\ Total([k \in D |-> t[k].count]) = Total([k \in D |-> u[k].count]) + 1
             /\ \A d \in K \ {c} : ConnectionsOf(u, d) = ConnectionsOf(t, d)
  <2>0. /\ i \in D /\ lookup(t, c) = {i} /\ First(lookup(t, c)) = i
        /\ ConnectionsOf(t, c) = t[i].count /\ t[i].count > 0
        /\ t[i].remote = c[1] /\ t[i].port = c[2]
    BY Zenon, <1>4 DEF EntryOf
  <2>. DEFINE e == Dropped(t[i])
  <2>1. t[i].remote >= 0 /\ t[i] \in [remote : Int, port : Int, count : Nat]
    BY <1>1, <1>2, <2>0
  <2>2. u = [t EXCEPT ![i] = e]
    BY Zenon, <2>0 DEF disconnect
  <2>3. /\ e \in [remote : Int, port : Int, count : Nat]
        /\ t[i].count = e.count + 1
        /\ e.remote < 0 => e.count = 0
        /\ e.remote >= 0 => e.remote = t[i].remote /\ e.port = t[i].port /\ e.count > 0
        /\ e.count = 0 => e.remote < 0
        /\ ~(e.remote < 0 /\ e.remote >= 0)
    BY Zenon, <2>0, <2>1, DroppedEntry
  <2>. HIDE DEF e
  <2>4. u[i] = e /\ u \in [D -> [remote : Int, port : Int, count : Nat]] /\ \A j \in D \ {i} : u[j] = t[j]
    BY Zenon, <1>1, <2>0, <2>2, <2>3
  <2>5. ConnTable(D, K, u)
    <3>1. ASSUME NEW j \in D, NEW k \in D, u[j].remote >= 0, u[j].remote = u[k].remote,
                 u[j].port = u[k].port
          PROVE  j = k
      <4>1. u[j].remote = t[j].remote /\ u[j].port = t[j].port
        BY Zenon, <2>3, <2>4, <3>1
      <4>2. u[k].remote >= 0
        BY Zenon, <3>1
      <4>3. u[k].remote = t[k].remote /\ u[k].port = t[k].port
        BY Zenon, <2>3, <2>4, <4>2
      <4>. QED
        BY Zenon, <3>1, <4>1, <4>3 DEF ConnTable
    <3>2. ASSUME NEW j \in D
          PROVE  /\ u[j].remote < 0 => u[j].count = 0
                 /\ u[j].remote >= 0 => u[j].count > 0 /\ <<u[j].remote, u[j].port>> \in K
      BY ZenonT(30), <2>0, <2>3, <2>4 DEF ConnTable
    <3>. QED
      BY Zenon, <2>4, <3>1, <3>2 DEF ConnTable
  <2>6. ConnectionsOf(u, c) = e.count
    <3>1. CASE e.count = 0
      <4>1. \A j \in D : ~(u[j].remote = c[1] /\ u[j].port = c[2])
        <5>1. e.remote # c[1]
          BY <1>2, <2>3, <3>1
        <5>2. \A j \in D \ {i} : ~(t[j].remote = c[1] /\ t[j].port = c[2])
          BY Zenon, <1>1, <2>0 DEF lookup
        <5>. QED
          BY ZenonT(30), <2>4, <5>1, <5>2
      <4>2. lookup(u, c) = {}
        BY Zenon, <2>4, <4>1 DEF lookup
      <4>. QED
        BY Zenon, <3>1, <4>2 DEF ConnectionsOf
    <3>2. CASE e.count # 0
      <4>1. e.remote >= 0
        BY <2>3, <3>2
      <4>2. i \in lookup(u, c)
        BY Zenon, <2>0, <2>3, <2>4, <4>1 DEF lookup
      <4>3. PICK j : EntryOf(D, u, c, j)
        BY Zenon, <2>5, <4>2, Looked
      <4>. QED
        BY Zenon, <2>4, <4>2, <4>3 DEF EntryOf
    <3>. QED
      BY Zenon, <3>1, <3>2
  <2>7. Total([k \in D |-> t[k].count]) = Total([k \in D |-> u[k].count]) + 1
    <3>1. PICK f \in [D -> Nat] : f = [k \in D |-> u[k].count]
      BY Zenon, <2>4
    <3>2. PICK g \in [D -> Nat] : g = [k \in D |-> t[k].count]
      BY Zenon, <1>1
    <3>3. g[i] = f[i] + 1 /\ \A k \in D \ {i} : g[k] = f[k]
      BY Zenon, <2>0, <2>3, <2>4, <3>1, <3>2
    <3>4. Total(g) = Total(f) + 1
      BY Zenon, <1>k, <2>0, <3>3, TotalUp
    <3>. QED
      BY Zenon, <3>1, <3>2, <3>4
  <2>8. ASSUME NEW d \in K \ {c}
        PROVE  ConnectionsOf(u, d) = ConnectionsOf(t, d)
    <3>1. d[1] \in Nat /\ ~(d[1] = c[1] /\ d[2] = c[2])
      BY <1>k, <1>2
    <3>2. i \notin lookup(t, d)
      BY Zenon, <2>0, <3>1 DEF lookup
    <3>3. i \notin lookup(u, d)
      <4>1. CASE e.remote < 0
        BY <2>3, <2>4, <3>1, <4>1 DEF lookup
      <4>2. CASE e.remote >= 0
        BY Zenon, <2>0, <2>3, <2>4, <3>1, <4>2 DEF lookup
      <4>. QED
        BY <2>3, <4>1, <4>2
    <3>. QED
      BY <2>4, <2>5, <3>2, <3>3, SameConnections
  <2>. QED
    BY Zenon, <2>0, <2>3, <2>5, <2>6, <2>7, <2>8
<1>5. ASSUME NEW i, EntryOf(D, t, c, i)
      PROVE  ConnectionsOf(t, c) # 0
  BY <1>1, <1>5 DEF EntryOf
<1>. QED
  BY Zenon, <1>3, <1>4, <1>5, Looked DEF OneMore, OthersKeep

\* A table with an entry for each client never lacks one.
LEMMA RoomForAll ==
  ASSUME NEW D, NEW K, NEW t, NEW c, ConnTable(D, K, t), c \in K,
         IsFiniteSet(K), Cardinality(K) <= Cardinality(D)
  PROVE  connect_ret(t, c) = 0
<1>. SUFFICES ASSUME lookup(t, c) = {}, EmptySlots(t) = {}
              PROVE  FALSE
  BY Zenon DEF connect_ret
<1>1. DOMAIN t = D /\ IsFiniteSet(D) /\ K \subseteq Nat \X Nat
  BY Zenon DEF ConnTable
<1>2. ASSUME NEW i \in D
      PROVE  t[i].remote >= 0 /\ <<t[i].remote, t[i].port>> \in K \ {c}
  <2>1. t[i].remote \in Int /\ ~(t[i].remote < 0)
    BY Zenon, <1>1 DEF EmptySlots, ConnTable
  <2>2. t[i].remote >= 0
    BY <2>1
  <2>3. ~(t[i].remote = c[1] /\ t[i].port = c[2])
    BY Zenon, <1>1 DEF lookup
  <2>4. <<t[i].remote, t[i].port>> # c
    BY <2>3
  <2>. QED
    BY Zenon, <2>2, <2>4 DEF ConnTable
<1>. DEFINE f == [i \in D |-> <<t[i].remote, t[i].port>>]
<1>3. f \in [D -> K \ {c}]
  BY Zenon, <1>2
<1>4. \A i, j \in D : f[i] = f[j] => i = j
  <2>. SUFFICES ASSUME NEW i \in D, NEW j \in D, <<t[i].remote, t[i].port>> = <<t[j].remote, t[j].port>>
                PROVE  i = j
    BY Zenon
  <2>1. t[i].remote = t[j].remote /\ t[i].port = t[j].port
    OBVIOUS
  <2>. QED
    BY Zenon, <1>2, <2>1 DEF ConnTable
<1>5. f \in Injection(D, K \ {c})
  BY Zenon, <1>3, <1>4 DEF Injection, IsInjective
<1>. HIDE DEF f
<1>6. IsFiniteSet(K \ {c}) /\ Cardinality(K \ {c}) = Cardinality(K) - 1
  BY Zenon, FS_RemoveElement
<1>7. Cardinality(D) <= Cardinality(K \ {c})
  BY Zenon, <1>5, <1>6, FS_Injection
<1>8. Cardinality(K) \in Nat /\ Cardinality(D) \in Nat
  BY Zenon, <1>1, FS_CardinalityType
<1>. QED
  BY <1>6, <1>7, <1>8

-----------------------------------------------------------------------------
(***************************************************************************)
(* Tables of objects with references.                                      *)
(***************************************************************************)

\* Entries with keys of K.
RefType(K) == [used : BOOLEAN, key : K, refcount : Nat]

\* From table t to u with entries D, entry q has one more reference.
MoreRefs(D, t, u, q) ==
  u[q].refcount = t[q].refcount + 1 /\ \A p \in D \ {q} : u[p] = t[p]

\* Got, of do_msg_get() and do_sem_get(), adds a reference to the entry that
\* it returns, which no other entry shares the key with.
LEMMA GotOK ==
  ASSUME NEW D, NEW K, NEW t, NEW key, NEW q, D \in SUBSET Nat,
         t \in [D -> RefType(K)], TableCoherent(t), key \in K, q \in GetEntries(t, key)
  PROVE  /\ q \in D
         /\ Got(t, q, key) \in [D -> RefType(K)]
         /\ TableCoherent(Got(t, q, key))
         /\ MoreRefs(D, t, Got(t, q, key), q)
<1>. DEFINE u == Got(t, q, key)
            e == [used |-> TRUE, key |-> key, refcount |-> t[q].refcount + 1]
<1>1. DOMAIN t = D /\ D \in SUBSET Nat
  BY Zenon
<1>2. q \in D /\ \A p \in D \ {q} : ~(t[p].used /\ t[p].key = key)
  <2>1. CASE Named(t, key) # {}
    <3>1. Named(t, key) \in SUBSET Nat
      BY Zenon, <1>1 DEF Named
    <3>2. q \in Named(t, key)
      BY Zenon, <2>1, <3>1, FirstIsLeast DEF GetEntries
    <3>. QED
      BY Zenon, <1>1, <3>2 DEF Named, TableCoherent
  <2>2. CASE Named(t, key) = {}
    BY Zenon, <1>1, <2>2 DEF GetEntries, Named, Unused
  <2>. QED
    BY Zenon, <2>1, <2>2
<1>3. t[q] \in RefType(K) /\ t[q].refcount \in Nat
  BY Zenon, <1>2 DEF RefType
<1>4. e \in RefType(K) /\ e.refcount > 0
  BY <1>3 DEF RefType
<1>5. u[q] = e /\ u \in [D -> RefType(K)] /\ \A p \in D \ {q} : u[p] = t[p]
  BY Zenon, <1>2, <1>4 DEF Got
<1>6. e.used /\ e.key = key /\ e.refcount = t[q].refcount + 1
  BY Zenon
<1>. HIDE DEF u, e
<1>7. DOMAIN u = D
  BY Zenon, <1>5
<1>8. ASSUME NEW i \in D PROVE u[i].used <=> u[i].refcount > 0
  <2>1. CASE i = q
    BY Zenon, <1>4, <1>5, <1>6, <2>1
  <2>2. CASE i # q
    BY Zenon, <1>1, <1>5, <2>2 DEF TableCoherent
  <2>. QED
    BY Zenon, <2>1, <2>2
<1>9. ASSUME NEW i \in D, NEW j \in D, u[i].used, u[j].used, u[i].key = u[j].key
      PROVE  i = j
  <2>1. CASE i = q \/ j = q
    BY Zenon, <1>2, <1>5, <1>6, <1>9, <2>1
  <2>2. CASE i # q /\ j # q
    BY Zenon, <1>1, <1>5, <1>9, <2>2 DEF TableCoherent
  <2>. QED
    BY Zenon, <2>1, <2>2
<1>10. TableCoherent(u)
  BY Zenon, <1>7, <1>8, <1>9 DEF TableCoherent
<1>. QED
  BY Zenon, <1>2, <1>5, <1>6, <1>10 DEF u, MoreRefs

\* Closed, of do_msg_close() and do_sem_close(), takes a reference away.
LEMMA ClosedOK ==
  ASSUME NEW D, NEW K, NEW t, NEW q, t \in [D -> RefType(K)], TableCoherent(t), Used(t, q)
  PROVE  /\ q \in D
         /\ Closed(t, q) \in [D -> RefType(K)]
         /\ TableCoherent(Closed(t, q))
         /\ MoreRefs(D, Closed(t, q), t, q)
<1>. DEFINE u == Closed(t, q)
            e == [used |-> t[q].refcount # 1, key |-> t[q].key, refcount |-> t[q].refcount - 1]
<1>1. DOMAIN t = D
  OBVIOUS
<1>2. q \in D /\ t[q].used /\ t[q].refcount > 0
  BY Zenon, <1>1 DEF Used, TableCoherent
<1>3. t[q] \in RefType(K)
  BY Zenon, <1>2
<1>a. t[q].refcount \in Nat /\ t[q].key \in K
  BY Zenon, <1>3 DEF RefType
<1>b. PICK n \in Nat : n = t[q].refcount - 1 /\ t[q].refcount = n + 1 /\ (t[q].refcount # 1 <=> n > 0)
  BY <1>2, <1>a
<1>4. e \in RefType(K) /\ t[q].refcount = e.refcount + 1 /\ (e.used <=> e.refcount > 0) /\ e.key = t[q].key
  BY Zenon, <1>a, <1>b DEF RefType
<1>5. u = [t EXCEPT ![q] = e]
  BY Zenon DEF Closed
<1>. HIDE DEF u, e
<1>6. u[q] = e /\ u \in [D -> RefType(K)] /\ DOMAIN u = D /\ \A p \in D \ {q} : u[p] = t[p]
  BY Zenon, <1>2, <1>4, <1>5
<1>7. ASSUME NEW i \in D
      PROVE  (u[i].used <=> u[i].refcount > 0) /\ u[i].key = t[i].key /\ (u[i].used => t[i].used)
  <2>1. CASE i = q
    BY Zenon, <1>2, <1>4, <1>6, <2>1
  <2>2. CASE i # q
    BY Zenon, <1>1, <1>6, <2>2 DEF TableCoherent
  <2>. QED
    BY Zenon, <2>1, <2>2
<1>8. TableCoherent(u)
  BY Zenon, <1>1, <1>6, <1>7 DEF TableCoherent
<1>. QED
  BY Zenon, <1>2, <1>4, <1>6, <1>8 DEF u, MoreRefs

\* A client that has n references, and one more while a message about it is
\* on its way (G: granted, C: being closed), has a natural number of them.
LEMMA HeldSum ==
  ASSUME NEW n, NEW G, NEW C, n \in Nat, ~(G /\ C)
  PROVE  LET h == n + (IF G THEN 1 ELSE 0) + (IF C THEN 1 ELSE 0) IN
         h \in Nat /\ (~G /\ ~C => h = n) /\ (G \/ C => h = n + 1)
<1>1. CASE G
  BY <1>1
<1>2. CASE C
  BY <1>2
<1>. QED
  BY <1>1, <1>2

=============================================================================
