----------------------------- MODULE IpcProofs ------------------------------
(***************************************************************************)
(* Proofs about the means by which processes find and wait for each other: *)
(* mailboxes and portals with names, for any number of processes, names    *)
(* and entries; and semaphores, with their server, for any number of       *)
(* clients, semaphores and sleeping entries.                               *)
(***************************************************************************)
EXTENDS NamedIpc, Semaphore, TableProofs

-----------------------------------------------------------------------------
(***************************************************************************)
(* Named mailboxes and portals: a name has one holder for each reference, and *)
(* a process one connector for each entry of its tables.                   *)
(***************************************************************************)

\* The standard input connector of a process is always there.
IpcInv ==
  /\ NamesAccounted /\ ConnectorsTracked
  /\ \A p \in Processes, k \in Kinds : StdPort \in inputs[p][k]

TableType == [Processes -> [Kinds -> [Index -> Entries]]]

\* The fields of the entries.
LEMMA EntryFields ==
  /\ NoEntry \in Entries /\ NoEntry.mode = "free"
  /\ Output \in Entries /\ Output.mode = "wronly"
  /\ \A q, n : /\ Input(q, n).mode = "rdonly" /\ Input(q, n).port = q /\ Input(q, n).name = n
               /\ q \in Ports \cup {StdPort} /\ n \in Names => Input(q, n) \in Entries
  /\ \A e \in Entries : e.mode = "rdonly" => e.name \in Names
<1>1. NoEntry \in Entries /\ NoEntry.mode = "free" /\ Output \in Entries /\ Output.mode = "wronly"
  BY DEF Entries, NoEntry, Output
<1>2. ASSUME NEW q, NEW n
      PROVE  /\ Input(q, n).mode = "rdonly" /\ Input(q, n).port = q /\ Input(q, n).name = n
             /\ q \in Ports \cup {StdPort} /\ n \in Names => Input(q, n) \in Entries
  BY DEF Entries, Input
<1>3. ASSUME NEW e \in Entries, e.mode = "rdonly" PROVE e.name \in Names
  BY <1>1, <1>2, <1>3 DEF Entries
<1>. QED
  BY Zenon, <1>1, <1>2, <1>3

\* A function that writes one entry of its table leaves the others alone.
LEMMA SetEffect ==
  ASSUME table \in TableType, NEW p \in Processes, NEW k \in Kinds, NEW i \in Index,
         NEW e \in Entries, Set(p, k, i, e)
  PROVE  /\ table' \in TableType /\ table'[p][k][i] = e
         /\ \A q \in Processes, l \in Kinds, j \in Index :
              q # p \/ l # k \/ j # i => table'[q][l][j] = table[q][l][j]
BY DEF TableType, Set

\* There are finitely many entries.
LEMMA PlacesFinite == IsFiniteSet(Places)
<1>1. IsFiniteSet(Index)
  <2>1. 0 \in Int /\ PoolMax - 1 \in Int
    BY IpcAssumption
  <2>. QED
    BY Zenon, <2>1, FS_Interval DEF Index
<1>2. IsFiniteSet(Kinds)
  <2>1. Kinds = {"mailbox"} \cup {"portal"}
    BY Zenon DEF Kinds
  <2>. QED
    BY Zenon, <2>1, FS_Singleton, FS_AddElement
<1>3. IsFiniteSet(Processes)
  BY IpcAssumption
<1>. QED
  BY Zenon, <1>1, <1>2, <1>3, FS_Product DEF Places

\* The holders of a name, and the numbers of them.
LEMMA HoldersFinite ==
  ASSUME NEW n
  PROVE  IsFiniteSet(Holders(n)) /\ Cardinality(Holders(n)) \in Nat
<1>1. Holders(n) \in SUBSET Places
  BY Zenon DEF Holders
<1>. QED
  BY Zenon, <1>1, PlacesFinite, FS_Subset, FS_CardinalityType

\* The processes with a name.
NamedBy(n) == {p \in Processes : pname[p] = n}

\* They are finitely many.
LEMMA NamedFinite ==
  ASSUME NEW n
  PROVE  IsFiniteSet(NamedBy(n)) /\ Cardinality(NamedBy(n)) \in Nat
<1>1. NamedBy(n) \in SUBSET Processes
  BY Zenon DEF NamedBy
<1>. QED
  BY Zenon, <1>1, IpcAssumption, FS_Subset, FS_CardinalityType

\* A counter is at most the sum.
LEMMA TotalBound ==
  ASSUME NEW D, NEW f, NEW x, IsFiniteSet(D), f \in [D -> Nat], x \in D
  PROVE  f[x] <= Total(f)
<1>. DEFINE S == {x} \X (1 .. f[x])
<1>1. f[x] \in Nat
  OBVIOUS
<1>2. IsFiniteSet(1 .. f[x]) /\ Cardinality(1 .. f[x]) = f[x]
  <2>1. /\ IsFiniteSet(1 .. f[x])
        /\ Cardinality(1 .. f[x]) = IF 1 > f[x] THEN 0 ELSE f[x] - 1 + 1
    BY <1>1, FS_Interval
  <2>. QED
    BY <1>1, <2>1
<1>3. Cardinality(S) = f[x]
  <2>1. IsFiniteSet({x}) /\ Cardinality({x}) = 1
    BY Zenon, FS_Singleton
  <2>2. Cardinality(S) = 1 * Cardinality(1 .. f[x])
    BY Zenon, <1>2, <2>1, FS_Product
  <2>. QED
    BY <1>1, <1>2, <2>2
<1>4. S \in SUBSET Units(f)
  BY DEF Units
<1>5. Cardinality(S) <= Cardinality(Units(f))
  BY Zenon, <1>4, TotalType, FS_Subset
<1>. QED
  BY Zenon, <1>3, <1>5 DEF Total

\* The place of an entry, and what a write to it does to the holders of n.
LEMMA HoldersChange ==
  ASSUME table \in TableType, NEW p \in Processes, NEW k \in Kinds, NEW i \in Index,
         NEW e \in Entries, Set(p, k, i, e), NEW n
  PROVE  LET g == <<p, <<k, i>>>> IN
         /\ g \in Places
         /\ g \in Holders(n) <=> table[p][k][i].mode = "rdonly" /\ table[p][k][i].name = n
         /\ Holders(n)' = IF e.mode = "rdonly" /\ e.name = n
                          THEN Holders(n) \cup {g} ELSE Holders(n) \ {g}
<1>. DEFINE g == <<p, <<k, i>>>>
<1>1. g \in Places /\ g[1] = p /\ g[2][1] = k /\ g[2][2] = i
  BY DEF Places
<1>2. \A h \in Places : /\ h[1] \in Processes /\ h[2][1] \in Kinds /\ h[2][2] \in Index
                        /\ h # g => h[1] # p \/ h[2][1] # k \/ h[2][2] # i
  BY DEF Places
<1>. HIDE DEF g
<1>3. /\ EntryAt(g) = table[p][k][i] /\ EntryAt(g)' = e
      /\ \A h \in Places : h # g => EntryAt(h)' = EntryAt(h)
  <2>1. /\ table'[p][k][i] = e
        /\ \A q \in Processes, l \in Kinds, j \in Index :
             q # p \/ l # k \/ j # i => table'[q][l][j] = table[q][l][j]
    BY SetEffect
  <2>. QED
    BY Zenon, <1>1, <1>2, <2>1 DEF EntryAt
<1>4. Holders(n)' = {h \in Places : EntryAt(h)'.mode = "rdonly" /\ EntryAt(h)'.name = n}
  BY Zenon DEF Holders
<1>5. \A h : h \in Holders(n)' <=>
        h \in (IF e.mode = "rdonly" /\ e.name = n THEN Holders(n) \cup {g} ELSE Holders(n) \ {g})
  <2>1. CASE e.mode = "rdonly" /\ e.name = n
    BY Zenon, <1>1, <1>3, <1>4, <2>1 DEF Holders
  <2>2. CASE ~(e.mode = "rdonly" /\ e.name = n)
    BY Zenon, <1>1, <1>3, <1>4, <2>2 DEF Holders
  <2>. QED
    BY Zenon, <2>1, <2>2
<1>6. g \in Holders(n) <=> table[p][k][i].mode = "rdonly" /\ table[p][k][i].name = n
  BY Zenon, <1>1, <1>3 DEF Holders
<1>. QED
  BY Zenon, <1>1, <1>5, <1>6 DEF g

\* A new input adds a holder to its name.
LEMMA HoldersGain ==
  ASSUME table \in TableType, NEW p \in Processes, NEW k \in Kinds, NEW i \in Free(p, k),
         NEW e \in Entries, NEW m, Set(p, k, i, e), e.mode = "rdonly", e.name = m
  PROVE  /\ Cardinality(Holders(m)') = Cardinality(Holders(m)) + 1
         /\ \A h \in Holders(m)' : h \in Holders(m) \/ h[1] = p
         /\ \A n \in Names \ {m} : Holders(n)' = Holders(n)
<1>. DEFINE g == <<p, <<k, i>>>>
<1>0. g[1] = p
  OBVIOUS
<1>. HIDE DEF g
<1>1. i \in Index /\ table[p][k][i].mode # "rdonly"
  BY DEF Free
<1>2. ASSUME NEW n
      PROVE  g \notin Holders(n) /\ Holders(n)' = IF n = m THEN Holders(n) \cup {g} ELSE Holders(n) \ {g}
  <2>2. /\ g \in Holders(n) <=> table[p][k][i].mode = "rdonly" /\ table[p][k][i].name = n
        /\ Holders(n)' = IF e.mode = "rdonly" /\ e.name = n
                         THEN Holders(n) \cup {g} ELSE Holders(n) \ {g}
    BY <1>1, HoldersChange DEF g
  <2>. QED
    BY Zenon, <1>1, <2>2
<1>3. Holders(m)' = Holders(m) \cup {g} /\ g \notin Holders(m)
  BY Zenon, <1>2
<1>4. ASSUME NEW n \in Names \ {m} PROVE Holders(n)' = Holders(n)
  <2>1. Holders(n)' = Holders(n) \ {g} /\ g \notin Holders(n)
    BY Zenon, <1>2
  <2>. QED
    BY Zenon, <2>1
<1>5. Cardinality(Holders(m)') = Cardinality(Holders(m)) + 1
  BY Zenon, <1>3, HoldersFinite, FS_AddElement
<1>. QED
  BY Zenon, <1>0, <1>3, <1>4, <1>5

\* An unlink takes a holder from its name.
LEMMA HoldersLose ==
  ASSUME table \in TableType, NEW p \in Processes, NEW k \in Kinds, NEW i \in Inputs(p, k),
         NEW m, m = table[p][k][i].name, Set(p, k, i, NoEntry)
  PROVE  /\ Cardinality(Holders(m)) = Cardinality(Holders(m)') + 1
         /\ \A h \in Holders(m)' : h \in Holders(m)
         /\ \A n \in Names \ {m} : Holders(n)' = Holders(n)
<1>. DEFINE g == <<p, <<k, i>>>>
<1>1. i \in Index /\ table[p][k][i].mode = "rdonly"
  BY DEF Inputs
<1>2. ASSUME NEW n
      PROVE  (g \in Holders(n) <=> n = m) /\ Holders(n)' = Holders(n) \ {g}
  <2>1. NoEntry \in Entries /\ NoEntry.mode # "rdonly"
    BY EntryFields
  <2>2. /\ g \in Holders(n) <=> table[p][k][i].mode = "rdonly" /\ table[p][k][i].name = n
        /\ Holders(n)' = IF NoEntry.mode = "rdonly" /\ NoEntry.name = n
                         THEN Holders(n) \cup {g} ELSE Holders(n) \ {g}
    BY <1>1, <2>1, HoldersChange
  <2>. QED
    BY Zenon, <1>1, <2>1, <2>2
<1>. HIDE DEF g
<1>3. Holders(m)' = Holders(m) \ {g} /\ g \in Holders(m)
  BY Zenon, <1>2
<1>4. ASSUME NEW n \in Names \ {m} PROVE Holders(n)' = Holders(n)
  <2>1. Holders(n)' = Holders(n) \ {g} /\ g \notin Holders(n)
    BY Zenon, <1>2
  <2>. QED
    BY Zenon, <2>1
<1>5. Cardinality(Holders(m)') = Cardinality(Holders(m)) - 1 /\ Cardinality(Holders(m)) \in Nat
  <2>1. IsFiniteSet(Holders(m)) /\ Cardinality(Holders(m)) \in Nat
    BY HoldersFinite
  <2>2. Cardinality(Holders(m) \ {g}) = Cardinality(Holders(m)) - 1
    BY Zenon, <1>3, <2>1, FS_RemoveElement
  <2>. QED
    BY Zenon, <1>3, <2>1, <2>2
<1>6. Cardinality(Holders(m)) = Cardinality(Holders(m)') + 1
  BY <1>5
<1>. QED
  BY Zenon, <1>3, <1>4, <1>6

\* Outputs do not hold names.
LEMMA HoldersSame ==
  ASSUME table \in TableType, NEW p \in Processes, NEW k \in Kinds, NEW i \in Index,
         NEW e \in {NoEntry, Output}, Set(p, k, i, e), table[p][k][i].mode # "rdonly", NEW n
  PROVE  Holders(n)' = Holders(n)
<1>. DEFINE g == <<p, <<k, i>>>>
<1>1. e \in Entries /\ e.mode # "rdonly"
  BY EntryFields
<1>2. /\ g \in Holders(n) <=> table[p][k][i].mode = "rdonly" /\ table[p][k][i].name = n
      /\ Holders(n)' = IF e.mode = "rdonly" /\ e.name = n
                       THEN Holders(n) \cup {g} ELSE Holders(n) \ {g}
  BY <1>1, HoldersChange
<1>. HIDE DEF g
<1>. QED
  BY Zenon, <1>1, <1>2

-----------------------------------------------------------------------------
\* Nothing about name n changes.
NameSame(n) == Holders(n)' = Holders(n) /\ NamedBy(n)' = NamedBy(n)

\* The account of a name.
NameOK(n) ==
  /\ count[n] = Cardinality(Holders(n)) + Cardinality(NamedBy(n))
  /\ \A h \in Holders(n) : owner[n] = h[1]
  /\ \A p \in NamedBy(n) : owner[n] = p
  /\ owner[n] = NoProcess <=> count[n] = 0

\* Every name is accounted for.
LEMMA AccountedIs == NamesAccounted <=> \A n \in Names : NameOK(n)
BY Zenon DEF NamesAccounted, NameOK, NamedBy

\* A process links a name for a new input, or for itself.
LEMMA LinkAccount ==
  ASSUME IpcTypeOK, NamesAccounted, NEW p \in Processes, NEW m \in Names,
         MayLink(p, m), Registry!Link(p, m),
         \A n \in Names \ {m} : NameSame(n),
         \A h \in Holders(m)' : h \in Holders(m) \/ h[1] = p,
         \A q \in NamedBy(m)' : q \in NamedBy(m) \/ q = p,
         Cardinality(Holders(m)') + Cardinality(NamedBy(m)')
           = Cardinality(Holders(m)) + Cardinality(NamedBy(m)) + 1
  PROVE  /\ NamesAccounted'
         /\ owner' \in [Names -> Processes \cup {NoProcess}]
         /\ count' \in [Names -> 0 .. NANVIX_PNAME_MAX]
<1>0. /\ owner \in [Names -> Processes \cup {NoProcess}]
      /\ count \in [Names -> 0 .. NANVIX_PNAME_MAX] /\ count \in [Names -> Nat]
  BY IpcAssumption DEF IpcTypeOK
<1>1. /\ owner[m] \in {NoProcess, p} /\ owner' = [owner EXCEPT ![m] = p]
      /\ count' = [count EXCEPT ![m] = count[m] + 1]
  BY Zenon DEF Registry!Link
<1>2. /\ owner' \in [Names -> Processes \cup {NoProcess}] /\ owner'[m] = p
      /\ \A n \in Names \ {m} : owner'[n] = owner[n]
  BY Zenon, <1>0, <1>1
<1>3. count'[m] = count[m] + 1 /\ \A n \in Names \ {m} : count'[n] = count[n]
  BY Zenon, <1>0, <1>1
<1>4. count[m] < NANVIX_PNAME_MAX
  <2>1. Total(count) < NANVIX_PNAME_MAX /\ Total(count) \in Nat
    BY Zenon, <1>0, IpcAssumption, TotalType DEF MayLink
  <2>2. count[m] <= Total(count)
    BY Zenon, <1>0, IpcAssumption, TotalBound
  <2>. QED
    BY <1>0, <2>1, <2>2, IpcAssumption
<1>5. count' \in [Names -> 0 .. NANVIX_PNAME_MAX]
  BY <1>0, <1>1, <1>4, IpcAssumption
<1>6. \A n \in Names \ {m} : NameOK(n)'
  <2>. SUFFICES ASSUME NEW n \in Names \ {m} PROVE NameOK(n)'
    OBVIOUS
  <2>1. NameOK(n) /\ NameSame(n)
    BY Zenon, AccountedIs
  <2>2. owner'[n] = owner[n] /\ count'[n] = count[n]
    BY Zenon, <1>2, <1>3
  <2>. QED
    BY Zenon, <2>1, <2>2 DEF NameOK, NameSame
<1>7. NameOK(m)'
  <2>1. NameOK(m)
    BY Zenon, AccountedIs
  <2>2. count'[m] = Cardinality(Holders(m)') + Cardinality(NamedBy(m)')
    BY Zenon, <1>3, <2>1 DEF NameOK
  <2>3. count'[m] # 0 /\ owner'[m] # NoProcess
    <3>1. count[m] \in Nat
      BY Zenon, <1>0
    <3>2. p # NoProcess
      BY Zenon, IpcAssumption
    <3>. QED
      BY <1>2, <1>3, <3>1, <3>2
  <2>4. \A h \in Holders(m) : h[1] = p
    <3>1. \A h \in Holders(m) : h[1] \in Processes
      BY DEF Holders, Places
    <3>. QED
      BY Zenon, <1>1, <2>1, <3>1, IpcAssumption DEF NameOK
  <2>5. \A q \in NamedBy(m) : q = p
    BY Zenon, <1>1, <2>1, IpcAssumption DEF NameOK, NamedBy
  <2>. QED
    BY Zenon, <1>2, <2>2, <2>3, <2>4, <2>5 DEF NameOK
<1>8. NamesAccounted'
  <2>1. \A n \in Names : NameOK(n)'
    BY Zenon, <1>6, <1>7
  <2>. QED
    BY Zenon, <2>1 DEF NamesAccounted, NameOK, NamedBy
<1>. QED
  BY Zenon, <1>2, <1>5, <1>8

\* A process unlinks the name of an input.
LEMMA UnlinkAccount ==
  ASSUME IpcTypeOK, NamesAccounted, NEW p \in Processes, NEW m \in Names, Registry!Unlink(p, m),
         \A n \in Names \ {m} : NameSame(n),
         \A h \in Holders(m)' : h \in Holders(m), NamedBy(m)' = NamedBy(m),
         Cardinality(Holders(m)) = Cardinality(Holders(m)') + 1
  PROVE  /\ NamesAccounted'
         /\ owner' \in [Names -> Processes \cup {NoProcess}]
         /\ count' \in [Names -> 0 .. NANVIX_PNAME_MAX]
<1>0. /\ owner \in [Names -> Processes \cup {NoProcess}]
      /\ count \in [Names -> 0 .. NANVIX_PNAME_MAX]
  BY DEF IpcTypeOK
<1>1. /\ owner[m] = p /\ count' = [count EXCEPT ![m] = count[m] - 1]
      /\ owner' = [owner EXCEPT ![m] = IF count[m] = 1 THEN NoProcess ELSE owner[m]]
  BY Zenon DEF Registry!Unlink
<1>2. /\ owner' \in [Names -> Processes \cup {NoProcess}]
      /\ owner'[m] = IF count[m] = 1 THEN NoProcess ELSE p
      /\ \A n \in Names \ {m} : owner'[n] = owner[n]
  BY Zenon, <1>0, <1>1
<1>3. count'[m] = count[m] - 1 /\ \A n \in Names \ {m} : count'[n] = count[n]
  BY Zenon, <1>0, <1>1
<1>4. NameOK(m)
  BY Zenon, AccountedIs
<1>. DEFINE H == Cardinality(Holders(m))
            G == Cardinality(Holders(m)')
            P == Cardinality(NamedBy(m))
<1>5. H \in Nat /\ G \in Nat /\ P \in Nat /\ IsFiniteSet(Holders(m)') /\ IsFiniteSet(NamedBy(m))
  <2>1. G \in Nat /\ IsFiniteSet(Holders(m)')
    <3>1. Holders(m)' \in SUBSET Places
      BY Zenon DEF Holders
    <3>. QED
      BY Zenon, <3>1, PlacesFinite, FS_Subset, FS_CardinalityType
  <2>. QED
    BY Zenon, <2>1, HoldersFinite, NamedFinite
<1>6. count[m] = H + P /\ H = G + 1
  BY Zenon, <1>4 DEF NameOK
<1>7. Holders(m)' = {} <=> G = 0
  BY Zenon, <1>5, FS_EmptySet
<1>8. NamedBy(m) = {} <=> P = 0
  BY Zenon, <1>5, FS_EmptySet
<1>9. \A h \in Holders(m)' : owner[m] = h[1]
  BY Zenon, <1>4 DEF NameOK
<1>a. \A q \in NamedBy(m) : owner[m] = q
  BY Zenon, <1>4 DEF NameOK
<1>. HIDE DEF H, G, P
<1>b. count'[m] = G + P /\ (count[m] = 1 <=> count'[m] = 0) /\ (count'[m] = 0 => G = 0 /\ P = 0)
  BY <1>3, <1>5, <1>6
<1>c. count' \in [Names -> 0 .. NANVIX_PNAME_MAX]
  <2>1. count[m] \in 1 .. NANVIX_PNAME_MAX
    BY <1>0, <1>5, <1>6
  <2>. QED
    BY <1>0, <1>1, <2>1, IpcAssumption
<1>d. NameOK(m)'
  <2>1. count'[m] = Cardinality(Holders(m)') + Cardinality(NamedBy(m)')
    BY Zenon, <1>b DEF G, P
  <2>2. owner'[m] = NoProcess <=> count'[m] = 0
    BY Zenon, <1>2, <1>b, IpcAssumption
  <2>3. CASE count'[m] = 0
    <3>1. Holders(m)' = {} /\ NamedBy(m)' = {}
      BY Zenon, <1>7, <1>8, <1>b, <2>3
    <3>. QED
      BY Zenon, <2>1, <2>2, <3>1 DEF NameOK
  <2>4. CASE count'[m] # 0
    <3>1. owner'[m] = owner[m]
      BY Zenon, <1>1, <1>2, <1>b, <2>4
    <3>. QED
      BY Zenon, <1>9, <1>a, <2>1, <2>2, <3>1 DEF NameOK
  <2>. QED
    BY Zenon, <2>3, <2>4
<1>e. \A n \in Names \ {m} : NameOK(n)'
  <2>. SUFFICES ASSUME NEW n \in Names \ {m} PROVE NameOK(n)'
    OBVIOUS
  <2>1. NameOK(n) /\ NameSame(n)
    BY Zenon, AccountedIs
  <2>2. owner'[n] = owner[n] /\ count'[n] = count[n]
    BY Zenon, <1>2, <1>3
  <2>. QED
    BY Zenon, <2>1, <2>2 DEF NameOK, NameSame
<1>f. NamesAccounted'
  <2>1. \A n \in Names : NameOK(n)'
    BY Zenon, <1>d, <1>e
  <2>. QED
    BY Zenon, <2>1 DEF NamesAccounted, NameOK, NamedBy
<1>. QED
  BY Zenon, <1>2, <1>c, <1>f

-----------------------------------------------------------------------------
\* The connectors of kind k of process p are those of its entries.
TrackOK(p, k) ==
  /\ outputs[p][k] = Cardinality(Outputs(p, k))
  /\ \A i, j \in Inputs(p, k) :
       /\ table[p][k][i].port \in inputs[p][k]
       /\ table[p][k][i].port = table[p][k][j].port => i = j \/ table[p][k][i].port = StdPort
  /\ StdPort \in inputs[p][k]

\* Every table is tracked.
LEMMA IpcInvIs ==
  IpcInv <=> /\ NamesAccounted /\ IpcTypeOK
             /\ \A p \in Processes, k \in Kinds : TrackOK(p, k)
BY Zenon DEF IpcInv, ConnectorsTracked, TrackOK

\* A table that nothing wrote to.
LEMMA TrackSame ==
  ASSUME NEW q, NEW l, TrackOK(q, l),
         \A j \in Index : table'[q][l][j] = table[q][l][j],
         inputs'[q][l] = inputs[q][l], outputs'[q][l] = outputs[q][l]
  PROVE  TrackOK(q, l)'
<1>1. Outputs(q, l)' = Outputs(q, l) /\ Inputs(q, l)' = Inputs(q, l)
  BY Zenon DEF Outputs, Inputs
<1>2. \A j \in Inputs(q, l) : table'[q][l][j] = table[q][l][j]
  BY Zenon DEF Inputs
<1>3. Cardinality(Outputs(q, l)') = Cardinality(Outputs(q, l))
  BY Zenon, <1>1
<1>4. ASSUME NEW i \in Inputs(q, l)', NEW j \in Inputs(q, l)'
      PROVE  /\ table'[q][l][i].port \in inputs'[q][l]
             /\ table'[q][l][i].port = table'[q][l][j].port => i = j \/ table'[q][l][i].port = StdPort
  BY Zenon, <1>1, <1>2 DEF TrackOK
<1>. QED
  BY Zenon, <1>3, <1>4 DEF TrackOK

\* The numbers of outputs are finite.
LEMMA OutputsFinite ==
  ASSUME NEW p, NEW k
  PROVE  IsFiniteSet(Outputs(p, k)) /\ Cardinality(Outputs(p, k)) \in Nat
<1>1. IsFiniteSet(Index)
  <2>1. 0 \in Int /\ PoolMax - 1 \in Int
    BY IpcAssumption
  <2>. QED
    BY Zenon, <2>1, FS_Interval DEF Index
<1>2. Outputs(p, k) \in SUBSET Index
  BY Zenon DEF Outputs
<1>. QED
  BY Zenon, <1>1, <1>2, FS_Subset, FS_CardinalityType

\* A new input whose connector is the standard one or a new one.
LEMMA TrackInput ==
  ASSUME table \in TableType, NEW p \in Processes, NEW k \in Kinds, NEW i \in Free(p, k),
         NEW q \in Ports \cup {StdPort}, NEW m \in Names, Set(p, k, i, Input(q, m)),
         TrackOK(p, k), outputs'[p][k] = outputs[p][k],
         inputs'[p][k] = inputs[p][k] \cup {q}, q = StdPort \/ q \notin inputs[p][k]
  PROVE  TrackOK(p, k)'
<1>. DEFINE e == Input(q, m)
<1>0. i \in Index /\ table[p][k][i].mode = "free"
  BY Zenon DEF Free
<1>1. e \in Entries /\ e.mode = "rdonly" /\ e.port = q
  BY EntryFields
<1>. HIDE DEF e
<1>2. table'[p][k][i] = e /\ \A j \in Index \ {i} : table'[p][k][j] = table[p][k][j]
  BY <1>0, <1>1, SetEffect DEF e
<1>3. Outputs(p, k)' = Outputs(p, k)
  <2>1. e.mode # "wronly" /\ table[p][k][i].mode # "wronly"
    BY <1>0, <1>1
  <2>. QED
    BY Zenon, <1>2, <2>1 DEF Outputs
<1>4. Inputs(p, k)' = Inputs(p, k) \cup {i} /\ i \notin Inputs(p, k)
  <2>1. table[p][k][i].mode # "rdonly"
    BY <1>0
  <2>. QED
    BY Zenon, <1>0, <1>1, <1>2, <2>1 DEF Inputs
<1>5. \A j \in Inputs(p, k) : table'[p][k][j] = table[p][k][j] /\ table[p][k][j].port \in inputs[p][k]
  BY Zenon, <1>2, <1>4 DEF Inputs, TrackOK
<1>6. ASSUME NEW a \in Inputs(p, k)', NEW b \in Inputs(p, k)'
      PROVE  /\ table'[p][k][a].port \in inputs'[p][k]
             /\ table'[p][k][a].port = table'[p][k][b].port => a = b \/ table'[p][k][a].port = StdPort
  <2>1. CASE a = i /\ b = i
    BY Zenon, <1>1, <1>2, <2>1
  <2>2. CASE a = i /\ b # i
    BY Zenon, <1>1, <1>2, <1>4, <1>5, <2>2
  <2>3. CASE a # i /\ b = i
    BY Zenon, <1>1, <1>2, <1>4, <1>5, <2>3
  <2>4. CASE a # i /\ b # i
    <3>1. a \in Inputs(p, k) /\ b \in Inputs(p, k)
      BY Zenon, <1>4, <2>4
    <3>. QED
      BY Zenon, <1>5, <3>1 DEF TrackOK
  <2>. QED
    BY Zenon, <2>1, <2>2, <2>3, <2>4
<1>7. outputs'[p][k] = Cardinality(Outputs(p, k)')
  BY Zenon, <1>3 DEF TrackOK
<1>. QED
  BY Zenon, <1>6, <1>7 DEF TrackOK

\* An entry that is freed, or that becomes an output.
LEMMA TrackWrite ==
  ASSUME table \in TableType, NEW p \in Processes, NEW k \in Kinds, NEW i \in Index,
         NEW e \in {NoEntry, Output}, Set(p, k, i, e), TrackOK(p, k),
         inputs'[p][k] = inputs[p][k],
         outputs'[p][k] = outputs[p][k] + (IF e = Output THEN 1 ELSE 0)
                                        - (IF table[p][k][i].mode = "wronly" THEN 1 ELSE 0)
  PROVE  TrackOK(p, k)'
<1>1. /\ e \in Entries /\ e.mode # "rdonly" /\ (e = Output <=> e.mode = "wronly")
  BY EntryFields
<1>2. table'[p][k][i] = e /\ \A j \in Index \ {i} : table'[p][k][j] = table[p][k][j]
  BY <1>1, SetEffect
<1>3. \A j \in Inputs(p, k)' : j \in Inputs(p, k) /\ table'[p][k][j] = table[p][k][j]
  BY Zenon, <1>1, <1>2 DEF Inputs
<1>4. ASSUME NEW a \in Inputs(p, k)', NEW b \in Inputs(p, k)'
      PROVE  /\ table'[p][k][a].port \in inputs'[p][k]
             /\ table'[p][k][a].port = table'[p][k][b].port => a = b \/ table'[p][k][a].port = StdPort
  BY Zenon, <1>3 DEF TrackOK
<1>. DEFINE S == Outputs(p, k)
<1>5. IsFiniteSet(S) /\ Cardinality(S) \in Nat /\ outputs[p][k] = Cardinality(S)
  BY OutputsFinite DEF TrackOK
<1>6. \A j : j \in S <=> j \in Index /\ table[p][k][j].mode = "wronly"
  BY Zenon DEF Outputs
<1>7. \A j : j \in S' <=> j \in Index /\ table'[p][k][j].mode = "wronly"
  BY Zenon DEF Outputs
<1>. HIDE DEF S
<1>8. outputs'[p][k] = Cardinality(S')
  <2>1. CASE e = Output /\ i \in S
    <3>1. S' = S
      BY Zenon, <1>1, <1>2, <1>6, <1>7, <2>1
    <3>. QED
      BY <1>5, <1>6, <2>1, <3>1
  <2>2. CASE e = Output /\ i \notin S
    <3>0. ASSUME NEW j PROVE j \in S' <=> j \in S \/ j = i
      BY ZenonT(40), <1>1, <1>2, <1>6, <1>7, <2>2
    <3>1. S' = S \cup {i}
      BY Zenon, <3>0
    <3>2. Cardinality(S') = Cardinality(S) + 1
      BY Zenon, <1>5, <2>2, <3>1, FS_AddElement
    <3>. QED
      BY <1>5, <1>6, <2>2, <3>2
  <2>3. CASE e # Output /\ i \in S
    <3>0. ASSUME NEW j PROVE j \in S' <=> j \in S /\ j # i
      <4>1. CASE j = i
        BY Zenon, <1>1, <1>2, <1>7, <2>3, <4>1
      <4>2. CASE j # i
        BY Zenon, <1>2, <1>6, <1>7, <4>2
      <4>. QED
        BY Zenon, <4>1, <4>2
    <3>1. S' = S \ {i}
      BY Zenon, <3>0
    <3>2. Cardinality(S') = Cardinality(S) - 1
      BY Zenon, <1>5, <2>3, <3>1, FS_RemoveElement
    <3>. QED
      BY <1>5, <1>6, <2>3, <3>2
  <2>4. CASE e # Output /\ i \notin S
    <3>1. S' = S
      BY Zenon, <1>1, <1>2, <1>6, <1>7, <2>4
    <3>. QED
      BY <1>5, <1>6, <2>4, <3>1
  <2>. QED
    BY Zenon, <2>1, <2>2, <2>3, <2>4
<1>9. StdPort \in inputs'[p][k]
  BY Zenon DEF TrackOK
<1>. QED
  BY Zenon, <1>4, <1>8, <1>9 DEF TrackOK, S

\* The tables other than that of kind k of process p.
LEMMA TrackOthers ==
  ASSUME table \in TableType, NEW p \in Processes, NEW k \in Kinds, NEW i \in Index,
         NEW e \in Entries, Set(p, k, i, e),
         \A q \in Processes, l \in Kinds : TrackOK(q, l),
         \A q \in Processes, l \in Kinds :
           q # p \/ l # k => inputs'[q][l] = inputs[q][l] /\ outputs'[q][l] = outputs[q][l],
         TrackOK(p, k)'
  PROVE  \A q \in Processes, l \in Kinds : TrackOK(q, l)'
<1>. SUFFICES ASSUME NEW q \in Processes, NEW l \in Kinds, q # p \/ l # k
              PROVE  TrackOK(q, l)'
  BY Zenon
<1>1. \A j \in Index : table'[q][l][j] = table[q][l][j]
  BY SetEffect
<1>2. inputs'[q][l] = inputs[q][l] /\ outputs'[q][l] = outputs[q][l] /\ TrackOK(q, l)
  BY Zenon
<1>. QED
  BY Zenon, <1>1, <1>2, TrackSame

-----------------------------------------------------------------------------
\* The initial tables are empty.
LEMMA IpcInitOK == IpcInit => IpcInv
<1>. SUFFICES ASSUME IpcInit PROVE IpcInv
  OBVIOUS
<1>1. IpcTypeOK
  BY IpcAssumption, EntryFields DEF IpcInit, IpcTypeOK, Kinds
<1>2. \A p \in Processes, k \in Kinds, i \in Index : table[p][k][i].mode = "free"
  <2>1. \A p \in Processes, k \in Kinds, i \in Index : table[p][k][i] = NoEntry
    BY Zenon DEF IpcInit
  <2>. QED
    BY Zenon, <2>1, EntryFields
<1>3. ASSUME NEW n \in Names PROVE NameOK(n)
  <2>1. Holders(n) = {}
    <3>1. \A h \in Places : EntryAt(h).mode = "free"
      BY <1>2 DEF Places, EntryAt
    <3>. QED
      BY <3>1 DEF Holders
  <2>2. NamedBy(n) = {}
    BY Zenon, IpcAssumption DEF IpcInit, NamedBy
  <2>3. Cardinality(Holders(n)) = 0 /\ Cardinality(NamedBy(n)) = 0
    BY Zenon, <2>1, <2>2, FS_EmptySet
  <2>4. count[n] = 0 /\ owner[n] = NoProcess
    BY Zenon DEF IpcInit
  <2>5. count[n] = Cardinality(Holders(n)) + Cardinality(NamedBy(n))
    BY <2>3, <2>4
  <2>. QED
    BY Zenon, <2>1, <2>2, <2>4, <2>5 DEF NameOK
<1>4. ASSUME NEW p \in Processes, NEW k \in Kinds PROVE TrackOK(p, k)
  <2>1. Outputs(p, k) = {} /\ Inputs(p, k) = {}
    BY <1>2 DEF Outputs, Inputs
  <2>2. outputs[p][k] = 0 /\ inputs[p][k] = {StdPort}
    BY Zenon DEF IpcInit
  <2>3. Cardinality(Outputs(p, k)) = 0
    BY Zenon, <2>1, FS_EmptySet
  <2>. QED
    BY Zenon, <2>1, <2>2, <2>3 DEF TrackOK
<1>. QED
  BY Zenon, <1>1, <1>3, <1>4, AccountedIs, IpcInvIs

\* What a new input with its link keeps.
LEMMA NewInput ==
  ASSUME IpcInv, NEW p \in Processes, NEW k \in Kinds, NEW i \in Free(p, k),
         NEW q \in Ports \cup {StdPort}, NEW m \in Names, Set(p, k, i, Input(q, m)),
         MayLink(p, m), Registry!Link(p, m),
         inputs' = [inputs EXCEPT ![p][k] = @ \cup {q}], q = StdPort \/ q \notin inputs[p][k],
         UNCHANGED <<outputs, pname>>
  PROVE  IpcInv'
<1>1. IpcTypeOK /\ NamesAccounted /\ \A r \in Processes, l \in Kinds : TrackOK(r, l)
  BY Zenon, IpcInvIs
<1>2. table \in TableType /\ inputs \in [Processes -> [Kinds -> SUBSET (Ports \cup {StdPort})]]
  BY Zenon, <1>1 DEF IpcTypeOK, TableType
<1>3. i \in Index
  BY Zenon DEF Free
<1>4. Input(q, m) \in Entries /\ Input(q, m).mode = "rdonly" /\ Input(q, m).name = m
  BY Zenon, EntryFields
<1>5. table' \in TableType
  BY <1>2, <1>3, <1>4, SetEffect
<1>6. /\ inputs' \in [Processes -> [Kinds -> SUBSET (Ports \cup {StdPort})]]
      /\ inputs'[p][k] = inputs[p][k] \cup {q}
      /\ \A r \in Processes, l \in Kinds : r # p \/ l # k => inputs'[r][l] = inputs[r][l]
  BY <1>2
<1>7. /\ Cardinality(Holders(m)') = Cardinality(Holders(m)) + 1
      /\ \A h \in Holders(m)' : h \in Holders(m) \/ h[1] = p
      /\ \A n \in Names \ {m} : Holders(n)' = Holders(n)
  BY <1>2, <1>4, HoldersGain
<1>8. \A n : NamedBy(n)' = NamedBy(n)
  BY Zenon DEF NamedBy
<1>9. \A n \in Names \ {m} : NameSame(n)
  BY Zenon, <1>7, <1>8 DEF NameSame
<1>a. Cardinality(Holders(m)') + Cardinality(NamedBy(m)')
        = Cardinality(Holders(m)) + Cardinality(NamedBy(m)) + 1
  <2>1. Cardinality(NamedBy(m)') = Cardinality(NamedBy(m))
    BY Zenon, <1>8
  <2>2. Cardinality(Holders(m)) \in Nat
    BY HoldersFinite
  <2>3. Cardinality(NamedBy(m)) \in Nat
    BY NamedFinite
  <2>. QED
    BY <1>7, <2>1, <2>2, <2>3
<1>b. \A r \in NamedBy(m)' : r \in NamedBy(m) \/ r = p
  BY Zenon, <1>8
<1>c. /\ NamesAccounted'
      /\ owner' \in [Names -> Processes \cup {NoProcess}]
      /\ count' \in [Names -> 0 .. NANVIX_PNAME_MAX]
  BY <1>1, <1>7, <1>9, <1>a, <1>b, LinkAccount
<1>d. TrackOK(p, k)'
  BY Zenon, <1>1, <1>2, <1>6, TrackInput
<1>e. \A r \in Processes, l \in Kinds : TrackOK(r, l)'
  BY <1>1, <1>2, <1>3, <1>4, <1>6, <1>d, TrackOthers
<1>f. IpcTypeOK'
  BY Zenon, <1>1, <1>5, <1>6, <1>c DEF IpcTypeOK, TableType
<1>. QED
  BY Zenon, <1>c, <1>e, <1>f, IpcInvIs DEF IpcInv, ConnectorsTracked, TrackOK

\* What an open or a close keeps.
LEMMA OutputWrite ==
  ASSUME IpcInv, NEW p \in Processes, NEW k \in Kinds, NEW i \in Index,
         NEW e \in {NoEntry, Output}, Set(p, k, i, e), table[p][k][i].mode # "rdonly",
         NEW d \in 0 .. ConnectorMax, outputs' = [outputs EXCEPT ![p][k] = d],
         d = outputs[p][k] + (IF e = Output THEN 1 ELSE 0)
                           - (IF table[p][k][i].mode = "wronly" THEN 1 ELSE 0),
         UNCHANGED <<owner, count, inputs, pname>>
  PROVE  IpcInv'
<1>1. IpcTypeOK /\ NamesAccounted /\ \A r \in Processes, l \in Kinds : TrackOK(r, l)
  BY Zenon, IpcInvIs
<1>2. table \in TableType /\ outputs \in [Processes -> [Kinds -> 0 .. ConnectorMax]]
  BY Zenon, <1>1 DEF IpcTypeOK, TableType
<1>3. e \in Entries
  BY Zenon, EntryFields
<1>4. table' \in TableType
  BY <1>2, <1>3, SetEffect
<1>5. /\ outputs' \in [Processes -> [Kinds -> 0 .. ConnectorMax]] /\ outputs'[p][k] = d
      /\ \A r \in Processes, l \in Kinds : r # p \/ l # k => outputs'[r][l] = outputs[r][l]
  BY <1>2
<1>6. ASSUME NEW n PROVE Holders(n)' = Holders(n)
  BY <1>2, HoldersSame
<1>7. NamesAccounted'
  <2>1. ASSUME NEW n \in Names PROVE NameOK(n)'
    <3>1. NameOK(n) /\ NamedBy(n)' = NamedBy(n)
      BY Zenon, <1>1, AccountedIs DEF NamedBy
    <3>. QED
      BY Zenon, <1>6, <3>1 DEF NameOK
  <2>. QED
    BY Zenon, <2>1 DEF NamesAccounted, NameOK, NamedBy
<1>8. TrackOK(p, k)'
  <2>1. inputs'[p][k] = inputs[p][k]
    OBVIOUS
  <2>2. outputs'[p][k] = outputs[p][k] + (IF e = Output THEN 1 ELSE 0)
                                       - (IF table[p][k][i].mode = "wronly" THEN 1 ELSE 0)
    BY Zenon, <1>5
  <2>3. TrackOK(p, k)
    BY Zenon, <1>1
  <2>. QED
    BY Zenon, <1>2, <2>1, <2>2, <2>3, TrackWrite
<1>9. \A r \in Processes, l \in Kinds : TrackOK(r, l)'
  BY Zenon, <1>1, <1>2, <1>3, <1>5, <1>8, TrackOthers
<1>a. IpcTypeOK'
  BY Zenon, <1>1, <1>4, <1>5 DEF IpcTypeOK, TableType
<1>. QED
  BY Zenon, <1>7, <1>9, <1>a DEF IpcInv, ConnectorsTracked, TrackOK

\* What an unlink keeps.
LEMMA UnlinkOK ==
  ASSUME IpcInv, NEW p \in Processes, NEW k \in Kinds, NEW i \in Index, Unlink(p, k, i)
  PROVE  IpcInv'
<1>1. IpcTypeOK /\ NamesAccounted /\ \A r \in Processes, l \in Kinds : TrackOK(r, l)
  BY Zenon, IpcInvIs
<1>2. table \in TableType /\ outputs \in [Processes -> [Kinds -> 0 .. ConnectorMax]]
  BY Zenon, <1>1 DEF IpcTypeOK, TableType
<1>. DEFINE m == table[p][k][i].name
<1>3. /\ i \in Inputs(p, k) /\ Registry!Unlink(p, m) /\ Set(p, k, i, NoEntry)
      /\ UNCHANGED <<inputs, outputs, pname>>
  BY Zenon DEF Unlink
<1>4. table[p][k][i].mode = "rdonly" /\ table[p][k][i] \in Entries /\ m \in Names
  <2>1. table[p][k][i].mode = "rdonly"
    BY Zenon, <1>3 DEF Inputs
  <2>2. table[p][k][i] \in Entries
    BY <1>2 DEF TableType
  <2>. QED
    BY Zenon, <2>1, <2>2, EntryFields
<1>5. PICK n \in Names : n = m
  BY Zenon, <1>4
<1>. HIDE DEF m
<1>6. /\ Cardinality(Holders(n)) = Cardinality(Holders(n)') + 1
      /\ \A h \in Holders(n)' : h \in Holders(n)
      /\ \A r \in Names \ {n} : Holders(r)' = Holders(r)
  BY Zenon, <1>2, <1>3, <1>5, HoldersLose DEF m
<1>7. \A r : NamedBy(r)' = NamedBy(r)
  BY Zenon, <1>3 DEF NamedBy
<1>8. \A r \in Names \ {n} : NameSame(r)
  BY Zenon, <1>6, <1>7 DEF NameSame
<1>9. /\ NamesAccounted'
      /\ owner' \in [Names -> Processes \cup {NoProcess}]
      /\ count' \in [Names -> 0 .. NANVIX_PNAME_MAX]
  BY <1>1, <1>3, <1>5, <1>6, <1>7, <1>8, UnlinkAccount
<1>a. NoEntry \in Entries
  BY Zenon, EntryFields
<1>b. table' \in TableType
  BY <1>2, <1>3, <1>a, SetEffect
<1>c. TrackOK(p, k)'
  <2>1. outputs[p][k] \in 0 .. ConnectorMax
    BY <1>2
  <2>2. NoEntry # Output
    BY EntryFields
  <2>3. outputs'[p][k] = outputs[p][k] + (IF NoEntry = Output THEN 1 ELSE 0)
                                       - (IF table[p][k][i].mode = "wronly" THEN 1 ELSE 0)
    BY <1>3, <1>4, <2>1, <2>2
  <2>4. inputs'[p][k] = inputs[p][k] /\ TrackOK(p, k) /\ NoEntry \in {NoEntry, Output}
    BY Zenon, <1>1, <1>3
  <2>. QED
    BY <1>2, <1>3, <2>3, <2>4, TrackWrite
<1>d. \A r \in Processes, l \in Kinds : TrackOK(r, l)'
  BY <1>1, <1>2, <1>3, <1>a, <1>c, TrackOthers
<1>e. IpcTypeOK'
  BY Zenon, <1>1, <1>3, <1>9, <1>b DEF IpcTypeOK, TableType
<1>. QED
  BY Zenon, <1>9, <1>d, <1>e DEF IpcInv, ConnectorsTracked, TrackOK

\* What a call that changes nothing keeps.
LEMMA IpcStutter ==
  ASSUME IpcInv, UNCHANGED ipcvars
  PROVE  IpcInv'
<1>1. IpcTypeOK /\ NamesAccounted /\ \A r \in Processes, l \in Kinds : TrackOK(r, l)
  BY Zenon, IpcInvIs
<1>2. /\ owner' = owner /\ count' = count /\ table' = table /\ inputs' = inputs
      /\ outputs' = outputs /\ pname' = pname
  BY Zenon DEF ipcvars
<1>3. ASSUME NEW n \in Names PROVE NameOK(n)'
  <2>1. Holders(n)' = Holders(n) /\ NamedBy(n)' = NamedBy(n) /\ NameOK(n)
    BY Zenon, <1>1, <1>2, AccountedIs DEF Holders, EntryAt, NamedBy
  <2>. QED
    BY Zenon, <1>2, <2>1 DEF NameOK
<1>4. NamesAccounted'
  BY Zenon, <1>3 DEF NamesAccounted, NameOK, NamedBy
<1>5. ASSUME NEW r \in Processes, NEW l \in Kinds PROVE TrackOK(r, l)'
  BY <1>1, <1>2, TrackSame
<1>6. IpcTypeOK'
  BY Zenon, <1>1, <1>2 DEF IpcTypeOK
<1>. QED
  BY Zenon, <1>4, <1>5, <1>6 DEF IpcInv, ConnectorsTracked, TrackOK

\* What a create keeps.
LEMMA CreateOK ==
  ASSUME IpcInv, NEW p \in Processes, NEW k \in Kinds, NEW n \in Names, Create(p, k, n)
  PROVE  IpcInv'
<1>1. PICK i \in Free(p, k) : Set(p, k, i, Input(StdPort, n))
  BY Zenon DEF Create
<1>2. MayLink(p, n) /\ Registry!Link(p, n) /\ UNCHANGED <<inputs, outputs, pname>>
  BY Zenon DEF Create
<1>3. StdPort \in inputs[p][k] /\ inputs \in [Processes -> [Kinds -> SUBSET (Ports \cup {StdPort})]]
  BY Zenon DEF IpcInv, ConnectorsTracked, IpcTypeOK
<1>4. inputs' = [inputs EXCEPT ![p][k] = @ \cup {StdPort}]
  BY <1>2, <1>3
<1>5. StdPort \in Ports \cup {StdPort} /\ UNCHANGED <<outputs, pname>>
  BY Zenon, <1>2
<1>. QED
  BY Zenon, <1>1, <1>2, <1>4, <1>5, NewInput

\* What a create with a port of its own keeps, and what it gives back when the
\* link is refused.
LEMMA Create2OK ==
  ASSUME IpcInv, NEW p \in Processes, NEW k \in Kinds, NEW n \in Names, NEW q \in Ports,
         Create2(p, k, n, q)
  PROVE  IpcInv'
<1>1. CASE MayLink(p, n)
  <2>1. PICK i \in Free(p, k) : Set(p, k, i, Input(q, n))
    BY Zenon, <1>1 DEF Create2
  <2>2. /\ MayLink(p, n) /\ Registry!Link(p, n) /\ UNCHANGED <<outputs, pname>>
        /\ inputs' = [inputs EXCEPT ![p][k] = @ \cup {q}] /\ q \notin inputs[p][k]
    BY Zenon, <1>1 DEF Create2, Creatable
  <2>3. q \in Ports \cup {StdPort}
    OBVIOUS
  <2>. QED
    BY Zenon, <2>1, <2>2, <2>3, NewInput
<1>2. CASE ~MayLink(p, n)
  <2>1. inputs \in [Processes -> [Kinds -> SUBSET (Ports \cup {StdPort})]]
    BY Zenon DEF IpcInv, ConnectorsTracked, IpcTypeOK
  <2>2. /\ inputs' = [inputs EXCEPT ![p][k] = inputs[p][k]]
        /\ UNCHANGED <<owner, count, table>> /\ UNCHANGED <<outputs, pname>>
    BY Zenon, <1>2 DEF Create2, Undone
  <2>3. inputs' = inputs
    BY <2>1, <2>2
  <2>. QED
    BY Zenon, <2>2, <2>3, IpcStutter DEF ipcvars
<1>. QED
  BY Zenon, <1>1, <1>2

\* What an open keeps.
LEMMA OpenOK ==
  ASSUME IpcInv, NEW p \in Processes, NEW k \in Kinds, NEW n \in Names, Open(p, k, n)
  PROVE  IpcInv'
<1>1. PICK i \in Free(p, k) : Set(p, k, i, Output)
  BY Zenon DEF Open
<1>2. i \in Index /\ table[p][k][i].mode = "free"
  BY Zenon, <1>1 DEF Free
<1>3. /\ inputs[p][k] \in SUBSET (Ports \cup {StdPort}) /\ outputs[p][k] \in 0 .. ConnectorMax
      /\ outputs \in [Processes -> [Kinds -> 0 .. ConnectorMax]]
  BY DEF IpcInv, ConnectorsTracked, IpcTypeOK
<1>4. IsFiniteSet(inputs[p][k]) /\ Cardinality(inputs[p][k]) \in Nat
  <2>1. IsFiniteSet(Ports \cup {StdPort})
    BY Zenon, IpcAssumption, FS_AddElement
  <2>. QED
    BY Zenon, <1>3, <2>1, FS_Subset, FS_CardinalityType
<1>5. outputs[p][k] + 1 \in 0 .. ConnectorMax
  BY <1>3, <1>4, IpcAssumption DEF Open, ConnectorLeft
<1>6. outputs' = [outputs EXCEPT ![p][k] = outputs[p][k] + 1] /\ UNCHANGED <<owner, count, inputs, pname>>
  BY Zenon DEF Open
<1>7. Output \in {NoEntry, Output}
  OBVIOUS
<1>8. outputs[p][k] + 1 = outputs[p][k] + (IF Output = Output THEN 1 ELSE 0)
                           - (IF table[p][k][i].mode = "wronly" THEN 1 ELSE 0)
  BY <1>2, <1>3
<1>9. table[p][k][i].mode # "rdonly"
  BY <1>2
<1>. QED
  BY Zenon, <1>1, <1>2, <1>5, <1>6, <1>7, <1>8, <1>9, OutputWrite

\* What a close keeps.
LEMMA CloseOK ==
  ASSUME IpcInv, NEW p \in Processes, NEW k \in Kinds, NEW i \in Index, Close(p, k, i)
  PROVE  IpcInv'
<1>1. i \in Outputs(p, k)
  BY Zenon DEF Close, Closable
<1>2. table[p][k][i].mode = "wronly"
  BY Zenon, <1>1 DEF Outputs
<1>3. outputs[p][k] \in 0 .. ConnectorMax /\ outputs[p][k] = Cardinality(Outputs(p, k))
  BY DEF IpcInv, ConnectorsTracked, IpcTypeOK
<1>4. Cardinality(Outputs(p, k)) # 0
  BY Zenon, <1>1, OutputsFinite, FS_EmptySet
<1>5. outputs[p][k] - 1 \in 0 .. ConnectorMax
  BY <1>3, <1>4, IpcAssumption
<1>6. /\ outputs' = [outputs EXCEPT ![p][k] = outputs[p][k] - 1] /\ Set(p, k, i, NoEntry)
      /\ UNCHANGED <<owner, count, inputs, pname>>
  BY Zenon DEF Close
<1>7. NoEntry \in {NoEntry, Output} /\ NoEntry # Output
  BY EntryFields
<1>8. outputs[p][k] - 1 = outputs[p][k] + (IF NoEntry = Output THEN 1 ELSE 0)
                           - (IF table[p][k][i].mode = "wronly" THEN 1 ELSE 0)
  BY <1>2, <1>3, <1>7
<1>9. table[p][k][i].mode # "rdonly"
  BY <1>2
<1>. QED
  BY Zenon, <1>5, <1>6, <1>7, <1>8, <1>9, OutputWrite

\* What a process keeps that names itself.
LEMMA SetpnameOK ==
  ASSUME IpcInv, NEW p \in Processes, NEW m \in Names, nanvix_setpname(p, m)
  PROVE  IpcInv'
<1>1. IpcTypeOK /\ NamesAccounted /\ \A r \in Processes, l \in Kinds : TrackOK(r, l)
  BY Zenon, IpcInvIs
<1>2. /\ pname[p] = NoName /\ MayLink(p, m) /\ Registry!Link(p, m)
      /\ pname' = [pname EXCEPT ![p] = m] /\ UNCHANGED <<table, inputs, outputs>>
  BY Zenon DEF nanvix_setpname, Unnamed
<1>3. pname \in [Processes -> Names \cup {NoName}]
  BY Zenon, <1>1 DEF IpcTypeOK
<1>4. /\ pname' \in [Processes -> Names \cup {NoName}] /\ pname'[p] = m
      /\ \A r \in Processes \ {p} : pname'[r] = pname[r]
  BY Zenon, <1>2, <1>3
<1>5. \A n : Holders(n)' = Holders(n)
  BY Zenon, <1>2 DEF Holders, EntryAt
<1>6. \A n \in Names \ {m} : NamedBy(n)' = NamedBy(n)
  <2>. SUFFICES ASSUME NEW n \in Names \ {m} PROVE NamedBy(n)' = NamedBy(n)
    OBVIOUS
  <2>1. p \notin NamedBy(n) /\ p \notin NamedBy(n)'
    BY Zenon, <1>2, <1>4, IpcAssumption DEF NamedBy
  <2>2. \A r \in Processes \ {p} : r \in NamedBy(n)' <=> r \in NamedBy(n)
    BY Zenon, <1>4 DEF NamedBy
  <2>3. \A r : r \in NamedBy(n) \/ r \in NamedBy(n)' => r \in Processes
    BY Zenon DEF NamedBy
  <2>4. ASSUME NEW r PROVE r \in NamedBy(n)' <=> r \in NamedBy(n)
    BY <2>1, <2>2, <2>3
  <2>. QED
    BY Zenon, <2>4
<1>7. NamedBy(m)' = NamedBy(m) \cup {p} /\ p \notin NamedBy(m)
  <2>1. p \notin NamedBy(m) /\ p \in NamedBy(m)'
    BY Zenon, <1>2, <1>4, IpcAssumption DEF NamedBy
  <2>2. \A r \in Processes \ {p} : r \in NamedBy(m)' <=> r \in NamedBy(m)
    BY Zenon, <1>4 DEF NamedBy
  <2>3. \A r : r \in NamedBy(m) \/ r \in NamedBy(m)' => r \in Processes
    BY Zenon DEF NamedBy
  <2>4. ASSUME NEW r PROVE r \in NamedBy(m)' <=> r \in NamedBy(m) \/ r = p
    BY <2>1, <2>2, <2>3
  <2>. QED
    BY Zenon, <2>1, <2>4
<1>8. Cardinality(Holders(m)') + Cardinality(NamedBy(m)')
        = Cardinality(Holders(m)) + Cardinality(NamedBy(m)) + 1
  <2>1. Cardinality(Holders(m)) \in Nat
    BY HoldersFinite
  <2>2. IsFiniteSet(NamedBy(m)) /\ Cardinality(NamedBy(m)) \in Nat
    BY NamedFinite
  <2>3. Cardinality(NamedBy(m)') = Cardinality(NamedBy(m)) + 1
    BY Zenon, <1>7, <2>2, FS_AddElement
  <2>4. Cardinality(Holders(m)') = Cardinality(Holders(m))
    BY Zenon, <1>5
  <2>. QED
    BY <2>1, <2>2, <2>3, <2>4
<1>9. \A n \in Names \ {m} : NameSame(n)
  BY Zenon, <1>5, <1>6 DEF NameSame
<1>a. \A h \in Holders(m)' : h \in Holders(m) \/ h[1] = p
  BY Zenon, <1>5
<1>b. \A r \in NamedBy(m)' : r \in NamedBy(m) \/ r = p
  BY Zenon, <1>7
<1>c. /\ NamesAccounted'
      /\ owner' \in [Names -> Processes \cup {NoProcess}]
      /\ count' \in [Names -> 0 .. NANVIX_PNAME_MAX]
  BY <1>1, <1>2, <1>8, <1>9, <1>a, <1>b, LinkAccount
<1>d. \A r \in Processes, l \in Kinds : TrackOK(r, l)'
  BY Zenon, <1>1, <1>2, TrackSame
<1>e. IpcTypeOK'
  BY Zenon, <1>1, <1>2, <1>4, <1>c DEF IpcTypeOK
<1>. QED
  BY Zenon, <1>c, <1>d, <1>e DEF IpcInv, ConnectorsTracked, TrackOK

-----------------------------------------------------------------------------
\* The functions of the two kinds, which are the same up to the kind.
IpcStep(p, k) ==
  \/ \E n \in Names : \/ Create(p, k, n) \/ Open(p, k, n)
                      \/ \E q \in Ports : Create2(p, k, n, q)
  \/ \E i \in Index : Close(p, k, i) \/ Unlink(p, k, i)

\* A step is that of a function on a mailbox or a portal, or of setpname().
LEMMA IpcSteps ==
  ASSUME IpcNext
  PROVE  \E p \in Processes : (\E n \in Names : nanvix_setpname(p, n)) \/ \E k \in Kinds : IpcStep(p, k)
<1>1. "mailbox" \in Kinds /\ "portal" \in Kinds
  BY Zenon DEF Kinds
<1>2. PICK p \in Processes :
        \/ \E n \in Names : nanvix_setpname(p, n)
        \/ IpcStep(p, "mailbox") \/ IpcStep(p, "portal")
  BY ZenonT(40) DEF IpcNext, IpcStep, nanvix_mailbox_create, nanvix_mailbox_create2,
    nanvix_mailbox_open, nanvix_mailbox_close, nanvix_mailbox_unlink, nanvix_portal_create,
    nanvix_portal_create2, nanvix_portal_open, nanvix_portal_close, nanvix_portal_unlink
<1>. QED
  BY Zenon, <1>1, <1>2

\* The inductive step.
LEMMA IpcNextOK == IpcInv /\ [IpcNext]_ipcvars => IpcInv'
<1>. SUFFICES ASSUME IpcInv, [IpcNext]_ipcvars PROVE IpcInv'
  OBVIOUS
<1>1. CASE IpcNext
  <2>1. PICK p \in Processes :
          (\E n \in Names : nanvix_setpname(p, n)) \/ \E k \in Kinds : IpcStep(p, k)
    BY Zenon, <1>1, IpcSteps
  <2>2. CASE \E n \in Names : nanvix_setpname(p, n)
    BY <2>2, SetpnameOK
  <2>3. ASSUME NEW k \in Kinds, IpcStep(p, k) PROVE IpcInv'
    <3>1. CASE \E n \in Names : Create(p, k, n)
      BY <3>1, CreateOK
    <3>2. CASE \E n \in Names : Open(p, k, n)
      BY <3>2, OpenOK
    <3>3. CASE \E n \in Names : \E q \in Ports : Create2(p, k, n, q)
      BY <3>3, Create2OK
    <3>4. CASE \E i \in Index : Close(p, k, i)
      BY <3>4, CloseOK
    <3>5. CASE \E i \in Index : Unlink(p, k, i)
      BY <3>5, UnlinkOK
    <3>. QED
      BY Zenon, <2>3, <3>1, <3>2, <3>3, <3>4, <3>5 DEF IpcStep
  <2>. QED
    BY Zenon, <2>1, <2>2, <2>3
<1>2. CASE UNCHANGED ipcvars
  BY Zenon, <1>2, IpcStutter
<1>. QED
  BY Zenon, <1>1, <1>2

\* The invariant holds of every behaviour.
LEMMA IpcInvHolds == IpcSpec => []IpcInv
BY IpcInitOK, IpcNextOK, PTL DEF IpcSpec

\* Whatever the processes create, open, close and unlink, the name server counts
\* for each name exactly the inputs and the process that have it, all of the
\* process that it has for the name.
THEOREM IpcNames == IpcSpec => []NamesAccounted
<1>1. IpcInv => NamesAccounted
  BY Zenon DEF IpcInv
<1>. QED
  BY <1>1, IpcInvHolds, PTL

\* The connectors that the kernel gave to a process are those of the entries
\* of its tables.
THEOREM IpcConnectors == IpcSpec => []ConnectorsTracked
<1>1. IpcInv => ConnectorsTracked
  BY Zenon DEF IpcInv
<1>. QED
  BY <1>1, IpcInvHolds, PTL

\* Connectors appear only with the entry of their port.
NamedStep ==
  \A p \in Processes, k \in Kinds, q \in Ports :
    q \in inputs'[p][k] \ inputs[p][k] =>
      \E i \in Index : table'[p][k][i].mode = "rdonly" /\ table'[p][k][i].port = q

\* The step of create2() is the only one that makes a connector.
LEMMA NamedStepOK == IpcInv /\ IpcNext => NamedStep
<1>. SUFFICES ASSUME IpcInv, IpcNext PROVE NamedStep
  OBVIOUS
<1>0. inputs \in [Processes -> [Kinds -> SUBSET (Ports \cup {StdPort})]] /\ table \in TableType
  BY Zenon DEF IpcInv, ConnectorsTracked, IpcTypeOK, TableType
<1>1. PICK p \in Processes :
        (\E n \in Names : nanvix_setpname(p, n)) \/ \E k \in Kinds : IpcStep(p, k)
  BY Zenon, IpcSteps
<1>2. CASE inputs' = inputs
  BY Zenon, <1>2 DEF NamedStep
<1>3. ASSUME NEW k \in Kinds, NEW n \in Names, NEW q \in Ports, Create2(p, k, n, q)
      PROVE  NamedStep
  <2>1. CASE MayLink(p, n)
    <3>1. PICK i \in Free(p, k) : Set(p, k, i, Input(q, n))
      BY Zenon, <1>3, <2>1 DEF Create2
    <3>2. inputs' = [inputs EXCEPT ![p][k] = @ \cup {q}]
      BY Zenon, <1>3, <2>1 DEF Create2
    <3>3. i \in Index
      BY Zenon, <3>1 DEF Free
    <3>4. Input(q, n) \in Entries /\ Input(q, n).mode = "rdonly" /\ Input(q, n).port = q
      BY Zenon, EntryFields
    <3>5. table'[p][k][i] = Input(q, n)
      BY <1>0, <3>1, <3>3, <3>4, SetEffect
    <3>6. \A r \in Processes, l \in Kinds, o \in Ports :
            o \in inputs'[r][l] \ inputs[r][l] => r = p /\ l = k /\ o = q
      BY <1>0, <3>2
    <3>. QED
      BY Zenon, <3>3, <3>4, <3>5, <3>6 DEF NamedStep
  <2>2. CASE ~MayLink(p, n)
    <3>1. inputs' = [inputs EXCEPT ![p][k] = inputs[p][k]]
      BY Zenon, <1>3, <2>2 DEF Create2, Undone
    <3>. QED
      BY <1>0, <1>2, <3>1
  <2>. QED
    BY Zenon, <2>1, <2>2
<1>4. ASSUME NEW k \in Kinds, IpcStep(p, k)
      PROVE  NamedStep
  BY Zenon, <1>2, <1>3, <1>4 DEF IpcStep, Create, Open, Close, Unlink
<1>5. CASE \E n \in Names : nanvix_setpname(p, n)
  BY Zenon, <1>2, <1>5 DEF nanvix_setpname
<1>. QED
  BY Zenon, <1>1, <1>4, <1>5

\* A create that fails leaves no connector behind.
THEOREM IpcConnectorsNamed == IpcSpec => ConnectorsNamed
<1>1. IpcInv /\ [IpcNext]_ipcvars => [NamedStep]_ipcvars
  BY Zenon, NamedStepOK
<1>2. IpcSpec => [][NamedStep]_ipcvars
  BY <1>1, IpcInvHolds, PTL DEF IpcSpec
<1>. QED
  BY Zenon, <1>2 DEF ConnectorsNamed, NamedStep

-----------------------------------------------------------------------------
(***************************************************************************)
(* Semaphores.  Messages, counters and the table of sleeping connections.  *)
(***************************************************************************)

Answers == {NoReply} \cup [status : Codes, sem : Semaphores]
Sleeper == [conn : {0}, semid : Semaphores \cup {-1}, val : Int]

\* The counters are natural numbers, and an entry of the table of sleeping
\* connections holds connection zero, the only one that connect() returns.
Types ==
  /\ requests \subseteq Clients
  /\ call \in [Clients -> CallType \cup {NoCall}]
  /\ reply \in [Clients -> Answers]
  /\ open \in [Clients -> [Semaphores -> Nat]]
  /\ val \in [Semaphores -> Nat]
  /\ sleeping \in [Sleepers -> Sleeper]

\* A client with a request in the mailbox has no reply, and one without a
\* call has neither.
CallOK(c) ==
  /\ c \in requests => reply[c] = NoReply
  /\ call[c] = NoCall => c \notin requests /\ reply[c] = NoReply

IInv == Types /\ \A c \in Clients : CallOK(c)

\* The messages of the protocol differ.
LEMMA Messages ==
  /\ \A code, s : Status(code, s) # NoReply /\ Status(code, s).status = code
  /\ \A p, s : Status("ok", p) = Status("ok", s) => p = s
  /\ \A code, p, s : Status(code, p) = Status("ok", s) => code = "ok"
  /\ \A s : CloseMsg(s).op = "close"
  /\ \A p, s : CloseMsg(p) = CloseMsg(s) => p = s
  /\ \A k, f : GetMsg(k, f).op = "get"
  /\ \A s, n, f : OperateMsg(s, n, f).op = "operate"
  /\ NoCall.op = "none" /\ NoReply.status = "none"
BY DEF Status, NoReply, CloseMsg, GetMsg, OperateMsg, NoCall

\* The requests that the stubs send are well typed.
LEMMA CallTypes ==
  /\ \A k \in Keys \cup {IPC_PRIVATE}, f \in SUBSET Flags : GetMsg(k, f) \in CallType
  /\ \A s \in Semaphores : CloseMsg(s) \in CallType
  /\ \A s \in Semaphores, n \in Ops, f \in SemFlags : OperateMsg(s, n, f) \in CallType
<1>1. \A k \in Keys \cup {IPC_PRIVATE}, f \in SUBSET Flags : GetMsg(k, f) \in CallType
  BY Zenon DEF GetMsg, CallType
<1>2. \A s \in Semaphores : CloseMsg(s) \in CallType
  BY Zenon DEF CloseMsg, CallType
<1>3. \A s \in Semaphores, n \in Ops, f \in SemFlags : OperateMsg(s, n, f) \in CallType
  <2>1. Ops \subseteq Int
    BY Zenon, SemAssumption
  <2>. QED
    BY Zenon, <2>1 DEF OperateMsg, CallType
<1>. QED
  BY Zenon, <1>1, <1>2, <1>3

\* What the fields of a request are.
LEMMA CallShapes ==
  ASSUME Types, NEW c \in Clients
  PROVE  /\ call[c].op = "get" => call[c].key \in Keys \cup {IPC_PRIVATE}
         /\ call[c].op = "close" => call[c].sem \in Semaphores /\ call[c] = CloseMsg(call[c].sem)
         /\ call[c].op = "operate" => call[c].sem \in Semaphores /\ call[c].sem_op \in Int
<1>1. call[c] \in CallType \cup {NoCall}
  BY Zenon DEF Types
<1>. QED
  BY <1>1 DEF CallType, NoCall, CloseMsg

\* The codes of the handlers, and their replies.
LEMMA CodesKnown ==
  /\ \A t, k, f : GetCode(t, k, f, "ENOSPC") \in Codes
  /\ \A n, s, f : OperateCode(n, s, f) \in Codes
  /\ 0 \in Semaphores
  /\ \A code \in Codes, s \in Semaphores : Status(code, s) \in Answers \ {NoReply}
<1>1. \A t, k, f : GetCode(t, k, f, "ENOSPC") \in Codes
  BY Zenon DEF GetCode, Codes
<1>2. \A n, s, f : OperateCode(n, s, f) \in Codes
  BY Zenon DEF OperateCode, Codes
<1>3. 0 \in Semaphores
  BY SemAssumption DEF Semaphores
<1>4. \A code \in Codes, s \in Semaphores : Status(code, s) \in Answers
  BY Zenon DEF Status, Answers
<1>. QED
  BY Zenon, <1>1, <1>2, <1>3, <1>4, Messages

\* An operation that completes leaves the counter of its semaphore a natural
\* number: a decrement takes what is there, and an increment that awakes a
\* sleeper takes no more than it put.
LEMMA CounterNat ==
  ASSUME NEW v, NEW n, v \in Nat, n \in Int
  PROVE  /\ n > 0 => v + n \in Nat
         /\ ~((n < 0 /\ v + n < 0) \/ (n = 0 /\ v > 0)) /\ n <= 0 => v + n \in Nat
         /\ \A w \in Int : n > 0 /\ w <= v + n => (v + n) - w \in Nat
OBVIOUS

\* do_sysv_sem_operate() only ever sees connection zero, so that it answers
\* the caller or nobody.
LEMMA DeliverZero ==
  ASSUME IInv, NEW c \in Clients, c \in requests, Deliver(c, 0)
  PROVE  \E m \in Answers : reply' = [reply EXCEPT ![c] = m]
<1>1. reply \in [Clients -> Answers] /\ reply[c] = NoReply
  BY Zenon DEF IInv, Types, CallOK
<1>2. 0 # 0 <=> FALSE
  OBVIOUS
<1>3. \A d \in Clients : reply'[d] = IF 0 # c[1] /\ d = c THEN Status("ok", 0) ELSE reply[d]
  BY Zenon, <1>2 DEF Deliver
<1>4. DOMAIN reply' = Clients /\ reply' = [d \in Clients |-> reply'[d]]
  BY Zenon DEF Deliver
<1>5. Status("ok", 0) \in Answers /\ NoReply \in Answers
  <2>1. "ok" \in Codes
    BY Zenon DEF Codes
  <2>. QED
    BY Zenon, <2>1, CodesKnown DEF Answers
<1>6. CASE 0 # c[1]
  <2>1. reply' = [reply EXCEPT ![c] = Status("ok", 0)]
    BY Zenon, <1>1, <1>3, <1>4, <1>6
  <2>. QED
    BY Zenon, <1>5, <2>1
<1>7. CASE 0 = c[1]
  <2>1. reply' = [reply EXCEPT ![c] = NoReply]
    BY Zenon, <1>1, <1>3, <1>4, <1>7
  <2>. QED
    BY Zenon, <1>5, <2>1
<1>. QED
  BY Zenon, <1>6, <1>7

\* do_sysv_sem_operate() keeps the counters natural numbers and the table of
\* sleeping connections well typed, and takes the request of its caller.
LEMMA OperateEffect ==
  ASSUME IInv, NEW c \in Clients, do_sysv_sem_operate(c)
  PROVE  /\ call[c].op = "operate" /\ c \in requests /\ requests' = requests \ {c}
         /\ val' \in [Semaphores -> Nat] /\ sleeping' \in [Sleepers -> Sleeper]
         /\ \E m \in Answers : reply' = [reply EXCEPT ![c] = m]
<1>. DEFINE s == call[c].sem
            n == call[c].sem_op
            flg == call[c].sem_flg
            conn == connect_ret(connections, c)
            code == OperateCode(conn, s, flg)
<1>1. call[c].op = "operate" /\ c \in requests /\ requests' = requests \ {c}
  BY Zenon DEF do_sysv_sem_operate, Receive
<1>2. s \in Semaphores /\ n \in Int
  BY Zenon, <1>1, CallShapes DEF IInv
<1>3. /\ val \in [Semaphores -> Nat] /\ sleeping \in [Sleepers -> Sleeper]
  BY Zenon DEF IInv, Types
<1>4. /\ \/ code # "ok" /\ reply' = [reply EXCEPT ![c] = Status(code, 0)] /\ UNCHANGED <<val, sleeping>>
         \/ code = "ok" /\ n > 0 /\ Increment(c, s, n)
         \/ code = "ok" /\ n <= 0 /\ Decrement(c, s, n, flg, conn)
  BY Zenon DEF do_sysv_sem_operate, Answer
<1>5. code = "ok" => conn = 0
  <2>1. conn = 0 \/ conn = -1
    BY Zenon DEF connect_ret
  <2>2. conn = -1 => conn < 0
    OBVIOUS
  <2>3. conn < 0 => code # "ok"
    BY DEF OperateCode
  <2>. QED
    BY Zenon, <2>1, <2>2, <2>3
<1>6. code \in Codes
  BY Zenon, CodesKnown
<1>. HIDE DEF s, n, flg, conn, code
<1>7. val[s] \in Nat
  BY Zenon, <1>2, <1>3
<1>. DEFINE Goal == /\ val' \in [Semaphores -> Nat] /\ sleeping' \in [Sleepers -> Sleeper]
                    /\ \E m \in Answers : reply' = [reply EXCEPT ![c] = m]
<1>8. CASE code # "ok" /\ reply' = [reply EXCEPT ![c] = Status(code, 0)] /\ UNCHANGED <<val, sleeping>>
  <2>1. Status(code, 0) \in Answers
    BY Zenon, <1>6, CodesKnown
  <2>. QED
    BY Zenon, <1>1, <1>3, <1>8, <2>1
<1>9. ASSUME code = "ok", n > 0, Increment(c, s, n) PROVE Goal
  <2>. DEFINE up == val[s] + n
              i == First(Wakeable(s, up))
  <2>1. up \in Nat
    BY Zenon, <1>2, <1>7, <1>9, CounterNat
  <2>2. CASE Wakeable(s, up) = {}
    <3>1. val' = [val EXCEPT ![s] = up] /\ Deliver(c, 0) /\ sleeping' = sleeping
      BY Zenon, <1>9, <2>2 DEF Increment
    <3>. HIDE DEF up
    <3>2. val' \in [Semaphores -> Nat]
      BY Zenon, <1>3, <2>1, <3>1
    <3>. QED
      BY Zenon, <1>1, <1>3, <3>1, <3>2, DeliverZero
  <2>3. CASE Wakeable(s, up) # {}
    <3>. HIDE DEF up
    <3>1. i \in Wakeable(s, up)
      <4>1. Wakeable(s, up) \in SUBSET Nat
        BY DEF Wakeable, Sleepers
      <4>. QED
        BY Zenon, <2>3, <4>1, FirstIsLeast
    <3>2. /\ val' = [val EXCEPT ![s] = up - sleeping[i].val]
          /\ sleeping' = [sleeping EXCEPT ![i].semid = -1]
          /\ Deliver(c, sleeping[i].conn)
      BY Zenon, <1>9, <2>3 DEF Increment, up
    <3>. HIDE DEF i
    <3>3. i \in Sleepers /\ sleeping[i].val <= up /\ sleeping[i] \in Sleeper
      BY Zenon, <1>3, <3>1 DEF Wakeable
    <3>4. sleeping[i].conn = 0 /\ sleeping[i].val \in Int
      BY Zenon, <3>3 DEF Sleeper
    <3>5. up - sleeping[i].val \in Nat
      <4>. DEFINE w == sleeping[i].val
      <4>1. w \in Int /\ w <= val[s] + n
        BY Zenon, <3>3, <3>4 DEF up
      <4>. HIDE DEF w
      <4>2. (val[s] + n) - w \in Nat
        BY <1>2, <1>7, <4>1
      <4>. QED
        BY <4>2 DEF up, w
    <3>6. val' \in [Semaphores -> Nat]
      <4>1. PICK v \in Nat : v = up - sleeping[i].val
        BY Zenon, <3>5
      <4>. QED
        BY Zenon, <1>3, <3>2, <4>1
    <3>7. sleeping' \in [Sleepers -> Sleeper]
      <4>1. PICK e : e = [sleeping[i] EXCEPT !.semid = -1]
        BY Zenon
      <4>2. e \in Sleeper
        BY <3>3, <4>1 DEF Sleeper
      <4>3. sleeping' = [sleeping EXCEPT ![i] = e]
        BY Zenon, <3>2, <4>1
      <4>. QED
        BY Zenon, <1>3, <4>2, <4>3
    <3>. QED
      BY Zenon, <1>1, <3>2, <3>4, <3>6, <3>7, DeliverZero
  <2>. QED
    BY Zenon, <2>2, <2>3
<1>10. ASSUME code = "ok", n <= 0, Decrement(c, s, n, flg, conn) PROVE Goal
  <2>1. CASE ~Blocks(s, n) /\ val' = [val EXCEPT ![s] = @ + n] /\ Deliver(c, 0) /\ sleeping' = sleeping
    <3>1. val[s] + n \in Nat
      BY Zenon, <1>2, <1>7, <1>10, <2>1, CounterNat DEF Blocks
    <3>2. val' \in [Semaphores -> Nat]
      <4>1. PICK v \in Nat : v = val[s] + n
        BY Zenon, <3>1
      <4>. QED
        BY Zenon, <1>3, <2>1, <4>1
    <3>. QED
      BY Zenon, <1>1, <1>3, <2>1, <3>2, DeliverZero
  <2>2. CASE Deliver(c, 0) /\ UNCHANGED <<val, sleeping>>
    BY Zenon, <1>1, <1>3, <2>2, DeliverZero
  <2>3. CASE sleeping' = do_sleep(conn, s, n) /\ Deliver(c, conn) /\ UNCHANGED val
    <3>1. conn = 0
      BY Zenon, <1>5, <1>10
    <3>2. [conn |-> conn, semid |-> s, val |-> n] \in Sleeper
      BY <1>2, <3>1 DEF Sleeper
    <3>3. sleeping' \in [Sleepers -> Sleeper]
      BY Zenon, <1>3, <2>3, <3>2 DEF do_sleep
    <3>. QED
      BY Zenon, <1>1, <1>3, <2>3, <3>1, <3>3, DeliverZero
  <2>. QED
    BY Zenon, <1>10, <2>1, <2>2, <2>3 DEF Decrement
<1>. QED
  BY Zenon, <1>1, <1>4, <1>8, <1>9, <1>10

-----------------------------------------------------------------------------
(***************************************************************************)
(* Tables, calls in flight and who has the semaphores.                     *)
(***************************************************************************)

Tables ==
  /\ semaphores \in [Semaphores -> RefType(Keys \cup {IPC_PRIVATE})] /\ TableCoherent(semaphores)
  /\ ConnTable(Connections, Clients, connections)

\* do_sem_get() on the table of semaphores.
LEMMA GotSemaphore ==
  ASSUME NEW t, NEW key, NEW s, t \in [Semaphores -> RefType(Keys \cup {IPC_PRIVATE})],
         TableCoherent(t), key \in Keys \cup {IPC_PRIVATE}, s \in GetEntries(t, key)
  PROVE  /\ s \in Semaphores
         /\ Got(t, s, key) \in [Semaphores -> RefType(Keys \cup {IPC_PRIVATE})]
         /\ TableCoherent(Got(t, s, key))
         /\ MoreRefs(Semaphores, t, Got(t, s, key), s)
<1>1. PICK K : K = Keys \cup {IPC_PRIVATE}
  OBVIOUS
<1>2. Semaphores \in SUBSET Nat
  BY DEF Semaphores
<1>3. t \in [Semaphores -> RefType(K)] /\ key \in K
  BY Zenon, <1>1
<1>4. /\ s \in Semaphores
      /\ Got(t, s, key) \in [Semaphores -> RefType(K)]
      /\ TableCoherent(Got(t, s, key))
      /\ MoreRefs(Semaphores, t, Got(t, s, key), s)
  BY Zenon, <1>2, <1>3, GotOK
<1>. QED
  BY Zenon, <1>1, <1>4

\* What a client has, without the conditionals: a semaphore is never granted
\* and given up in the same call.
LEMMA HeldIs ==
  ASSUME IInv, NEW c \in Clients, NEW s \in Semaphores
  PROVE  /\ Held(c, s) \in Nat /\ open[c][s] \in Nat
         /\ ~Granted(c, s) /\ ~Closing(c, s) => Held(c, s) = open[c][s]
         /\ Granted(c, s) \/ Closing(c, s) => Held(c, s) = open[c][s] + 1
<1>1. open[c][s] \in Nat
  BY Zenon DEF IInv, Types
<1>2. ~(Granted(c, s) /\ Closing(c, s))
  BY Zenon, Messages DEF Granted, Closing
<1>. QED
  BY Zenon, <1>1, <1>2, HeldSum DEF Held

\* The same, after a step.
LEMMA HeldNext ==
  ASSUME IInv', NEW c \in Clients, NEW s \in Semaphores
  PROVE  /\ Held(c, s)' \in Nat /\ open'[c][s] \in Nat
         /\ ~Granted(c, s)' /\ ~Closing(c, s)' => Held(c, s)' = open'[c][s]
         /\ Granted(c, s)' \/ Closing(c, s)' => Held(c, s)' = open'[c][s] + 1
<1>1. open'[c][s] \in Nat
  BY Zenon DEF IInv, Types
<1>2. ~(Granted(c, s)' /\ Closing(c, s)')
  BY Zenon, Messages DEF Granted, Closing
<1>. QED
  BY Zenon, <1>1, <1>2, HeldSum DEF Held

\* What a step does to the client whose call makes no progress in it.
LEMMA HeldByOthers ==
  ASSUME NEW d, open'[d] = open[d], call'[d] = call[d], reply'[d] = reply[d],
         d \in requests' <=> d \in requests
  PROVE  \A s : Held(d, s)' = Held(d, s)
BY Zenon DEF Held, Granted, Closing

\* The server takes the request of a client and answers it, or leaves it
\* without an answer.
LEMMA AnswerStep ==
  ASSUME IInv, NEW c \in Clients, NEW m, m \in Answers, c \in requests, requests' = requests \ {c},
         reply' = [reply EXCEPT ![c] = m], call' = call, open' = open,
         val' \in [Semaphores -> Nat], sleeping' \in [Sleepers -> Sleeper]
  PROVE  IInv'
<1>1. Types'
  BY Zenon DEF IInv, Types
<1>2. DOMAIN reply = Clients
  BY Zenon DEF IInv, Types
<1>3. ASSUME NEW d \in Clients PROVE CallOK(d)'
  <2>1. CallOK(d) /\ CallOK(c)
    BY Zenon DEF IInv
  <2>2. CASE d = c
    <3>1. call[c] # NoCall /\ c \notin requests'
      BY Zenon, <2>1 DEF CallOK
    <3>. QED
      BY Zenon, <2>2, <3>1 DEF CallOK
  <2>3. CASE d # c
    BY Zenon, <1>2, <2>1, <2>3 DEF CallOK
  <2>. QED
    BY Zenon, <2>2, <2>3
<1>. QED
  BY Zenon, <1>1, <1>3 DEF IInv

\* A client sends a request.
LEMMA RequestStep ==
  ASSUME IInv, NEW c \in Clients, NEW m, m \in CallType, Request(c, m),
         open' \in [Clients -> [Semaphores -> Nat]]
  PROVE  IInv'
<1>1. /\ call[c] = NoCall /\ requests' = requests \cup {c} /\ call' = [call EXCEPT ![c] = m]
      /\ reply' = reply /\ val' = val /\ sleeping' = sleeping
  BY Zenon DEF Request, servervars
<1>2. Types'
  BY Zenon, <1>1 DEF IInv, Types
<1>3. DOMAIN call = Clients /\ m # NoCall
  <2>1. m # NoCall
    BY DEF CallType, NoCall
  <2>. QED
    BY Zenon, <2>1 DEF IInv, Types
<1>4. ASSUME NEW d \in Clients PROVE CallOK(d)'
  <2>1. CallOK(d) /\ CallOK(c)
    BY Zenon DEF IInv
  <2>2. CASE d = c
    BY Zenon, <1>1, <1>3, <2>1, <2>2 DEF CallOK
  <2>3. CASE d # c
    BY Zenon, <1>1, <1>3, <2>1, <2>3 DEF CallOK
  <2>. QED
    BY Zenon, <2>2, <2>3
<1>. QED
  BY Zenon, <1>2, <1>4 DEF IInv

\* The types and the calls in flight are kept by every step.
LEMMA TypesStep ==
  ASSUME IInv, Tables, [Next]_vars
  PROVE  IInv'
<1>t. /\ requests \subseteq Clients /\ val \in [Semaphores -> Nat]
      /\ sleeping \in [Sleepers -> Sleeper] /\ open \in [Clients -> [Semaphores -> Nat]]
  BY Zenon DEF IInv, Types
<1>1. ASSUME NEW c \in Clients, ClientCall(c) PROVE IInv'
  <2>1. ASSUME NEW s \in Semaphores, CloseCall(c, s) PROVE IInv'
    <3>1. open' \in [Clients -> [Semaphores -> Nat]]
      <4>. DEFINE n == IF open[c][s] > 0 THEN open[c][s] - 1 ELSE 0
      <4>1. open' = [open EXCEPT ![c] = [open[c] EXCEPT ![s] = n]]
        BY Zenon, <2>1 DEF CloseCall
      <4>2. n \in Nat
        <5>1. open[c][s] \in Nat
          BY Zenon, <1>t
        <5>. QED
          BY <5>1
      <4>. HIDE DEF n
      <4>. QED
        BY Zenon, <1>t, <4>1, <4>2
    <3>2. CloseMsg(s) \in CallType
      BY Zenon, CallTypes
    <3>. QED
      BY Zenon, <2>1, <3>1, <3>2, RequestStep DEF CloseCall
  <2>2. ASSUME NEW m, m \in CallType, Request(c, m), open' = open PROVE IInv'
    BY Zenon, <1>t, <2>2, RequestStep
  <2>3. ASSUME NEW g \in GetCalls, GetCall(c, g[1], g[2]) PROVE IInv'
    <3>1. g[1] \in Keys \cup {IPC_PRIVATE} /\ g[2] \in SUBSET Flags
      BY SemAssumption
    <3>2. GetMsg(g[1], g[2]) \in CallType
      BY Zenon, <3>1, CallTypes
    <3>. QED
      BY Zenon, <2>2, <2>3, <3>2 DEF GetCall
  <2>4. ASSUME NEW s \in Semaphores, NEW n \in Ops, NEW flg \in SemFlags, OperateCall(c, s, n, flg)
        PROVE  IInv'
    <3>1. OperateMsg(s, n, flg) \in CallType
      BY Zenon, CallTypes
    <3>. QED
      BY Zenon, <2>2, <2>4, <3>1 DEF OperateCall
  <2>. QED
    BY Zenon, <1>1, <2>1, <2>3, <2>4 DEF ClientCall
<1>2. ASSUME NEW c \in Clients, do_sysv_sem_get(c) PROVE IInv'
  <2>. DEFINE key == call[c].key
              code == GetCode(semaphores, key, call[c].flags, "ENOSPC")
  <2>1. /\ call[c].op = "get" /\ c \in requests /\ requests' = requests \ {c}
        /\ sleeping' = sleeping /\ call' = call /\ open' = open
        /\ \/ val' = val /\ reply' = [reply EXCEPT ![c] = Status(code, 0)]
           \/ \E s \in GetEntries(semaphores, key) :
                /\ val' = val \/ val' = [val EXCEPT ![s] = 0]
                /\ reply' = [reply EXCEPT ![c] = Status("ok", s)]
    <3>. HIDE DEF code
    <3>. QED
      BY Zenon, <1>2 DEF do_sysv_sem_get, Receive, Answer, code
  <2>2. key \in Keys \cup {IPC_PRIVATE}
    BY Zenon, <2>1, CallShapes DEF IInv
  <2>3. code \in Codes /\ "ok" \in Codes
    BY Zenon, CodesKnown DEF Codes
  <2>. HIDE DEF key, code
  <2>4. CASE val' = val /\ reply' = [reply EXCEPT ![c] = Status(code, 0)]
    <3>1. Status(code, 0) \in Answers
      BY Zenon, <2>3, CodesKnown
    <3>. QED
      BY Zenon, <1>t, <2>1, <2>4, <3>1, AnswerStep
  <2>5. ASSUME NEW s \in GetEntries(semaphores, key), val' = val \/ val' = [val EXCEPT ![s] = 0],
               reply' = [reply EXCEPT ![c] = Status("ok", s)]
        PROVE  IInv'
    <3>1. s \in Semaphores
      BY Zenon, <2>2, GotSemaphore DEF Tables
    <3>2. Status("ok", s) \in Answers
      BY Zenon, <2>3, <3>1, CodesKnown
    <3>3. 0 \in Nat
      OBVIOUS
    <3>4. val' \in [Semaphores -> Nat]
      BY Zenon, <1>t, <2>5, <3>3
    <3>. QED
      BY Zenon, <1>t, <2>1, <2>5, <3>2, <3>4, AnswerStep
  <2>. QED
    BY Zenon, <2>1, <2>4, <2>5
<1>3. ASSUME NEW c \in Clients, do_sysv_sem_close(c) PROVE IInv'
  <2>1. /\ c \in requests /\ requests' = requests \ {c}
        /\ val' = val /\ sleeping' = sleeping /\ call' = call /\ open' = open
        /\ \E k \in Codes : reply' = [reply EXCEPT ![c] = Status(k, 0)]
    BY Zenon, <1>3 DEF do_sysv_sem_close, Receive, Answer, Codes
  <2>2. PICK m \in Answers : reply' = [reply EXCEPT ![c] = m]
    BY Zenon, <2>1, CodesKnown
  <2>. QED
    BY Zenon, <1>t, <2>1, <2>2, AnswerStep
<1>4. ASSUME NEW c \in Clients, do_sysv_sem_operate(c) PROVE IInv'
  <2>1. call' = call /\ open' = open
    BY Zenon, <1>4 DEF do_sysv_sem_operate
  <2>2. /\ c \in requests /\ requests' = requests \ {c}
        /\ val' \in [Semaphores -> Nat] /\ sleeping' \in [Sleepers -> Sleeper]
    BY Zenon, <1>4, OperateEffect
  <2>3. PICK m \in Answers : reply' = [reply EXCEPT ![c] = m]
    BY Zenon, <1>4, OperateEffect
  <2>. QED
    BY Zenon, <2>1, <2>2, <2>3, AnswerStep
<1>5. ASSUME NEW c \in Clients, Return(c) PROVE IInv'
  <2>1. /\ reply[c] # NoReply /\ call' = [call EXCEPT ![c] = NoCall]
        /\ reply' = [reply EXCEPT ![c] = NoReply] /\ requests' = requests
        /\ val' = val /\ sleeping' = sleeping
    BY Zenon, <1>5 DEF Return, servervars
  <2>2. open' \in [Clients -> [Semaphores -> Nat]]
    <3>1. CASE ~(call[c].op = "get" /\ reply[c].status = "ok")
      BY Zenon, <1>t, <1>5, <3>1 DEF Return
    <3>2. CASE call[c].op = "get" /\ reply[c].status = "ok"
      <4>. DEFINE s == reply[c].sem
                  n == open[c][s] + 1
      <4>1. s \in Semaphores
        BY Zenon, <2>1 DEF IInv, Types, Answers
      <4>2. open' = [open EXCEPT ![c] = [open[c] EXCEPT ![s] = n]]
        BY Zenon, <1>5, <3>2 DEF Return
      <4>3. n \in Nat
        <5>. HIDE DEF s
        <5>1. open[c][s] \in Nat
          BY Zenon, <1>t, <4>1
        <5>. QED
          BY <5>1
      <4>. HIDE DEF n, s
      <4>. QED
        BY Zenon, <1>t, <4>1, <4>2, <4>3
    <3>. QED
      BY Zenon, <3>1, <3>2
  <2>3. NoReply \in Answers
    BY Zenon DEF Answers
  <2>4. Types'
    BY Zenon, <1>t, <2>1, <2>2, <2>3 DEF IInv, Types
  <2>5. DOMAIN call = Clients /\ DOMAIN reply = Clients
    BY Zenon DEF IInv, Types
  <2>6. ASSUME NEW d \in Clients PROVE CallOK(d)'
    <3>1. CallOK(d) /\ CallOK(c)
      BY Zenon DEF IInv
    <3>2. CASE d = c
      BY Zenon, <2>1, <2>5, <3>1, <3>2 DEF CallOK
    <3>3. CASE d # c
      BY Zenon, <2>1, <2>5, <3>1, <3>3 DEF CallOK
    <3>. QED
      BY Zenon, <3>2, <3>3
  <2>. QED
    BY Zenon, <2>4, <2>6 DEF IInv
<1>6. CASE UNCHANGED vars
  BY Zenon, <1>6 DEF IInv, Types, CallOK, vars
<1>. QED
  BY Zenon, <1>1, <1>2, <1>3, <1>4, <1>5, <1>6 DEF Next, Handle

\* Only the handlers change the tables, and do_sysv_sem_operate() only
\* connects its caller.
LEMMA TablesUntouched ==
  ASSUME [Next]_vars
  PROVE  \/ semaphores' = semaphores /\ connections' = connections
         \/ \E c \in Clients : do_sysv_sem_get(c) \/ do_sysv_sem_close(c) \/ do_sysv_sem_operate(c)
<1>1. ASSUME NEW c \in Clients, ClientCall(c)
      PROVE  semaphores' = semaphores /\ connections' = connections
  <2>1. \E m : Request(c, m)
    BY Zenon, <1>1 DEF ClientCall, GetCall, CloseCall, OperateCall
  <2>. QED
    BY Zenon, <2>1 DEF Request, servervars
<1>2. ASSUME NEW c \in Clients, Return(c)
      PROVE  semaphores' = semaphores /\ connections' = connections
  BY Zenon, <1>2 DEF Return, servervars
<1>3. CASE UNCHANGED vars
  BY Zenon, <1>3 DEF vars
<1>. QED
  BY Zenon, <1>1, <1>2, <1>3 DEF Next, Handle

\* The tables of semaphores and of connections are kept by every step.
LEMMA TablesStep ==
  ASSUME IInv, Tables, [Next]_vars
  PROVE  Tables'
<1>1. CASE semaphores' = semaphores /\ connections' = connections
  BY Zenon, <1>1 DEF Tables
<1>2. ASSUME NEW c \in Clients, do_sysv_sem_get(c) PROVE Tables'
  <2>. DEFINE key == call[c].key
              code == GetCode(semaphores, key, call[c].flags, "ENOSPC")
  <2>1. /\ call[c].op = "get"
        /\ connections' \in {connect(connections, c), disconnect(connect(connections, c), c)}
        /\ \/ semaphores' = semaphores
           \/ \E s \in GetEntries(semaphores, key) : semaphores' = Got(semaphores, s, key)
    <3>. HIDE DEF code
    <3>. QED
      BY Zenon, <1>2 DEF do_sysv_sem_get, Receive, code
  <2>2. key \in Keys \cup {IPC_PRIVATE}
    BY Zenon, <2>1, CallShapes DEF IInv
  <2>. HIDE DEF key, code
  <2>3. semaphores' \in [Semaphores -> RefType(Keys \cup {IPC_PRIVATE})] /\ TableCoherent(semaphores')
    <3>1. ASSUME NEW s \in GetEntries(semaphores, key), semaphores' = Got(semaphores, s, key)
          PROVE  /\ semaphores' \in [Semaphores -> RefType(Keys \cup {IPC_PRIVATE})]
                 /\ TableCoherent(semaphores')
      BY Zenon, <2>2, <3>1, GotSemaphore DEF Tables
    <3>. QED
      BY Zenon, <2>1, <3>1 DEF Tables
  <2>4. ConnTable(Connections, Clients, connections')
    <3>1. ConnTable(Connections, Clients, connect(connections, c))
      BY Zenon, Connected DEF Tables
    <3>2. ConnTable(Connections, Clients, disconnect(connect(connections, c), c))
      BY Zenon, <3>1, Disconnected
    <3>. QED
      BY Zenon, <2>1, <3>1, <3>2
  <2>. QED
    BY Zenon, <2>3, <2>4 DEF Tables
<1>3. ASSUME NEW c \in Clients, do_sysv_sem_close(c) PROVE Tables'
  <2>. DEFINE s == call[c].sem
  <2>1. \/ semaphores' = semaphores /\ connections' = connections
        \/ /\ Used(semaphores, s) /\ semaphores' = Closed(semaphores, s)
           /\ connections' = disconnect(connections, c)
    BY Zenon, <1>3 DEF do_sysv_sem_close, AfterClose
  <2>2. CASE /\ Used(semaphores, s) /\ semaphores' = Closed(semaphores, s)
             /\ connections' = disconnect(connections, c)
    <3>. HIDE DEF s
    <3>1. semaphores' \in [Semaphores -> RefType(Keys \cup {IPC_PRIVATE})] /\ TableCoherent(semaphores')
      BY Zenon, <2>2, ClosedOK DEF Tables
    <3>2. ConnTable(Connections, Clients, connections')
      BY Zenon, <2>2, Disconnected DEF Tables
    <3>. QED
      BY Zenon, <3>1, <3>2 DEF Tables
  <2>. QED
    BY Zenon, <1>1, <2>1, <2>2
<1>4. ASSUME NEW c \in Clients, do_sysv_sem_operate(c) PROVE Tables'
  <2>1. semaphores' = semaphores /\ connections' = connect(connections, c)
    BY Zenon, <1>4 DEF do_sysv_sem_operate
  <2>2. ConnTable(Connections, Clients, connections')
    BY Zenon, <2>1, Connected DEF Tables
  <2>. QED
    BY Zenon, <2>1, <2>2 DEF Tables
<1>. QED
  BY Zenon, <1>1, <1>2, <1>3, <1>4, TablesUntouched

\* do_sysv_server_startup() and do_sem_init()
LEMMA TablesInit == Init => IInv /\ Tables
<1>. SUFFICES ASSUME Init PROVE IInv /\ Tables
  BY Zenon
<1>1. IInv
  <2>1. 0 \in Nat
    OBVIOUS
  <2>2. Awake \in Sleeper
    BY DEF Awake, Sleeper
  <2>3. Types
    BY Zenon, <2>1, <2>2 DEF Init, Types, Answers
  <2>4. \A c \in Clients : CallOK(c)
    BY Zenon DEF Init, CallOK
  <2>. QED
    BY Zenon, <2>3, <2>4 DEF IInv
<1>2. semaphores \in [Semaphores -> RefType(Keys \cup {IPC_PRIVATE})] /\ TableCoherent(semaphores)
  <2>1. semaphores = [i \in Semaphores |-> NoObject]
    BY Zenon DEF Init, EmptyTable, Semaphores
  <2>2. NoObject \in RefType(Keys \cup {IPC_PRIVATE}) /\ ~NoObject.used /\ ~(NoObject.refcount > 0)
    BY DEF NoObject, RefType
  <2>. QED
    BY Zenon, <2>1, <2>2 DEF TableCoherent
<1>3. ConnTable(Connections, Clients, connections)
  <2>1. IsFiniteSet(Connections) /\ Connections \subseteq Nat
    BY FS_Interval, ConnectionAssumption DEF Connections
  <2>. DEFINE e == [remote |-> -1, port |-> -1, count |-> 0]
  <2>2. e \in [remote : Int, port : Int, count : Nat] /\ e.count = 0 /\ ~(e.remote >= 0)
    OBVIOUS
  <2>3. connections = [i \in Connections |-> e]
    BY Zenon DEF Init, connections_setup
  <2>. HIDE DEF e
  <2>. QED
    BY Zenon, <2>1, <2>2, <2>3, SemAssumption DEF ConnTable
<1>. QED
  BY Zenon, <1>1, <1>2, <1>3 DEF Tables

-----------------------------------------------------------------------------
(***************************************************************************)
(* The counts.  Seen from the ledger of who has which semaphore, a step    *)
(* grants a semaphore, takes one back, connects and disconnects a client   *)
(* that gets nothing, connects one that operates, or does nothing.         *)
(***************************************************************************)

\* The ledger changes at most for client c and semaphore s, or not at all.
Moved(c, s) == \A d \in Clients, p \in Semaphores : <<d, p>> # <<c, s>> => Held(d, p)' = Held(d, p)
LedgerSame == \A d \in Clients, p \in Semaphores : Held(d, p)' = Held(d, p)

\* What a step does to the ledger and to the tables.
Stays == LedgerSame /\ semaphores' = semaphores /\ connections' = connections
Joins(c) == LedgerSame /\ semaphores' = semaphores /\ connections' = connect(connections, c)
Fails(c) ==
  LedgerSame /\ semaphores' = semaphores /\ connections' = disconnect(connect(connections, c), c)
Grants(c, s) ==
  /\ Held(c, s)' = Held(c, s) + 1 /\ Moved(c, s)
  /\ \E key \in Keys \cup {IPC_PRIVATE} :
       s \in GetEntries(semaphores, key) /\ semaphores' = Got(semaphores, s, key)
  /\ connections' = connect(connections, c)
Closes(c, s) ==
  /\ Held(c, s) > 0
  /\ Used(semaphores, s) =>
       /\ Held(c, s) = Held(c, s)' + 1 /\ Moved(c, s)
       /\ semaphores' = Closed(semaphores, s) /\ connections' = disconnect(connections, c)

\* do_sysv_sem_get()
LEMMA GetLedger ==
  ASSUME IInv, IInv', Tables, NEW c \in Clients, do_sysv_sem_get(c)
  PROVE  Fails(c) \/ \E s \in Semaphores : Grants(c, s)
<1>. DEFINE key == call[c].key
            code == GetCode(semaphores, key, call[c].flags, "ENOSPC")
<1>1. /\ call[c].op = "get" /\ c \in requests /\ requests' = requests \ {c}
      /\ call' = call /\ open' = open
      /\ connections' = IF code = "ok" THEN connect(connections, c)
                        ELSE disconnect(connect(connections, c), c)
      /\ \/ code # "ok" /\ semaphores' = semaphores /\ reply' = [reply EXCEPT ![c] = Status(code, 0)]
         \/ code = "ok" /\ \E s \in GetEntries(semaphores, key) :
              semaphores' = Got(semaphores, s, key) /\ reply' = [reply EXCEPT ![c] = Status("ok", s)]
  <2>. HIDE DEF code
  <2>. QED
    BY Zenon DEF do_sysv_sem_get, Receive, Answer, code
<1>2. key \in Keys \cup {IPC_PRIVATE}
  BY Zenon, <1>1, CallShapes DEF IInv
<1>. HIDE DEF key, code
<1>3. reply[c] = NoReply /\ DOMAIN reply = Clients
  BY Zenon, <1>1 DEF IInv, CallOK, Types
<1>n. \A p : Status("ok", p) # NoReply /\ CloseMsg(p).op # "get"
  BY DEF Status, NoReply, CloseMsg
<1>4. ASSUME NEW p \in Semaphores PROVE Held(c, p) = open[c][p] /\ open[c][p] \in Nat
  <2>1. ~Granted(c, p) /\ ~Closing(c, p)
    BY Zenon, <1>1, <1>3, <1>n DEF Granted, Closing
  <2>. QED
    BY Zenon, <2>1, HeldIs
<1>5. \A d \in Clients \ {c}, p \in Semaphores : Held(d, p)' = Held(d, p)
  BY Zenon, <1>1, <1>3, HeldByOthers
<1>6. \A p \in Semaphores : ~Closing(c, p)'
  BY Zenon, <1>1, Messages DEF Closing
<1>7. CASE code # "ok"
  <2>1. \A p \in Semaphores : ~Granted(c, p)'
    <3>1. reply'[c] = Status(code, 0)
      BY Zenon, <1>1, <1>3, <1>7
    <3>2. \A p : Status(code, 0) # Status("ok", p)
      BY <1>7 DEF Status
    <3>. QED
      BY Zenon, <3>1, <3>2 DEF Granted
  <2>2. \A p \in Semaphores : Held(c, p)' = open[c][p]
    BY Zenon, <1>1, <1>6, <2>1, HeldNext
  <2>. QED
    BY Zenon, <1>1, <1>4, <1>5, <1>7, <2>2 DEF Fails, LedgerSame
<1>8. CASE code = "ok"
  <2>1. PICK s \in GetEntries(semaphores, key) :
          semaphores' = Got(semaphores, s, key) /\ reply' = [reply EXCEPT ![c] = Status("ok", s)]
    BY Zenon, <1>1, <1>8
  <2>2. reply'[c] = Status("ok", s) /\ call'[c].op = "get"
    BY Zenon, <1>1, <1>3, <2>1
  <2>3. s \in Semaphores
    BY Zenon, <1>2, <2>1, GotSemaphore DEF Tables
  <2>4. Held(c, s)' = Held(c, s) + 1
    BY Zenon, <1>1, <1>4, <2>2, <2>3, HeldNext DEF Granted
  <2>5. ASSUME NEW p \in Semaphores \ {s} PROVE Held(c, p)' = Held(c, p)
    <3>1. ~Granted(c, p)'
      BY Zenon, <2>2, Messages DEF Granted
    <3>. QED
      BY Zenon, <1>1, <1>4, <1>6, <3>1, HeldNext
  <2>6. Moved(c, s)
    BY Zenon, <1>5, <2>5 DEF Moved
  <2>. QED
    BY Zenon, <1>1, <1>2, <1>8, <2>1, <2>3, <2>4, <2>6 DEF Grants
<1>. QED
  BY Zenon, <1>7, <1>8

\* do_sysv_sem_close()
LEMMA CloseLedger ==
  ASSUME IInv, IInv', NEW c \in Clients, do_sysv_sem_close(c)
  PROVE  \E s \in Semaphores : Closes(c, s)
<1>1. /\ call[c].op = "close" /\ c \in requests /\ requests' = requests \ {c}
      /\ call' = call /\ open' = open /\ \E m : reply' = [reply EXCEPT ![c] = m]
  BY Zenon DEF do_sysv_sem_close, Receive, Answer
<1>2. PICK s \in Semaphores : s = call[c].sem /\ call[c] = CloseMsg(s)
  BY Zenon, <1>1, CallShapes DEF IInv
<1>3. DOMAIN reply = Clients
  BY Zenon DEF IInv, Types
<1>4. \A d \in Clients \ {c}, p \in Semaphores : Held(d, p)' = Held(d, p)
  BY Zenon, <1>1, <1>3, HeldByOthers
<1>5. \A p \in Semaphores : ~Granted(c, p) /\ ~Granted(c, p)' /\ ~Closing(c, p)'
  BY Zenon, <1>1, Messages DEF Granted, Closing
<1>6. \A p \in Semaphores : Held(c, p)' = open[c][p] /\ open[c][p] \in Nat
  BY Zenon, <1>1, <1>5, HeldNext
<1>7. Held(c, s) = open[c][s] + 1
  BY Zenon, <1>1, <1>2, HeldIs DEF Closing
<1>8. ASSUME NEW p \in Semaphores \ {s} PROVE Held(c, p) = open[c][p]
  <2>1. ~Closing(c, p)
    BY Zenon, <1>2, Messages DEF Closing
  <2>. QED
    BY Zenon, <1>5, <2>1, HeldIs
<1>9. Held(c, s) > 0
  BY <1>6, <1>7
<1>10. Held(c, s) = Held(c, s)' + 1
  BY Zenon, <1>6, <1>7
<1>11. Moved(c, s)
  BY Zenon, <1>4, <1>6, <1>8 DEF Moved
<1>12. Used(semaphores, s) => semaphores' = Closed(semaphores, s) /\ connections' = disconnect(connections, c)
  BY Zenon, <1>2 DEF do_sysv_sem_close, AfterClose
<1>. QED
  BY Zenon, <1>9, <1>10, <1>11, <1>12 DEF Closes

\* A step of client c, or of the server for it, that neither grants nor closes.
LEMMA PlainLedger ==
  ASSUME IInv, IInv', NEW c \in Clients, open' = open,
         \A d \in Clients \ {c} : /\ call'[d] = call[d] /\ reply'[d] = reply[d]
                                  /\ d \in requests' <=> d \in requests,
         \A s \in Semaphores : /\ ~Granted(c, s) /\ ~Closing(c, s)
                           /\ ~Granted(c, s)' /\ ~Closing(c, s)'
  PROVE  LedgerSame
<1>1. \A d \in Clients \ {c}, p \in Semaphores : Held(d, p)' = Held(d, p)
  BY Zenon, HeldByOthers
<1>2. \A p \in Semaphores : Held(c, p) = open[c][p] /\ Held(c, p)' = open[c][p]
  BY Zenon, HeldIs, HeldNext
<1>. QED
  BY Zenon, <1>1, <1>2 DEF LedgerSame

\* A client that gets or operates has what it had.
LEMMA RequestLedger ==
  ASSUME IInv, IInv', NEW c \in Clients, NEW m, Request(c, m),
         open' = open, m.op \in {"get", "operate"}
  PROVE  Stays
<1>1. /\ call[c] = NoCall /\ requests' = requests \cup {c} /\ reply' = reply
      /\ call' = [call EXCEPT ![c] = m] /\ semaphores' = semaphores /\ connections' = connections
  BY Zenon DEF Request, servervars
<1>2. /\ DOMAIN call = Clients /\ reply[c] = NoReply /\ c \notin requests
  BY Zenon, <1>1 DEF IInv, Types, CallOK
<1>3. call'[c] = m /\ reply'[c] = NoReply
  BY Zenon, <1>1, <1>2
<1>n. \A s : Status("ok", s) # NoReply /\ CloseMsg(s).op = "close"
  BY DEF Status, NoReply, CloseMsg
<1>4. \A s \in Semaphores : ~Granted(c, s) /\ ~Closing(c, s) /\ ~Granted(c, s)' /\ ~Closing(c, s)'
  BY Zenon, <1>1, <1>2, <1>3, <1>n DEF Granted, Closing
<1>5. LedgerSame
  BY Zenon, <1>1, <1>2, <1>4, PlainLedger
<1>. QED
  BY Zenon, <1>1, <1>5 DEF Stays

\* A client that closes a semaphore has it until the server closes it.
LEMMA CloseCallLedger ==
  ASSUME IInv, IInv', ~Wild, NEW c \in Clients, NEW s \in Semaphores, CloseCall(c, s)
  PROVE  Stays
<1>1. /\ call[c] = NoCall /\ requests' = requests \cup {c} /\ reply' = reply
      /\ call' = [call EXCEPT ![c] = CloseMsg(s)]
      /\ semaphores' = semaphores /\ connections' = connections
      /\ open' = [open EXCEPT ![c] = [open[c] EXCEPT ![s] = IF open[c][s] > 0 THEN open[c][s] - 1 ELSE 0]]
      /\ open[c][s] > 0
  BY Zenon DEF CloseCall, Request, servervars, MayUse
<1>2. /\ DOMAIN call = Clients /\ reply[c] = NoReply /\ c \notin requests
  BY Zenon, <1>1 DEF IInv, Types, CallOK
<1>3. call'[c] = CloseMsg(s) /\ reply'[c] = NoReply /\ c \in requests'
  BY Zenon, <1>1, <1>2
<1>4. open \in [Clients -> [Semaphores -> Nat]]
  BY Zenon DEF IInv, Types
<1>5. /\ open'[c][s] = open[c][s] - 1 /\ \A p \in Semaphores \ {s} : open'[c][p] = open[c][p]
      /\ \A d \in Clients \ {c} : open'[d] = open[d]
  BY Zenon, <1>1, <1>4
<1>6. \A d \in Clients \ {c}, p \in Semaphores : Held(d, p)' = Held(d, p)
  BY Zenon, <1>1, <1>2, <1>5, HeldByOthers
<1>7. \A p \in Semaphores : Held(c, p) = open[c][p]
  BY Zenon, <1>1, <1>2, Messages, HeldIs DEF Granted, Closing
<1>8. Held(c, s)' = open'[c][s] + 1
  BY Zenon, <1>3, HeldNext DEF Closing
<1>9. Held(c, s)' = Held(c, s)
  <2>1. open[c][s] \in Nat
    BY Zenon, <1>4
  <2>. QED
    BY <1>5, <1>7, <1>8, <2>1
<1>10. ASSUME NEW p \in Semaphores \ {s} PROVE Held(c, p)' = Held(c, p)
  <2>1. ~Granted(c, p)' /\ ~Closing(c, p)'
    BY Zenon, <1>3, Messages DEF Granted, Closing
  <2>2. Held(c, p)' = open'[c][p]
    BY Zenon, <2>1, HeldNext
  <2>. QED
    BY Zenon, <1>5, <1>7, <2>2
<1>. QED
  BY Zenon, <1>1, <1>6, <1>9, <1>10 DEF Stays, LedgerSame

\* A client that sees the reply has the semaphore that it grants.
LEMMA ReturnLedger ==
  ASSUME IInv, IInv', NEW c \in Clients, Return(c)
  PROVE  Stays
<1>1. /\ reply[c] # NoReply /\ requests' = requests /\ reply' = [reply EXCEPT ![c] = NoReply]
      /\ call' = [call EXCEPT ![c] = NoCall] /\ semaphores' = semaphores /\ connections' = connections
  BY Zenon DEF Return, servervars
<1>2. DOMAIN call = Clients /\ DOMAIN reply = Clients /\ c \notin requests
  BY Zenon, <1>1 DEF IInv, Types, CallOK
<1>3. call'[c] = NoCall /\ c \notin requests'
  BY Zenon, <1>1, <1>2
<1>4. \A p \in Semaphores : ~Closing(c, p) /\ ~Closing(c, p)' /\ ~Granted(c, p)'
  BY Zenon, <1>2, <1>3, Messages DEF Granted, Closing
<1>5. CASE ~(call[c].op = "get" /\ reply[c].status = "ok")
  <2>1. open' = open
    BY Zenon, <1>5 DEF Return
  <2>2. \A p \in Semaphores : ~Granted(c, p)
    BY Zenon, <1>5, Messages DEF Granted
  <2>3. LedgerSame
    BY ZenonT(40), <1>1, <1>2, <1>4, <2>1, <2>2, PlainLedger
  <2>. QED
    BY Zenon, <1>1, <2>3 DEF Stays
<1>6. CASE call[c].op = "get" /\ reply[c].status = "ok"
  <2>1. reply[c] \in [status : Codes, sem : Semaphores]
    BY Zenon, <1>1 DEF IInv, Types, Answers
  <2>2. PICK s \in Semaphores : s = reply[c].sem /\ reply[c] = Status("ok", s)
    BY <1>6, <2>1 DEF Status
  <2>3. open' = [open EXCEPT ![c] = [open[c] EXCEPT ![s] = open[c][s] + 1]]
    BY Zenon, <1>6, <2>2 DEF Return
  <2>4. open \in [Clients -> [Semaphores -> Nat]]
    BY Zenon DEF IInv, Types
  <2>5. /\ open'[c][s] = open[c][s] + 1 /\ \A p \in Semaphores \ {s} : open'[c][p] = open[c][p]
        /\ \A d \in Clients \ {c} : open'[d] = open[d]
    BY Zenon, <2>3, <2>4
  <2>6. \A d \in Clients \ {c}, p \in Semaphores : Held(d, p)' = Held(d, p)
    BY Zenon, <1>1, <1>2, <2>5, HeldByOthers
  <2>7. Held(c, s) = open[c][s] + 1
    BY Zenon, <1>6, <2>2, HeldIs DEF Granted
  <2>8. Held(c, s)' = open'[c][s]
    BY Zenon, <1>4, HeldNext
  <2>9. ASSUME NEW p \in Semaphores \ {s} PROVE Held(c, p)' = Held(c, p)
    <3>1. ~Granted(c, p)
      BY Zenon, <2>2, Messages DEF Granted
    <3>2. Held(c, p) = open[c][p] /\ Held(c, p)' = open'[c][p]
      BY Zenon, <1>4, <3>1, HeldIs, HeldNext
    <3>. QED
      BY Zenon, <2>5, <3>2
  <2>. QED
    BY Zenon, <1>1, <2>5, <2>6, <2>7, <2>8, <2>9 DEF Stays, LedgerSame
<1>. QED
  BY Zenon, <1>5, <1>6

\* A client that operates a semaphore is connected, and has what it had.
LEMMA OperateLedger ==
  ASSUME IInv, IInv', NEW c \in Clients, do_sysv_sem_operate(c)
  PROVE  Joins(c)
<1>1. /\ call[c].op = "operate" /\ call' = call /\ open' = open /\ requests' = requests \ {c}
      /\ semaphores' = semaphores /\ connections' = connect(connections, c)
  BY Zenon DEF do_sysv_sem_operate, Receive
<1>2. PICK m : reply' = [reply EXCEPT ![c] = m]
  BY Zenon, OperateEffect
<1>3. \A s \in Semaphores : ~Granted(c, s) /\ ~Closing(c, s) /\ ~Granted(c, s)' /\ ~Closing(c, s)'
  BY Zenon, <1>1, Messages DEF Granted, Closing
<1>4. DOMAIN reply = Clients
  BY Zenon DEF IInv, Types
<1>5. \A d \in Clients \ {c} : /\ call'[d] = call[d] /\ reply'[d] = reply[d]
                               /\ d \in requests' <=> d \in requests
  BY Zenon, <1>1, <1>2, <1>4
<1>6. LedgerSame
  BY Zenon, <1>1, <1>3, <1>5, PlainLedger
<1>. QED
  BY Zenon, <1>1, <1>6 DEF Joins

\* Every step is of one of these kinds.
LEMMA LedgerStep ==
  ASSUME IInv, IInv', Tables, ~Wild, [Next]_vars
  PROVE  \/ Stays
         \/ \E c \in Clients : \/ Joins(c) \/ Fails(c)
                               \/ \E s \in Semaphores : Grants(c, s) \/ Closes(c, s)
<1>1. ASSUME NEW c \in Clients, ClientCall(c) PROVE Stays
  <2>1. ASSUME NEW m, Request(c, m), open' = open, m.op \in {"get", "operate"}
        PROVE  Stays
    BY Zenon, <2>1, RequestLedger
  <2>2. ASSUME NEW s \in Semaphores, CloseCall(c, s) PROVE Stays
    BY Zenon, <2>2, CloseCallLedger
  <2>3. ASSUME NEW g \in GetCalls, GetCall(c, g[1], g[2]) PROVE Stays
    <3>1. GetMsg(g[1], g[2]).op \in {"get", "operate"}
      BY Zenon DEF GetMsg
    <3>. QED
      BY Zenon, <2>1, <2>3, <3>1 DEF GetCall
  <2>4. ASSUME NEW s \in Semaphores, NEW n \in Ops, NEW flg \in SemFlags, OperateCall(c, s, n, flg)
        PROVE  Stays
    <3>1. OperateMsg(s, n, flg).op \in {"get", "operate"}
      BY Zenon DEF OperateMsg
    <3>. QED
      BY Zenon, <2>1, <2>4, <3>1 DEF OperateCall
  <2>. QED
    BY Zenon, <1>1, <2>2, <2>3, <2>4 DEF ClientCall
<1>2. CASE UNCHANGED vars
  BY Zenon, <1>2, HeldByOthers DEF vars, Stays, LedgerSame
<1>. QED
  BY Zenon, <1>1, <1>2, GetLedger, CloseLedger, ReturnLedger, OperateLedger DEF Next, Handle

\* A semaphore that a client has is in use.
LEMMA HeldInUse ==
  ASSUME IInv, Tables, ReferencesCounted, NEW c \in Clients, NEW s \in Semaphores, Held(c, s) > 0
  PROVE  Used(semaphores, s) /\ semaphores[s].used
<1>1. PICK f \in [Clients -> Nat] : f = [d \in Clients |-> Held(d, s)]
  BY Zenon, HeldIs
<1>2. f[c] > 0 /\ IsFiniteSet(Clients)
  BY Zenon, <1>1, SemAssumption
<1>3. Total(f) > 0
  BY Zenon, <1>2, TotalPositive
<1>4. semaphores[s].refcount > 0
  BY Zenon, <1>1, <1>3 DEF ReferencesCounted
<1>. QED
  BY Zenon, <1>4 DEF Tables, TableCoherent, Used

\* The reference counts follow the ledger.
LEMMA ReferencesStep ==
  ASSUME IInv, IInv', Tables, ~Wild, ReferencesCounted, [Next]_vars
  PROVE  ReferencesCounted'
<1>. SUFFICES ASSUME NEW s \in Semaphores
              PROVE  semaphores'[s].refcount = Total([d \in Clients |-> Held(d, s)'])
  BY Zenon DEF ReferencesCounted
<1>1. PICK f \in [Clients -> Nat] : f = [d \in Clients |-> Held(d, s)]
  BY Zenon, HeldIs
<1>2. PICK g \in [Clients -> Nat] : g = [d \in Clients |-> Held(d, s)']
  BY Zenon, HeldNext
<1>3. semaphores[s].refcount = Total(f)
  BY Zenon, <1>1 DEF ReferencesCounted
<1>4. IsFiniteSet(Clients)
  BY Zenon, SemAssumption
<1>5. ASSUME LedgerSame, semaphores' = semaphores PROVE semaphores'[s].refcount = Total(g)
  <2>1. f = g
    BY Zenon, <1>1, <1>2, <1>5 DEF LedgerSame
  <2>. QED
    BY Zenon, <1>3, <1>5, <2>1
<1>6. ASSUME NEW c \in Clients, NEW p \in Semaphores \ {s}, Moved(c, p), semaphores'[s] = semaphores[s]
      PROVE  semaphores'[s].refcount = Total(g)
  <2>1. ASSUME NEW d \in Clients PROVE Held(d, s)' = Held(d, s)
    <3>1. <<d, s>> # <<c, p>>
      BY Zenon
    <3>. QED
      BY Zenon, <1>6, <3>1 DEF Moved
  <2>2. f = g
    BY Zenon, <1>1, <1>2, <2>1
  <2>. QED
    BY Zenon, <1>3, <1>6, <2>2
<1>7. ASSUME NEW c \in Clients, Moved(c, s) PROVE \A d \in Clients \ {c} : g[d] = f[d]
  <2>1. ASSUME NEW d \in Clients \ {c} PROVE Held(d, s)' = Held(d, s)
    <3>1. <<d, s>> # <<c, s>>
      BY Zenon
    <3>. QED
      BY Zenon, <1>7, <3>1 DEF Moved
  <2>. QED
    BY Zenon, <1>1, <1>2, <2>1
<1>8. ASSUME NEW c \in Clients, NEW p \in Semaphores, Grants(c, p)
      PROVE  semaphores'[s].refcount = Total(g)
  <2>1. /\ semaphores'[p].refcount = semaphores[p].refcount + 1
        /\ \A r \in Semaphores \ {p} : semaphores'[r] = semaphores[r]
    <3>1. PICK key \in Keys \cup {IPC_PRIVATE} :
            p \in GetEntries(semaphores, key) /\ semaphores' = Got(semaphores, p, key)
      BY Zenon, <1>8 DEF Grants
    <3>2. MoreRefs(Semaphores, semaphores, Got(semaphores, p, key), p)
      BY Zenon, <3>1, GotSemaphore DEF Tables
    <3>. QED
      BY Zenon, <3>1, <3>2 DEF MoreRefs
  <2>2. CASE p = s
    <3>1. g[c] = f[c] + 1 /\ \A d \in Clients \ {c} : g[d] = f[d]
      BY Zenon, <1>1, <1>2, <1>7, <1>8, <2>2 DEF Grants
    <3>2. Total(g) = Total(f) + 1
      BY Zenon, <1>4, <3>1, TotalUp
    <3>. QED
      BY Zenon, <1>3, <2>1, <2>2, <3>2
  <2>3. CASE p # s
    BY Zenon, <1>6, <1>8, <2>1, <2>3 DEF Grants
  <2>. QED
    BY Zenon, <2>2, <2>3
<1>9. ASSUME NEW c \in Clients, NEW p \in Semaphores, Closes(c, p)
      PROVE  semaphores'[s].refcount = Total(g)
  <2>1. /\ Used(semaphores, p) /\ Held(c, p) = Held(c, p)' + 1 /\ Moved(c, p)
        /\ semaphores' = Closed(semaphores, p)
    BY Zenon, <1>9, HeldInUse DEF Closes
  <2>2. /\ semaphores[p].refcount = semaphores'[p].refcount + 1
        /\ \A r \in Semaphores \ {p} : semaphores'[r] = semaphores[r]
        /\ semaphores' \in [Semaphores -> RefType(Keys \cup {IPC_PRIVATE})]
    <3>1. /\ MoreRefs(Semaphores, Closed(semaphores, p), semaphores, p)
          /\ Closed(semaphores, p) \in [Semaphores -> RefType(Keys \cup {IPC_PRIVATE})]
      BY Zenon, <2>1, ClosedOK DEF Tables
    <3>. QED
      BY Zenon, <2>1, <3>1 DEF MoreRefs
  <2>3. CASE p = s
    <3>1. f[c] = g[c] + 1 /\ \A d \in Clients \ {c} : f[d] = g[d]
      BY Zenon, <1>1, <1>2, <1>7, <2>1, <2>3
    <3>2. Total(f) = Total(g) + 1
      BY Zenon, <1>4, <3>1, TotalUp
    <3>3. Total(g) \in Nat /\ semaphores'[s].refcount \in Nat
      BY Zenon, <1>4, <2>2, TotalType DEF RefType
    <3>4. semaphores'[s].refcount + 1 = Total(g) + 1
      BY Zenon, <1>3, <2>2, <2>3, <3>2
    <3>. QED
      BY <3>3, <3>4
  <2>4. CASE p # s
    BY Zenon, <1>6, <2>1, <2>2, <2>4
  <2>. QED
    BY Zenon, <2>3, <2>4
<1>10. semaphores'[s].refcount = Total(g)
  BY Zenon, <1>5, <1>8, <1>9, LedgerStep DEF Stays, Joins, Fails
<1>. QED
  BY Zenon, <1>2, <1>10

\* For any clients, also those that operate semaphores which they did not get:
\* the table of semaphores is coherent, all variables keep their types, and in
\* particular no counter of a semaphore falls below zero.
THEOREM TablesCorrect == Spec => [](TypeOK /\ TableCoherent(semaphores))
<1>1. Init => IInv /\ Tables
  BY Zenon, TablesInit
<1>2. IInv /\ Tables /\ [Next]_vars => (IInv /\ Tables)'
  BY Zenon, TypesStep, TablesStep
<1>3. IInv /\ Tables => TypeOK /\ TableCoherent(semaphores)
  BY Zenon DEF IInv, Tables, Types, TypeOK, Answers, Sleeper, RefType, ConnTable
<1>. QED
  BY <1>1, <1>2, <1>3, PTL DEF Spec

\* In the beginning nobody has a semaphore or a connection.
LEMMA ReferencesInit == Init => ReferencesCounted /\ HoldersConnected
<1>. SUFFICES ASSUME Init PROVE ReferencesCounted /\ HoldersConnected
  BY Zenon
<1>0. 0 \in Nat
  OBVIOUS
<1>1. IInv /\ Tables
  BY Zenon, TablesInit
<1>2. ASSUME NEW c \in Clients, NEW s \in Semaphores PROVE Held(c, s) = 0
  <2>1. ~Granted(c, s) /\ ~Closing(c, s) /\ open[c][s] = 0
    BY Zenon, Messages DEF Init, Granted, Closing
  <2>. QED
    BY Zenon, <1>1, <2>1, HeldIs
<1>3. ASSUME NEW s \in Semaphores PROVE semaphores[s].refcount = Total([d \in Clients |-> Held(d, s)])
  <2>1. PICK f \in [Clients -> Nat] : f = [d \in Clients |-> Held(d, s)]
    BY Zenon, <1>1, HeldIs
  <2>2. Total(f) = 0
    BY Zenon, <1>2, <2>1, TotalZero
  <2>3. semaphores[s].refcount = 0
    BY Zenon DEF Init, EmptyTable, Semaphores, NoObject
  <2>. QED
    BY Zenon, <2>1, <2>2, <2>3
<1>4. ASSUME NEW c \in Clients PROVE ConnectionsOf(connections, c) >= Total([s \in Semaphores |-> Held(c, s)])
  <2>1. PICK f \in [Semaphores -> Nat] : f = [s \in Semaphores |-> Held(c, s)]
    BY Zenon, <1>1, HeldIs
  <2>2. Total(f) = 0
    BY Zenon, <1>2, <2>1, TotalZero
  <2>3. ConnectionsOf(connections, c) = 0
    <3>1. lookup(connections, c) = {}
      <4>1. \A i \in DOMAIN connections : connections[i].remote = -1
        BY Zenon DEF Init, connections_setup
      <4>2. c[1] # -1
        BY SemAssumption
      <4>. QED
        BY Zenon, <4>1, <4>2 DEF lookup
    <3>. QED
      BY Zenon, <3>1 DEF ConnectionsOf
  <2>4. 0 >= 0
    OBVIOUS
  <2>. QED
    BY Zenon, <2>1, <2>2, <2>3, <2>4
<1>. QED
  BY Zenon, <1>3, <1>4 DEF ReferencesCounted, HoldersConnected

\* The inductive invariant: types, calls in flight, tables and references.
RefInv == IInv /\ Tables /\ ReferencesCounted

\* Every step keeps it.
LEMMA RefInvStep == ~Wild /\ RefInv /\ [Next]_vars => RefInv'
BY Zenon, TypesStep, TablesStep, ReferencesStep DEF RefInv

\* As long as clients use only the semaphores that they got, the reference
\* count of a semaphore is the number of times that clients have it: the last
\* close releases it, and no earlier one.
THEOREM ReferencesCorrect ==
  ASSUME ~Wild
  PROVE  Spec => []ReferencesCounted
<1>1. Init => RefInv
  BY Zenon, TablesInit, ReferencesInit DEF RefInv
<1>2. RefInv /\ [Next]_vars => RefInv'
  BY Zenon, RefInvStep
<1>3. RefInv => ReferencesCounted
  BY Zenon DEF RefInv
<1>. QED
  BY <1>1, <1>2, <1>3, PTL DEF Spec

\* A semaphore that a client got and did not close stays in use, whatever other
\* clients get and close.
THEOREM SemaphoresCorrect ==
  ASSUME ~Wild
  PROVE  Spec => []SemaphoresCoherent
<1>1. Init => RefInv
  BY Zenon, TablesInit, ReferencesInit DEF RefInv
<1>2. RefInv /\ [Next]_vars => RefInv'
  BY Zenon, RefInvStep
<1>3. RefInv => SemaphoresCoherent
  <2>. SUFFICES ASSUME RefInv PROVE SemaphoresCoherent
    BY Zenon
  <2>1. TypeOK /\ TableCoherent(semaphores)
    BY Zenon DEF RefInv, IInv, Tables, Types, TypeOK, Answers, Sleeper, RefType, ConnTable
  <2>2. ASSUME NEW c \in Clients, NEW s \in Semaphores, open[c][s] > 0 PROVE semaphores[s].used
    <3>1. open[c][s] \in Nat /\ (Held(c, s) = open[c][s] \/ Held(c, s) = open[c][s] + 1)
      BY Zenon, HeldIs DEF RefInv
    <3>2. Held(c, s) > 0
      BY <2>2, <3>1
    <3>. QED
      BY Zenon, <3>2, HeldInUse DEF RefInv
  <2>. QED
    BY Zenon, <2>1, <2>2 DEF SemaphoresCoherent
<1>. QED
  BY <1>1, <1>2, <1>3, PTL DEF Spec

\* Connections follow the ledger: a client that gets a semaphore has a
\* connection more, one that closes one has a connection less, and one that
\* operates only ever gains connections.
LEMMA HoldersStep ==
  ASSUME RefInv, IInv', Tables', ~Wild, Cardinality(Clients) <= NANVIX_CONNECTIONS_MAX,
         HoldersConnected, [Next]_vars
  PROVE  HoldersConnected'
<1>. SUFFICES ASSUME NEW d \in Clients
              PROVE  ConnectionsOf(connections', d) >= Total([s \in Semaphores |-> Held(d, s)'])
  BY Zenon DEF HoldersConnected
<1>0. IInv /\ Tables /\ ReferencesCounted /\ ConnTable(Connections, Clients, connections)
  BY Zenon DEF RefInv, Tables
<1>1. PICK f \in [Semaphores -> Nat] : f = [s \in Semaphores |-> Held(d, s)]
  BY Zenon, <1>0, HeldIs
<1>2. PICK g \in [Semaphores -> Nat] : g = [s \in Semaphores |-> Held(d, s)']
  BY Zenon, HeldNext
<1>. DEFINE n == ConnectionsOf(connections, d)
            m == ConnectionsOf(connections', d)
<1>3. n >= Total(f)
  BY Zenon, <1>1 DEF HoldersConnected
<1>4. IsFiniteSet(Semaphores)
  BY FS_Interval, SemAssumption DEF Semaphores
<1>5. Total(f) \in Nat /\ Total(g) \in Nat
  BY Zenon, <1>4, TotalType
<1>t. n \in Nat /\ m \in Nat
  BY Zenon, <1>0, ConnectionsNat DEF Tables
<1>6. ASSUME LedgerSame PROVE g = f
  BY Zenon, <1>1, <1>2, <1>6 DEF LedgerSame
<1>7. ASSUME NEW c \in Clients PROVE connect_ret(connections, c) = 0
  <2>1. Cardinality(Connections) = NANVIX_CONNECTIONS_MAX
    BY FS_Interval, ConnectionAssumption DEF Connections
  <2>. QED
    BY Zenon, <1>0, <2>1, RoomForAll, SemAssumption
<1>8. ASSUME NEW c \in Clients, NEW u, u = connect(connections, c)
      PROVE  /\ ConnTable(Connections, Clients, u)
             /\ d = c => ConnectionsOf(u, d) = n + 1
             /\ d # c => ConnectionsOf(u, d) = n
  <2>1. ConnTable(Connections, Clients, u) /\ OneMore(Connections, connections, u, c)
    BY Zenon, <1>0, <1>7, <1>8, Connected
  <2>2. OthersKeep(Clients, connections, u, c)
    BY Zenon, <1>0, <1>8, Connected
  <2>. QED
    BY Zenon, <2>1, <2>2 DEF OneMore, OthersKeep
<1>9. ASSUME NEW c \in Clients, NEW u, ConnTable(Connections, Clients, u), connections' = disconnect(u, c)
      PROVE  /\ d = c /\ ConnectionsOf(u, d) # 0 => ConnectionsOf(u, d) = m + 1
             /\ d # c => m = ConnectionsOf(u, d)
  <2>1. ConnectionsOf(u, c) # 0 => OneMore(Connections, connections', u, c)
    BY Zenon, <1>9, Disconnected
  <2>2. OthersKeep(Clients, u, connections', c)
    BY Zenon, <1>9, Disconnected
  <2>. QED
    BY Zenon, <2>1, <2>2 DEF OneMore, OthersKeep
<1>10. ASSUME NEW c \in Clients, NEW p \in Semaphores, Moved(c, p)
       PROVE  /\ d # c => g = f
              /\ \A r \in Semaphores \ {p} : g[r] = f[r]
  <2>1. ASSUME NEW r \in Semaphores, d # c \/ r # p PROVE g[r] = f[r]
    <3>1. <<d, r>> # <<c, p>>
      BY <2>1
    <3>. QED
      BY Zenon, <1>1, <1>2, <1>10, <3>1 DEF Moved
  <2>. QED
    BY Zenon, <1>1, <1>2, <2>1
<1>11. CASE Stays
  <2>1. g = f /\ m = n
    BY Zenon, <1>6, <1>11 DEF Stays
  <2>. QED
    BY Zenon, <1>2, <1>3, <2>1
<1>12. ASSUME NEW c \in Clients, Joins(c) PROVE m >= Total(g)
  <2>1. g = f /\ connections' = connect(connections, c)
    BY Zenon, <1>6, <1>12 DEF Joins
  <2>2. m = n + 1 \/ m = n
    BY Zenon, <1>8, <2>1
  <2>. HIDE DEF m, n
  <2>. QED
    BY <1>3, <1>5, <1>t, <2>1, <2>2
<1>13. ASSUME NEW c \in Clients, Fails(c) PROVE m >= Total(g)
  <2>1. PICK u : u = connect(connections, c)
    BY Zenon
  <2>2. g = f /\ connections' = disconnect(u, c)
    BY Zenon, <1>6, <1>13, <2>1 DEF Fails
  <2>3. /\ ConnTable(Connections, Clients, u)
        /\ d = c => ConnectionsOf(u, d) = n + 1
        /\ d # c => ConnectionsOf(u, d) = n
    BY Zenon, <1>8, <2>1
  <2>4. /\ d = c /\ ConnectionsOf(u, d) # 0 => ConnectionsOf(u, d) = m + 1
        /\ d # c => m = ConnectionsOf(u, d)
    BY Zenon, <1>9, <2>2, <2>3
  <2>. HIDE DEF m, n
  <2>. QED
    BY <1>3, <1>5, <1>t, <2>2, <2>3, <2>4
<1>14. ASSUME NEW c \in Clients, NEW p \in Semaphores, Grants(c, p) PROVE m >= Total(g)
  <2>1. connections' = connect(connections, c) /\ Moved(c, p) /\ Held(c, p)' = Held(c, p) + 1
    BY Zenon, <1>14 DEF Grants
  <2>2. (d = c => m = n + 1) /\ (d # c => m = n)
    BY Zenon, <1>8, <2>1
  <2>3. CASE d = c
    <3>1. g[p] = f[p] + 1 /\ \A r \in Semaphores \ {p} : g[r] = f[r]
      BY Zenon, <1>1, <1>2, <1>10, <2>1, <2>3
    <3>2. Total(g) = Total(f) + 1
      BY Zenon, <1>4, <3>1, TotalUp
    <3>. HIDE DEF m, n
    <3>. QED
      BY <1>3, <1>5, <1>t, <2>2, <2>3, <3>2
  <2>4. CASE d # c
    BY Zenon, <1>3, <1>10, <2>1, <2>2, <2>4
  <2>. QED
    BY Zenon, <2>3, <2>4
<1>15. ASSUME NEW c \in Clients, NEW p \in Semaphores, Closes(c, p) PROVE m >= Total(g)
  <2>1. /\ Held(c, p) = Held(c, p)' + 1 /\ Moved(c, p)
        /\ connections' = disconnect(connections, c)
    BY Zenon, <1>0, <1>15, HeldInUse DEF Closes
  <2>2. (d = c /\ n # 0 => n = m + 1) /\ (d # c => m = n)
    BY Zenon, <1>0, <1>9, <2>1
  <2>3. CASE d = c
    <3>1. f[p] = g[p] + 1 /\ \A r \in Semaphores \ {p} : f[r] = g[r]
      BY Zenon, <1>1, <1>2, <1>10, <2>1, <2>3
    <3>2. Total(f) = Total(g) + 1
      BY Zenon, <1>4, <3>1, TotalUp
    <3>. HIDE DEF m, n
    <3>. QED
      BY <1>3, <1>5, <1>t, <2>2, <2>3, <3>2
  <2>4. CASE d # c
    BY Zenon, <1>3, <1>10, <2>1, <2>2, <2>4
  <2>. QED
    BY Zenon, <2>3, <2>4
<1>16. m >= Total(g)
  <2>1. \/ Stays
        \/ \E c \in Clients : \/ Joins(c) \/ Fails(c)
                              \/ \E s \in Semaphores : Grants(c, s) \/ Closes(c, s)
    BY Zenon, <1>0, LedgerStep
  <2>2. CASE Stays
    BY Zenon, <1>2, <1>11, <2>2
  <2>. QED
    BY Zenon, <1>12, <1>13, <1>14, <1>15, <2>1, <2>2
<1>. QED
  BY Zenon, <1>2, <1>16

\* As long as clients use only the semaphores that they got, and the table has an
\* entry for each of them, a client has at least as many connections as
\* semaphores: closing some of them never disconnects it from the others.
THEOREM HoldersCorrect ==
  ASSUME ~Wild, Cardinality(Clients) <= NANVIX_CONNECTIONS_MAX
  PROVE  Spec => []HoldersConnected
<1>1. Init => RefInv /\ HoldersConnected
  BY Zenon, TablesInit, ReferencesInit DEF RefInv
<1>2. RefInv /\ HoldersConnected /\ [Next]_vars => (RefInv /\ HoldersConnected)'
  <2>. SUFFICES ASSUME RefInv, HoldersConnected, [Next]_vars PROVE (RefInv /\ HoldersConnected)'
    BY Zenon
  <2>1. RefInv'
    BY Zenon, RefInvStep
  <2>2. IInv'
    BY Zenon, <2>1 DEF RefInv
  <2>3. Tables'
    BY Zenon, <2>1 DEF RefInv
  <2>. QED
    BY Zenon, <2>1, <2>2, <2>3, HoldersStep
<1>. QED
  BY <1>1, <1>2, PTL DEF Spec

=============================================================================
