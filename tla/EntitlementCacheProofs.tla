----------------------- MODULE EntitlementCacheProofs -----------------------
(***************************************************************************)
(* What holds of EntitlementCache for any tenants and requests, any time to *)
(* live and any number of answers kept.                                     *)
(***************************************************************************)
EXTENDS EntitlementCache, FiniteSetTheorems, TLAPS

CacheIsFinite == IsFiniteSet(cache)

\* An answer kept is of the rows as they are, once the cache was told of every change.
KeptAreCurrent ==
    \A entry \in cache : AllTold(entry.tenant) => entry.rows = tables[entry.tenant]

\* An answer kept is given for the time to live at most, and until the first watched
\* date that was still to come at its moment.
KeptToTheFirstDate ==
    \A entry \in cache :
        /\ entry.at <= today /\ entry.until <= entry.at + TimeToLive
        /\ \A table \in Tables : \A date \in entry.rows[table].watched :
               date > entry.at => entry.until <= date

\* A request began at a moment and a generation that are over or still are.
BeganBefore ==
    \A a \in Askers : asks[a].place # 0 =>
        /\ asks[a].at <= today
        /\ asks[a].startedAt[1] <= generation
        /\ asks[a].startedAt[2] <= tenantGenerations[asks[a].tenant]

\* What a request has read is as it is, once the cache was told of every change, and
\* unless it was told of one since the request began.
ReadIsCurrent ==
    \A a \in Askers :
        /\ asks[a].place # 0
        /\ GenerationOf(asks[a].tenant) = asks[a].startedAt
        /\ AllTold(asks[a].tenant)
        => \A i \in 1 .. 4 : i < asks[a].place =>
               asks[a].rows[Reads[i]] = tables[asks[a].tenant][Reads[i]]

CacheInv ==
    EntitlementTypeOK /\ CacheIsFinite /\ KeptAreCurrent /\ KeptToTheFirstDate
    /\ BeganBefore /\ ReadIsCurrent

-----------------------------------------------------------------------------
\* The tables read are all there are.
LEMMA TablesAreRead == /\ \A i \in 1 .. 4 : Reads[i] \in Tables
                       /\ \A table \in Tables : \E i \in 1 .. 4 : Reads[i] = table
  BY DEF Reads, Tables

\* A request under way is of the kind it is.
LEMMA UnderWay ==
    ASSUME EntitlementTypeOK, NEW a \in Askers, asks[a].place # 0
    PROVE  asks[a] \in [place : 1 .. 5, tenant : Tenants, at : Nat, startedAt : Nat \X Nat,
                        rows : Rows]
  BY DEF EntitlementTypeOK, Request, Idle

\* What is kept beside a new answer: answers of others, and fewer than there may be.
LEMMA KeptBeside ==
    ASSUME EntitlementTypeOK, CacheIsFinite, NEW entry \in Entry, WriteCache(entry)
    PROVE  /\ cache' \subseteq Entry
           /\ \A one, other \in cache' : one.tenant = other.tenant => one = other
           /\ IsFiniteSet(cache') /\ Cardinality(cache') <= MaxEntries
           /\ \A one \in cache' : one = entry \/ one \in cache
<1> DEFINE others == {other \in cache : other.tenant # entry.tenant}
<1>1. PICK kept \in SUBSET others :
          /\ \/ kept = others /\ Cardinality(others) < MaxEntries
             \/ Cardinality(others) >= MaxEntries /\ Cardinality(kept) = MaxEntries - 1
          /\ cache' = kept \union {entry}
  BY DEF WriteCache
<1>2. IsFiniteSet(kept) /\ entry \notin kept
  BY <1>1, FS_Subset DEF CacheIsFinite
<1>3. Cardinality(kept) \in Nat /\ Cardinality(kept) < MaxEntries
  <2>1. Cardinality(kept) \in Nat
    BY <1>2, FS_CardinalityType
  <2> HIDE DEF others
  <2> QED
    BY ONLY <1>1, <2>1, EntitlementAssumption
<1>4. IsFiniteSet(cache') /\ Cardinality(cache') = Cardinality(kept) + 1
  BY <1>1, <1>2, FS_AddElement
<1>5. Cardinality(cache') <= MaxEntries
  BY <1>3, <1>4, EntitlementAssumption
<1>6. kept \subseteq cache /\ \A one \in kept : one.tenant # entry.tenant
  BY <1>1
<1>7. cache' \subseteq Entry /\ \A one \in cache' : one = entry \/ one \in cache
  BY <1>1, <1>6 DEF EntitlementTypeOK
<1>8. \A one, other \in cache' : one.tenant = other.tenant => one = other
  BY <1>1, <1>6 DEF EntitlementTypeOK
<1> QED
  BY <1>4, <1>5, <1>7, <1>8

\* What is left of the answers after some were dropped is of their kind, and few enough.
LEMMA KeptOfThem ==
    ASSUME EntitlementTypeOK, CacheIsFinite, cache' \subseteq cache
    PROVE  /\ cache' \subseteq Entry
           /\ \A one, other \in cache' : one.tenant = other.tenant => one = other
           /\ IsFiniteSet(cache') /\ Cardinality(cache') <= MaxEntries
<1>1. IsFiniteSet(cache') /\ Cardinality(cache') <= Cardinality(cache)
  BY FS_Subset DEF CacheIsFinite
<1>2. Cardinality(cache) \in Nat /\ Cardinality(cache') \in Nat
  BY <1>1, FS_CardinalityType DEF CacheIsFinite
<1>3. Cardinality(cache') <= MaxEntries
  BY <1>1, <1>2, EntitlementAssumption DEF EntitlementTypeOK
<1> QED
  BY <1>1, <1>3 DEF EntitlementTypeOK

-----------------------------------------------------------------------------
(* What each step leaves.                                                  *)

\* A change is written.
LEMMA MutateStep ==
    ASSUME CacheInv, NEW t \in Tenants, NEW table \in Tables,
           NEW watched \in SUBSET Dates, NEW unwatched \in SUBSET Dates,
           Mutate(t, table, watched, unwatched)
    PROVE  CacheInv'
<1> DEFINE mutation == [version |-> mutations + 1, table |-> table, tenant |-> t]
<1>1. /\ mutation \in Mutation /\ untold' = untold \union {mutation}
      /\ mutations' = mutations + 1 /\ mutations' \in 0 .. MaxMutations
      /\ UNCHANGED <<today, cache, generation, tenantGenerations, asks>>
  BY EntitlementAssumption DEF Mutate, CacheInv, EntitlementTypeOK, Mutation
<1>2. tables' \in [Tenants -> Rows]
  <2>1. ASSUME NEW u \in Tenants
        PROVE  [tables[u] EXCEPT ![table] = [version |-> mutations + 1, watched |-> watched,
                                             unwatched |-> unwatched]] \in Rows
    BY DEF CacheInv, EntitlementTypeOK, Rows
  <2> QED
    BY <2>1 DEF Mutate, CacheInv, EntitlementTypeOK
<1>3. \A u \in Tenants : AllTold(u)' => AllTold(u) /\ tables'[u] = tables[u]
  <2> SUFFICES ASSUME NEW u \in Tenants, AllTold(u)' PROVE AllTold(u) /\ tables'[u] = tables[u]
    OBVIOUS
  <2>1. u \notin Reached(mutation) /\ AllTold(u)
    BY <1>1 DEF AllTold, Reached
  <2> QED
    BY <2>1 DEF Mutate
<1>4. EntitlementTypeOK'
  BY <1>1, <1>2 DEF CacheInv, EntitlementTypeOK
<1>5. KeptAreCurrent'
  BY <1>1, <1>3 DEF CacheInv, EntitlementTypeOK, KeptAreCurrent, Entry
<1>6. ReadIsCurrent'
  <2> SUFFICES ASSUME NEW a \in Askers, asks[a].place # 0,
                      GenerationOf(asks[a].tenant) = asks[a].startedAt, AllTold(asks[a].tenant)'
               PROVE  \A i \in 1 .. 4 : i < asks[a].place =>
                          asks[a].rows[Reads[i]] = tables'[asks[a].tenant][Reads[i]]
    BY <1>1 DEF ReadIsCurrent, GenerationOf
  <2>1. asks[a].tenant \in Tenants
    BY UnderWay DEF CacheInv
  <2>2. AllTold(asks[a].tenant) /\ tables'[asks[a].tenant] = tables[asks[a].tenant]
    BY <1>1, <1>3, <2>1
  <2> QED
    BY <2>2 DEF CacheInv, ReadIsCurrent
<1>7. CacheIsFinite' /\ KeptToTheFirstDate' /\ BeganBefore'
  BY <1>1 DEF CacheInv, CacheIsFinite, KeptToTheFirstDate, BeganBefore
<1> QED
  BY <1>4, <1>5, <1>6, <1>7 DEF CacheInv

\* The cache is told: a request of a tenant the change reaches finds another generation
\* than it began at, and an answer of one it does not reach was told of as much before.
LEMMA TellStep ==
    ASSUME CacheInv, NEW mutation \in untold,
           InvalidateTenant(mutation) \/ InvalidateAll(mutation)
    PROVE  CacheInv'
<1>1. /\ mutation \in Mutation /\ untold' = untold \ {mutation} /\ cache' \subseteq cache
      /\ UNCHANGED <<today, mutations, tables, asks>>
  BY DEF InvalidateTenant, InvalidateAll, CacheInv, EntitlementTypeOK
<1>2. /\ generation' \in Nat /\ tenantGenerations' \in [Tenants -> Nat]
      /\ generation <= generation'
      /\ \A t \in Tenants : tenantGenerations[t] <= tenantGenerations'[t]
      /\ \A t \in Reached(mutation) :
            generation < generation' \/ tenantGenerations[t] < tenantGenerations'[t]
  BY <1>1 DEF InvalidateTenant, InvalidateAll, Reached, CacheInv, EntitlementTypeOK, Mutation
<1>3. \A t \in Reached(mutation) : \A entry \in cache' : entry.tenant # t
  BY <1>1 DEF InvalidateTenant, InvalidateAll, Reached
<1>4. \A t \in Tenants : t \in Reached(mutation) \/ (AllTold(t)' => AllTold(t))
  BY <1>1 DEF AllTold, Reached
<1>5. EntitlementTypeOK' /\ CacheIsFinite'
  <2>1. /\ cache' \subseteq Entry
        /\ \A one, other \in cache' : one.tenant = other.tenant => one = other
        /\ IsFiniteSet(cache') /\ Cardinality(cache') <= MaxEntries
    BY <1>1, KeptOfThem DEF CacheInv
  <2> QED
    BY <1>1, <1>2, <2>1 DEF CacheInv, EntitlementTypeOK, CacheIsFinite
<1>6. KeptAreCurrent'
  BY <1>1, <1>3, <1>4 DEF CacheInv, EntitlementTypeOK, KeptAreCurrent, Entry
<1>7. KeptToTheFirstDate'
  BY <1>1 DEF CacheInv, KeptToTheFirstDate
<1>8. BeganBefore' /\ ReadIsCurrent'
  <2> SUFFICES ASSUME NEW a \in Askers, asks[a].place # 0
               PROVE  /\ asks[a].at <= today
                      /\ asks[a].startedAt[1] <= generation'
                      /\ asks[a].startedAt[2] <= tenantGenerations'[asks[a].tenant]
                      /\ GenerationOf(asks[a].tenant)' = asks[a].startedAt
                         /\ AllTold(asks[a].tenant)' =>
                            \A i \in 1 .. 4 : i < asks[a].place =>
                                asks[a].rows[Reads[i]] = tables[asks[a].tenant][Reads[i]]
    BY <1>1 DEF BeganBefore, ReadIsCurrent, GenerationOf
  <2> DEFINE t == asks[a].tenant
             from == asks[a].startedAt
  <2>1. t \in Tenants /\ from \in Nat \X Nat
    BY UnderWay DEF CacheInv
  <2>2. /\ asks[a].at <= today /\ from[1] <= generation /\ from[2] <= tenantGenerations[t]
        /\ generation \in Nat /\ tenantGenerations[t] \in Nat
        /\ generation' \in Nat /\ tenantGenerations'[t] \in Nat
    BY <1>2, <2>1 DEF CacheInv, BeganBefore, EntitlementTypeOK
  <2>3. from[1] <= generation' /\ from[2] <= tenantGenerations'[t]
    BY <1>2, <2>1, <2>2
  <2>4. ASSUME GenerationOf(t)' = from, AllTold(t)'
        PROVE  GenerationOf(t) = from /\ AllTold(t)
    <3>1. from = <<generation', tenantGenerations'[t]>>
      BY <1>1, <2>4 DEF GenerationOf
    <3>2. generation' = generation /\ tenantGenerations'[t] = tenantGenerations[t]
      <4>1. from[1] = generation' /\ from[2] = tenantGenerations'[t]
        BY <3>1
      <4> QED
        BY ONLY <1>2, <2>1, <2>2, <4>1
    <3>3. t \notin Reached(mutation)
      BY <1>2, <2>1, <2>2, <3>2
    <3>4. GenerationOf(t) = from
      BY <3>1, <3>2 DEF GenerationOf
    <3>5. AllTold(t)
      BY <1>1, <1>4, <2>1, <2>4, <3>3
    <3> QED
      BY <3>4, <3>5
  <2> QED
    BY <2>2, <2>3, <2>4 DEF CacheInv, ReadIsCurrent
<1> QED
  BY <1>5, <1>6, <1>7, <1>8 DEF CacheInv

\* A request begins: it has read nothing, and its generation is the one there is.
LEMMA AskStep ==
    ASSUME CacheInv, NEW a \in Askers, NEW t \in Tenants, AskToCompute(a, t)
    PROVE  CacheInv'
<1> DEFINE ask == [place |-> 1, tenant |-> t, at |-> today, startedAt |-> GenerationOf(t),
                   rows |-> NoRows]
<1>1. /\ asks' = [asks EXCEPT ![a] = ask] /\ cache' \subseteq cache
      /\ UNCHANGED <<today, mutations, tables, untold, generation, tenantGenerations>>
  BY DEF AskToCompute
<1>2. ask \in Request
  <2>1. NoRows \in Rows
    BY DEF NoRows, Rows
  <2>2. GenerationOf(t) \in Nat \X Nat /\ today \in Nat
    BY EntitlementAssumption DEF CacheInv, EntitlementTypeOK, GenerationOf
  <2> QED
    BY <2>1, <2>2 DEF Request
<1>3. asks' \in [Askers -> Request]
  BY <1>1, <1>2 DEF CacheInv, EntitlementTypeOK
<1>4. /\ cache' \subseteq Entry
      /\ \A one, other \in cache' : one.tenant = other.tenant => one = other
      /\ IsFiniteSet(cache') /\ Cardinality(cache') <= MaxEntries
  BY <1>1, KeptOfThem DEF CacheInv
<1>5. EntitlementTypeOK' /\ CacheIsFinite'
  BY <1>1, <1>3, <1>4 DEF CacheInv, EntitlementTypeOK, CacheIsFinite
<1>6. KeptAreCurrent' /\ KeptToTheFirstDate'
  BY <1>1 DEF CacheInv, KeptAreCurrent, KeptToTheFirstDate, AllTold, Reached
<1>7. \A b \in Askers : asks'[b] = IF b = a THEN ask ELSE asks[b]
  BY <1>1 DEF CacheInv, EntitlementTypeOK
<1>8. BeganBefore'
  <2>1. /\ ask.at <= today /\ ask.startedAt[1] <= generation
        /\ ask.startedAt[2] <= tenantGenerations[ask.tenant]
    BY EntitlementAssumption DEF CacheInv, EntitlementTypeOK, GenerationOf
  <2> HIDE DEF ask
  <2> QED
    BY <1>1, <1>7, <2>1 DEF CacheInv, BeganBefore
<1>9. ReadIsCurrent'
  <2>1. \A i \in 1 .. 4 : ~ (i < ask.place)
    OBVIOUS
  <2> HIDE DEF ask
  <2> SUFFICES ASSUME NEW b \in Askers, asks'[b].place # 0,
                      GenerationOf(asks'[b].tenant) = asks'[b].startedAt,
                      AllTold(asks'[b].tenant), NEW i \in 1 .. 4, i < asks'[b].place
               PROVE  asks'[b].rows[Reads[i]] = tables[asks'[b].tenant][Reads[i]]
    BY <1>1 DEF ReadIsCurrent, GenerationOf, AllTold, Reached
  <2>2. asks'[b] = asks[b]
    BY <1>7, <2>1
  <2> QED
    BY <2>2 DEF CacheInv, ReadIsCurrent
<1> QED
  BY <1>5, <1>6, <1>8, <1>9 DEF CacheInv

\* A table is read as it is.
LEMMA ReadStep ==
    ASSUME CacheInv, NEW a \in Askers, ReadTable(a)
    PROVE  CacheInv'
<1> DEFINE ask == asks[a]
           table == Reads[ask.place]
           next == [ask EXCEPT !.place = ask.place + 1,
                               !.rows = [ask.rows EXCEPT ![table] = tables[ask.tenant][table]]]
<1>1. /\ ask.place \in 1 .. 4 /\ asks' = [asks EXCEPT ![a] = next]
      /\ UNCHANGED <<today, mutations, tables, untold, cache, generation, tenantGenerations>>
  BY DEF ReadTable
<1>2. ask \in [place : 1 .. 5, tenant : Tenants, at : Nat, startedAt : Nat \X Nat, rows : Rows]
  BY <1>1, UnderWay DEF CacheInv
<1>3. table \in Tables /\ \A i \in 1 .. 4 : i # ask.place => Reads[i] # table
  BY <1>1 DEF Reads, Tables
<1>4. next.rows \in Rows
  <2>1. tables[ask.tenant][table] \in [version : Nat, watched : SUBSET Dates,
                                          unwatched : SUBSET Dates]
    BY <1>2, <1>3 DEF CacheInv, EntitlementTypeOK, Rows
  <2> QED
    BY <1>2, <1>3, <2>1 DEF Rows
<1>5. /\ next.place = ask.place + 1 /\ next.tenant = ask.tenant /\ next.at = ask.at
      /\ next.startedAt = ask.startedAt
      /\ \A i \in 1 .. 4 :
             next.rows[Reads[i]] = IF i = ask.place THEN tables[ask.tenant][table]
                                                    ELSE ask.rows[Reads[i]]
  BY <1>1, <1>2, <1>3, TablesAreRead DEF Rows
<1>6. next \in Request
  <2>1. next.place \in 1 .. 5
    BY <1>1, <1>5
  <2>2. next \in [place : 1 .. 5, tenant : Tenants, at : Nat, startedAt : Nat \X Nat, rows : Rows]
    BY <1>2, <1>4, <2>1
  <2> QED
    BY <2>2 DEF Request
<1>7. EntitlementTypeOK' /\ CacheIsFinite'
  BY <1>1, <1>6 DEF CacheInv, EntitlementTypeOK, CacheIsFinite
<1>8. KeptAreCurrent' /\ KeptToTheFirstDate'
  BY <1>1 DEF CacheInv, KeptAreCurrent, KeptToTheFirstDate, AllTold, Reached
<1>9. \A b \in Askers : asks'[b] = IF b = a THEN next ELSE asks[b]
  BY <1>1 DEF CacheInv, EntitlementTypeOK
<1>10. BeganBefore'
  <2>1. /\ ask.at <= today /\ ask.startedAt[1] <= generation
        /\ ask.startedAt[2] <= tenantGenerations[ask.tenant]
    BY <1>1 DEF CacheInv, BeganBefore
  <2> HIDE DEF next
  <2> QED
    BY <1>1, <1>5, <1>9, <2>1 DEF CacheInv, BeganBefore
<1>11. ReadIsCurrent'
  <2> HIDE DEF next
  <2> SUFFICES ASSUME NEW b \in Askers, asks'[b].place # 0,
                      GenerationOf(asks'[b].tenant) = asks'[b].startedAt,
                      AllTold(asks'[b].tenant), NEW i \in 1 .. 4, i < asks'[b].place
               PROVE  asks'[b].rows[Reads[i]] = tables[asks'[b].tenant][Reads[i]]
    BY <1>1 DEF ReadIsCurrent, GenerationOf, AllTold, Reached
  <2>1. CASE b # a
    BY <1>9, <2>1 DEF CacheInv, ReadIsCurrent
  <2>2. CASE b = a
    <3>1. asks'[b] = next
      BY <1>9, <2>2
    <3>2. /\ GenerationOf(ask.tenant) = ask.startedAt /\ AllTold(ask.tenant)
          /\ next.tenant = ask.tenant /\ i < ask.place + 1
      BY <1>5, <3>1
    <3>3. CASE i = ask.place
      BY <1>5, <3>1, <3>2, <3>3
    <3>4. CASE i # ask.place
      <4>1. i < ask.place
        BY <1>1, <3>2, <3>4
      <4>2. ask.rows[Reads[i]] = tables[ask.tenant][Reads[i]]
        BY <1>1, <3>2, <4>1 DEF CacheInv, ReadIsCurrent
      <4> QED
        BY <1>5, <3>1, <3>2, <3>4, <4>2
    <3> QED
      BY <3>3, <3>4
  <2> QED
    BY <2>1, <2>2
<1> QED
  BY <1>7, <1>8, <1>10, <1>11 DEF CacheInv

\* All the tables are read: an answer that is kept is of them as they are.
LEMMA AnswerStep ==
    ASSUME CacheInv, NEW a \in Askers, Answer(a)
    PROVE  CacheInv'
<1> DEFINE ask == asks[a]
<1>1. /\ ask.place = 5 /\ asks' = [asks EXCEPT ![a] = Idle]
      /\ UNCHANGED <<today, mutations, tables, untold, generation, tenantGenerations>>
  BY DEF Answer
<1>2. ask \in [place : 1 .. 5, tenant : Tenants, at : Nat, startedAt : Nat \X Nat, rows : Rows]
  BY <1>1, UnderWay DEF CacheInv
<1>3. asks' \in [Askers -> Request]
  BY <1>1 DEF CacheInv, EntitlementTypeOK, Request
<1>4. BeganBefore' /\ ReadIsCurrent'
  <2>1. \A b \in Askers : asks'[b].place # 0 => asks'[b] = asks[b]
    BY <1>1 DEF CacheInv, EntitlementTypeOK, Idle
  <2>2. BeganBefore'
    BY <1>1, <2>1 DEF CacheInv, BeganBefore
  <2>3. ReadIsCurrent'
    <3> SUFFICES ASSUME NEW b \in Askers, asks'[b].place # 0,
                        GenerationOf(asks'[b].tenant) = asks'[b].startedAt,
                        AllTold(asks'[b].tenant), NEW i \in 1 .. 4, i < asks'[b].place
                 PROVE  asks'[b].rows[Reads[i]] = tables[asks'[b].tenant][Reads[i]]
      BY <1>1 DEF ReadIsCurrent, GenerationOf, AllTold, Reached
    <3> QED
      BY <2>1 DEF CacheInv, ReadIsCurrent
  <2> QED
    BY <2>2, <2>3
<1>5. CASE UNCHANGED cache
  BY <1>1, <1>3, <1>4, <1>5
     DEF CacheInv, EntitlementTypeOK, CacheIsFinite, KeptAreCurrent, KeptToTheFirstDate,
         AllTold, Reached
<1>6. CASE ~ UNCHANGED cache
  <2>1. GenerationOf(ask.tenant) = ask.startedAt
    BY <1>6 DEF Answer
  <2>2. PICK until \in 0 .. LastDate + TimeToLive :
            /\ IsKeptUntil(until, ask.rows, ask.at)
            /\ WriteCache([tenant |-> ask.tenant, at |-> ask.at, until |-> until,
                           rows |-> ask.rows])
    BY <1>6 DEF Answer
  <2> DEFINE entry == [tenant |-> ask.tenant, at |-> ask.at, until |-> until, rows |-> ask.rows]
  <2>3. entry \in Entry
    BY <1>2, <2>2, EntitlementAssumption DEF Entry
  <2>4. /\ cache' \subseteq Entry
        /\ \A one, other \in cache' : one.tenant = other.tenant => one = other
        /\ IsFiniteSet(cache') /\ Cardinality(cache') <= MaxEntries
        /\ \A one \in cache' : one = entry \/ one \in cache
    BY <2>2, <2>3, KeptBeside DEF CacheInv
  <2>5. EntitlementTypeOK' /\ CacheIsFinite'
    BY <1>1, <1>3, <2>4 DEF CacheInv, EntitlementTypeOK, CacheIsFinite
  <2>6. AllTold(ask.tenant) => ask.rows = tables[ask.tenant]
    <3> SUFFICES ASSUME AllTold(ask.tenant) PROVE ask.rows = tables[ask.tenant]
      OBVIOUS
    <3>1. \A i \in 1 .. 4 : ask.rows[Reads[i]] = tables[ask.tenant][Reads[i]]
      BY <1>1, <2>1 DEF CacheInv, ReadIsCurrent
    <3>2. ask.rows \in Rows /\ tables[ask.tenant] \in Rows
      BY <1>2 DEF CacheInv, EntitlementTypeOK
    <3>3. \A table \in Tables : ask.rows[table] = tables[ask.tenant][table]
      BY <3>1, TablesAreRead
    <3> QED
      BY <3>2, <3>3 DEF Rows
  <2>7. KeptAreCurrent'
    <3> SUFFICES ASSUME NEW one \in cache', AllTold(one.tenant)
                 PROVE  one.rows = tables[one.tenant]
      BY <1>1 DEF KeptAreCurrent, AllTold, Reached
    <3> QED
      BY <2>4, <2>6 DEF CacheInv, KeptAreCurrent
  <2>8. \A table \in Tables : \A date \in ask.rows[table].watched :
            date > ask.at => until <= date
    <3> SUFFICES ASSUME NEW table \in Tables, NEW date \in ask.rows[table].watched, date > ask.at
                 PROVE  until <= date
      OBVIOUS
    <3>1. date \in Dates
      BY <1>2 DEF Rows
    <3>2. date \in ComingDates(ask.rows, ask.at)
      BY <3>1 DEF ComingDates
    <3> QED
      BY <2>2, <3>2 DEF IsKeptUntil
  <2>9. ask.at <= today /\ until <= ask.at + TimeToLive
    <3>1. ask.at <= today
      BY <1>1 DEF CacheInv, BeganBefore
    <3>2. until <= ask.at + TimeToLive
      BY <2>2 DEF IsKeptUntil
    <3> QED
      BY <3>1, <3>2
  <2>10. KeptToTheFirstDate'
    BY <1>1, <2>4, <2>8, <2>9 DEF CacheInv, KeptToTheFirstDate
  <2> QED
    BY <1>4, <2>5, <2>7, <2>10 DEF CacheInv
<1> QED
  BY <1>5, <1>6

\* A day passes.
LEMMA TomorrowStep ==
    ASSUME CacheInv, TomorrowComes
    PROVE  CacheInv'
<1>1. /\ today' \in 0 .. LastDate /\ today' = today + 1 /\ today \in Nat
      /\ UNCHANGED <<mutations, tables, untold, cache, generation, tenantGenerations, asks>>
  BY EntitlementAssumption DEF TomorrowComes, CacheInv, EntitlementTypeOK
<1>2. EntitlementTypeOK' /\ CacheIsFinite' /\ KeptAreCurrent' /\ ReadIsCurrent'
  BY <1>1 DEF CacheInv, EntitlementTypeOK, CacheIsFinite, KeptAreCurrent, ReadIsCurrent,
              GenerationOf, AllTold, Reached
<1>3. KeptToTheFirstDate'
  BY <1>1 DEF CacheInv, EntitlementTypeOK, KeptToTheFirstDate, Entry
<1>4. BeganBefore'
  <2>1. \A a \in Askers : asks[a].place # 0 => asks[a].at \in Nat
    BY UnderWay DEF CacheInv
  <2> QED
    BY <1>1, <2>1 DEF CacheInv, BeganBefore
<1> QED
  BY <1>2, <1>3, <1>4 DEF CacheInv

-----------------------------------------------------------------------------
\* The strengthening is inductive.
LEMMA CacheInduction == EntitlementSpec => []CacheInv
<1>1. EntitlementInit => CacheInv
  <2> SUFFICES ASSUME EntitlementInit PROVE CacheInv
    OBVIOUS
  <2>1. NoRows \in Rows
    BY DEF NoRows, Rows
  <2>2. IsFiniteSet(cache) /\ Cardinality(cache) = 0
    BY FS_EmptySet DEF EntitlementInit
  <2>3. EntitlementTypeOK
    BY <2>1, <2>2, EntitlementAssumption DEF EntitlementInit, EntitlementTypeOK, Request
  <2>4. CacheIsFinite /\ KeptAreCurrent /\ KeptToTheFirstDate
    BY <2>2 DEF EntitlementInit, CacheIsFinite, KeptAreCurrent, KeptToTheFirstDate
  <2>5. BeganBefore /\ ReadIsCurrent
    BY DEF EntitlementInit, BeganBefore, ReadIsCurrent, Idle
  <2> QED
    BY <2>3, <2>4, <2>5 DEF CacheInv
<1>2. CacheInv /\ [EntitlementNext]_entitlementVars => CacheInv'
  <2> SUFFICES ASSUME CacheInv, [EntitlementNext]_entitlementVars PROVE CacheInv'
    OBVIOUS
  <2>1. CASE UNCHANGED entitlementVars
    BY <2>1 DEF entitlementVars, CacheInv, EntitlementTypeOK, CacheIsFinite, KeptAreCurrent,
                KeptToTheFirstDate, BeganBefore, ReadIsCurrent, GenerationOf, AllTold, Reached
  <2>2. ASSUME NEW a \in Askers, NEW t \in Tenants, AskAnswered(a, t) PROVE CacheInv'
    BY <2>1, <2>2 DEF AskAnswered
  <2> QED
    BY <2>1, <2>2, MutateStep, TellStep, AskStep, ReadStep, AnswerStep, TomorrowStep
       DEF EntitlementNext
<1> QED
  BY <1>1, <1>2, PTL DEF EntitlementSpec

\* No tenant has two answers kept, and no more are kept than there may be, however the
\* requests and the changes interleave (readCache, writeCache).
THEOREM EntitlementTypes == EntitlementSpec => []EntitlementTypeOK
<1>1. CacheInv => EntitlementTypeOK
  BY DEF CacheInv
<1> QED
  BY <1>1, CacheInduction, PTL

\* Whatever changes and dates pass while a request reads one table after the other, an
\* answer the cache would give, once it was told of every change of the tenant's rows,
\* grants what one computed now would, unless a date nothing watches has passed in the
\* time to live (computeLimits, invalidateTenant, invalidateAll, writeCache).
THEOREM AnswersAreCurrent == EntitlementSpec => []AsComputedUnlessUnwatched
<1>1. CacheInv => AsComputedUnlessUnwatched
  <2> SUFFICES ASSUME CacheInv, NEW entry \in cache, IsFresh(entry, today), AllTold(entry.tenant)
               PROVE  /\ today < entry.at + TimeToLive
                      /\ ~UnwatchedPassed(entry) =>
                            Granted(entry.rows, entry.at) = Granted(tables[entry.tenant], today)
    BY DEF AsComputedUnlessUnwatched
  <2>1. entry \in Entry /\ entry.rows = tables[entry.tenant]
    BY DEF CacheInv, EntitlementTypeOK, KeptAreCurrent
  <2>2. entry.at \in Nat /\ today \in Nat /\ entry.at <= today /\ entry.until \in Nat
        /\ entry.until > today /\ entry.until <= entry.at + TimeToLive
    BY <2>1, EntitlementAssumption
       DEF CacheInv, EntitlementTypeOK, KeptToTheFirstDate, IsFresh, Entry
  <2>3. ASSUME ~UnwatchedPassed(entry), NEW table \in Tables,
               NEW date \in entry.rows[table].watched \union entry.rows[table].unwatched
        PROVE  date <= entry.at <=> date <= today
    <3>1. date \in Nat
      BY <2>1, EntitlementAssumption DEF Entry, Rows, Dates
    <3>2. CASE date \in entry.rows[table].watched
      <4>1. date > entry.at => entry.until <= date
        BY <3>2 DEF CacheInv, KeptToTheFirstDate
      <4> QED
        BY ONLY <2>2, <3>1, <4>1
    <3>3. CASE date \in entry.rows[table].unwatched
      <4>1. ~(entry.at < date /\ date <= today)
        BY <2>3, <3>3 DEF UnwatchedPassed
      <4> QED
        BY ONLY <2>2, <3>1, <4>1
    <3> QED
      BY <3>2, <3>3
  <2>4. today < entry.at + TimeToLive
    BY ONLY <2>2, EntitlementAssumption
  <2>5. ASSUME ~UnwatchedPassed(entry)
        PROVE  Granted(entry.rows, entry.at) = Granted(entry.rows, today)
    BY <2>3, <2>5 DEF Granted
  <2> QED
    BY <2>1, <2>4, <2>5
<1> QED
  BY <1>1, CacheInduction, PTL
=============================================================================
