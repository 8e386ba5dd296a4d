-------------------------- MODULE EntitlementCache --------------------------
(***************************************************************************)
(* What a tenant is granted, answered from a cache.  An answer is computed  *)
(* for one moment from the subscription, the feature withdrawals, the       *)
(* bookings and the contracts, read one after the other; a change of a row  *)
(* is told to the cache after it is written, and a date in a row passes     *)
(* with nobody telling.                                                     *)
(*                                                                          *)
(* One process, whose requests interleave: every await of a member of       *)
(* Askers is a step.  A row is a version and the dates on which it grants   *)
(* something else.  Some of them an answer is kept no longer than to: the   *)
(* subscription's cancellation, the ends of the bookings, the start and the *)
(* lifting of a withdrawal.  Others nothing watches: the day of a plan      *)
(* change booked on the subscription, and the window of a contract.  The    *)
(* catalog and the plan versions on sale are taken as they are: nobody      *)
(* tells the cache of those, and an answer lives on past a publication.     *)
(***************************************************************************)
EXTENDS Integers, Sequences, FiniteSets

CONSTANTS
    Tenants,
    NoTenant,
    Askers,
    TimeToLive,     \* how long an answer may be kept
    MaxEntries,     \* how many answers may be kept
    MaxMutations,   \* bound on the changes of rows
    LastDate        \* bound on the clock and the dates

ASSUME EntitlementAssumption ==
    /\ IsFiniteSet(Tenants) /\ NoTenant \notin Tenants
    /\ TimeToLive \in Nat \ {0} /\ MaxEntries \in Nat \ {0}
    /\ MaxMutations \in Nat /\ LastDate \in Nat

VARIABLES
    today,              \* the clock
    mutations,          \* how many changes were written
    tables,             \* the rows each tenant's answer is computed from
    untold,             \* the changes the cache was not told yet
    cache,              \* the answers kept
    generation,         \* how often the cache was told of everyone
    tenantGenerations,  \* and of each tenant
    asks                \* where each request is

entitlementVars == <<today, mutations, tables, untold, cache, generation, tenantGenerations, asks>>

\* The tables in the order they are read.
Reads == <<"subscription", "withdrawals", "bookings", "contracts">>

Tables == {"subscription", "withdrawals", "bookings", "contracts"}

Dates == 1 .. LastDate

Rows == [Tables -> [version : Nat, watched : SUBSET Dates, unwatched : SUBSET Dates]]

NoRows == [table \in Tables |-> [version |-> 0, watched |-> {}, unwatched |-> {}]]

\* An answer for the moment at, which may be given until the moment until.
Entry == [tenant : Tenants, at : Nat, until : Nat, rows : Rows]

\* A request has begun to read that many tables; 0 where it is over.
Idle == [place |-> 0, tenant |-> NoTenant, at |-> 0, startedAt |-> <<0, 0>>, rows |-> NoRows]

Request ==
    {Idle} \union
        [place : 1 .. 5, tenant : Tenants, at : Nat, startedAt : Nat \X Nat, rows : Rows]

Mutation == [version : Nat, table : Tables, tenant : Tenants]

\* The rows, the answers and the requests are of their kinds; a tenant has one answer
\* at most, and no more are kept than there may be (readCache, writeCache).
EntitlementTypeOK ==
    /\ today \in 0 .. LastDate
    /\ mutations \in 0 .. MaxMutations
    /\ tables \in [Tenants -> Rows]
    /\ untold \subseteq Mutation
    /\ cache \subseteq Entry
    /\ \A one, other \in cache : one.tenant = other.tenant => one = other
    /\ Cardinality(cache) <= MaxEntries
    /\ generation \in Nat /\ tenantGenerations \in [Tenants -> Nat]
    /\ asks \in [Askers -> Request]

EntitlementInit ==
    /\ today = 0
    /\ mutations = 0
    /\ tables = [t \in Tenants |-> NoRows]
    /\ untold = {}
    /\ cache = {}
    /\ generation = 0
    /\ tenantGenerations = [t \in Tenants |-> 0]
    /\ asks = [a \in Askers |-> Idle]

-----------------------------------------------------------------------------
(* The writers.                                                            *)

\* The withdrawals are everyone's, the other rows one tenant's.
Reached(mutation) == IF mutation.table = "withdrawals" THEN Tenants ELSE {mutation.tenant}

\* A row is written: a cancellation, a plan change booked for a day, a booking, a
\* withdrawal announced or lifted, a contract.
Mutate(t, table, watched, unwatched) ==
    LET mutation == [version |-> mutations + 1, table |-> table, tenant |-> t]
    IN  /\ mutations < MaxMutations
        /\ table \in {"withdrawals", "bookings"} => unwatched = {}
        /\ table = "contracts" => watched = {}
        /\ mutations' = mutations + 1
        /\ tables' = [u \in Tenants |->
                         IF u \in Reached(mutation)
                         THEN [tables[u] EXCEPT ![table] =
                                  [version |-> mutations + 1, watched |-> watched,
                                   unwatched |-> unwatched]]
                         ELSE tables[u]]
        /\ untold' = untold \union {mutation}
        /\ UNCHANGED <<today, cache, generation, tenantGenerations, asks>>

\* The writer's next step tells the cache: of the tenant, ...
InvalidateTenant(mutation) ==
    /\ mutation \in untold /\ mutation.table # "withdrawals"
    /\ untold' = untold \ {mutation}
    /\ tenantGenerations' = [tenantGenerations EXCEPT ![mutation.tenant] = @ + 1]
    /\ cache' = {entry \in cache : entry.tenant # mutation.tenant}
    /\ UNCHANGED <<today, mutations, tables, generation, asks>>

\* ... or of everyone.
InvalidateAll(mutation) ==
    /\ mutation \in untold /\ mutation.table = "withdrawals"
    /\ untold' = untold \ {mutation}
    /\ generation' = generation + 1
    /\ cache' = {}
    /\ UNCHANGED <<today, mutations, tables, tenantGenerations, asks>>

-----------------------------------------------------------------------------
(* The requests.                                                           *)

\* Mutant: telling of one tenant is not compared, only telling of everyone.
GenerationOfAll(t) == <<generation, 0>>

\* What a computation for the tenant compares before it keeps its answer.
GenerationOf(t) == <<generation, tenantGenerations[t]>>

\* Whether an answer may still be given at a moment: one capped at a date is gone on it.
IsFresh(entry, moment) == entry.until > moment

\* An answer kept is given, and the request is over: nothing changes but which answer
\* was used last.
AskAnswered(a, t) ==
    /\ asks[a].place = 0
    /\ \E entry \in cache : entry.tenant = t /\ IsFresh(entry, today)
    /\ UNCHANGED entitlementVars

\* None is kept, or none any more: what it is computed for and against is read before
\* the first table.
AskToCompute(a, t) ==
    /\ asks[a].place = 0
    /\ \A entry \in cache : entry.tenant = t => ~IsFresh(entry, today)
    /\ cache' = {entry \in cache : entry.tenant # t}
    /\ asks' = [asks EXCEPT ![a] = [place |-> 1, tenant |-> t, at |-> today,
                                    startedAt |-> GenerationOf(t), rows |-> NoRows]]
    /\ UNCHANGED <<today, mutations, tables, untold, generation, tenantGenerations>>

ReadTable(a) ==
    LET ask == asks[a]
    IN  /\ ask.place \in 1 .. 4
        /\ asks' = [asks EXCEPT
                       ![a].place = @ + 1,
                       ![a].rows[Reads[ask.place]] = tables[ask.tenant][Reads[ask.place]]]
        /\ UNCHANGED <<today, mutations, tables, untold, cache, generation, tenantGenerations>>

\* Mutant: the ends of the bookings are not watched.
ComingDatesUnbooked(rows, moment) ==
    {date \in Dates :
        date > moment /\ \E table \in Tables \ {"bookings"} : date \in rows[table].watched}

\* The watched dates still to come at a moment, in all the rows an answer is computed from.
ComingDates(rows, moment) ==
    {date \in Dates : date > moment /\ \E table \in Tables : date \in rows[table].watched}

\* An answer is kept for a while, and no longer than to the first date to come.
IsKeptUntil(until, rows, moment) ==
    LET ends == ComingDates(rows, moment) \union {moment + TimeToLive}
    IN  until \in ends /\ \A end \in ends : until <= end

\* Mutant: nothing is dropped where there are too many.
WriteCacheUnbounded(entry) ==
    cache' = {other \in cache : other.tenant # entry.tenant} \union {entry}

\* Another answer of the tenant goes, and so do those used least recently where there
\* are too many.  Which they are is left open.
WriteCache(entry) ==
    LET others == {other \in cache : other.tenant # entry.tenant}
    IN  \E kept \in SUBSET others :
            /\ \/ kept = others /\ Cardinality(others) < MaxEntries
               \/ Cardinality(others) >= MaxEntries /\ Cardinality(kept) = MaxEntries - 1
            /\ cache' = kept \union {entry}

\* The answer is given, and kept where the cache was told nothing meanwhile.
Answer(a) ==
    LET ask == asks[a]
    IN  /\ ask.place = 5
        /\ \/ /\ GenerationOf(ask.tenant) = ask.startedAt
              /\ \E until \in 0 .. LastDate + TimeToLive :
                    /\ IsKeptUntil(until, ask.rows, ask.at)
                    /\ WriteCache([tenant |-> ask.tenant, at |-> ask.at, until |-> until,
                                   rows |-> ask.rows])
           \/ GenerationOf(ask.tenant) # ask.startedAt /\ UNCHANGED cache
        /\ asks' = [asks EXCEPT ![a] = Idle]
        /\ UNCHANGED <<today, mutations, tables, untold, generation, tenantGenerations>>

TomorrowComes ==
    /\ today < LastDate /\ today' = today + 1
    /\ UNCHANGED <<mutations, tables, untold, cache, generation, tenantGenerations, asks>>

EntitlementNext ==
    \/ \E t \in Tenants, table \in Tables, watched, unwatched \in SUBSET Dates :
        Mutate(t, table, watched, unwatched)
    \/ \E mutation \in untold : InvalidateTenant(mutation) \/ InvalidateAll(mutation)
    \/ \E a \in Askers :
        \/ \E t \in Tenants : AskAnswered(a, t) \/ AskToCompute(a, t)
        \/ ReadTable(a) \/ Answer(a)
    \/ TomorrowComes

EntitlementSpec == EntitlementInit /\ [][EntitlementNext]_entitlementVars

-----------------------------------------------------------------------------
(* Properties.                                                             *)

\* What the rows grant at a moment: the versions, and which of their dates have passed.
Granted(rows, moment) ==
    [table \in Tables |->
        [version |-> rows[table].version,
         passed |-> {date \in rows[table].watched \union rows[table].unwatched : date <= moment}]]

\* The cache was told of every change of the tenant's rows.
AllTold(t) == \A mutation \in untold : t \notin Reached(mutation)

\* A date nothing watches has passed since the moment of an answer.
UnwatchedPassed(entry) ==
    \E table \in Tables : \E date \in entry.rows[table].unwatched :
        entry.at < date /\ date <= today

\* An answer the cache would give, once it was told of every change of the tenant's
\* rows, grants what one computed now would: computing takes several reads, changes
\* and dates pass between them, and neither may leave an answer behind that is kept.
\* Only the day of a booked plan change and the bounds of a contract's window may pass
\* unseen, and for less than the time to live.  What is published in the catalog is
\* no change of a row (computeLimits, invalidateTenant, writeCache).
AsComputedUnlessUnwatched ==
    \A entry \in cache :
        IsFresh(entry, today) /\ AllTold(entry.tenant) =>
            /\ today < entry.at + TimeToLive
            /\ \/ Granted(entry.rows, entry.at) = Granted(tables[entry.tenant], today)
               \/ UnwatchedPassed(entry)
=============================================================================
