----------------------------- MODULE TableSetup -----------------------------
(***************************************************************************)
(* Setting a table up: create_table, add_table_version, update_table_meta, *)
(* create_column_family and read_table_meta of src/kvdbclient/base.py and  *)
(* of the three clients.                                                   *)
(*                                                                         *)
(* None of these is one request.  create_table asks whether the table      *)
(* exists, creates it, creates its families, reads the version, writes the *)
(* version and writes the meta; an overwriting update_table_meta deletes   *)
(* the meta row and then writes it.  A call is therefore a small program   *)
(* with a program counter, and an action is one request, handled by the    *)
(* server.  Any request may raise, with or without having been handled,    *)
(* and a client may crash at any point.  A put of HBase that timed out is  *)
(* sent again, and the first one may be handled later.                     *)
(*                                                                         *)
(* A version and a meta are known by the call that wrote them.  Bigtable's *)
(* and VAST's cells carry the time stamp of the client that wrote them,    *)
(* and the clocks of two clients are not related; HBase's carry the time   *)
(* of their arrival.                                                       *)
(***************************************************************************)
EXTENDS Integers, FiniteSets, Sequences

CONSTANTS
    Clients,          \* processes with a client of this table
    Backends,         \* among "bigtable", "hbase" and "vast"
    DefaultFamilies,  \* DEFAULT_COLUMN_FAMILIES, in their order
    MetaFamily,       \* the one of the version and the meta
    NewFamilies,      \* families that create_column_family makes
    GivenFamilies,    \* sets of families, of the metas that clients are made
                      \* with: a bound for TLC
    NoFamily,         \* no family
    NoValue,          \* no version or meta
    MaxCalls,         \* bound on the calls made
    MaxTime,          \* bound on time stamps
    MaxLate           \* bound on puts that are still to be handled

Defaults == {DefaultFamilies[i] : i \in 1..Len(DefaultFamilies)}
Families == Defaults \cup NewFamilies

ASSUME TableConstants ==
    /\ Backends \subseteq {"bigtable", "hbase", "vast"}
    /\ DefaultFamilies \in Seq(Defaults)
    /\ MetaFamily \in Defaults
    /\ NoFamily \notin Families
    /\ GivenFamilies \subseteq SUBSET Families
    /\ MaxCalls \in Nat /\ MaxTime \in Nat \ {0} /\ MaxLate \in Nat

VARIABLES
    backend,   \* the backend of the table
    exists,    \* has the table been created
    families,  \* its column families (those of VAST are a part of the meta)
    versions,  \* what the version row holds; nothing deletes from it
    metas,     \* the cells of the meta row
    late,      \* puts that timed out and may still be handled
    call,      \* client -> the call in progress, or NoCall
    cached,    \* client -> _table_meta
    calls,     \* number of calls made
    created,   \* history: a create_table returned, having created the table
    stored,    \* history: metas that were written to the table
    torn,      \* history: an overwriting update stopped after its delete
    lone       \* history: the last call, when no other one overlapped with it

table   == <<exists, families, versions, metas, late>>
history == <<created, stored, torn, lone>>
vars    == <<backend, table, call, cached, calls, history>>

Operations == {"create_table", "add_table_version", "update_table_meta",
               "create_column_family"}
\* A meta is a dict or an object of the application; only a dict has families.
Values == [n : 1..MaxCalls, by : Clients, op : Operations, fams : SUBSET Families,
           dict : BOOLEAN]
\* The metas that constructors are given, from wherever the caller has them.
Given  == [n : {0}, by : Clients, op : {"given"}, fams : GivenFamilies, dict : BOOLEAN]
Cells  == [val : Values, ts : 1..MaxTime]
Puts   == [row : {"version", "meta"}, val : Values]
PCs    == {"idle", "exists", "create", "families", "check", "version",
           "delete", "meta", "family"}
NoCall == [pc |-> "idle", val |-> NoValue, over |-> FALSE, next |-> 1, family |-> NoFamily]
Calls  == [pc : PCs,
           val : Values \cup {NoValue},  \* the version and the meta of the call
           over : BOOLEAN,               \* overwrite
           next : 1..(Len(DefaultFamilies) + 1),  \* the next family to create
           family : NewFamilies \cup {NoFamily}]
Lone   == [n : 1..MaxCalls, op : Operations, families : SUBSET Families, done : BOOLEAN]
NotLone == [n |-> 0, op |-> "create_table", families |-> {}, done |-> FALSE]

\* The kinds of metas, which only the client of VAST looks at.
Kinds == IF backend = "vast" THEN BOOLEAN ELSE {TRUE}

\* The table_meta of a constructor.
TableMetas(c) == {NoValue} \cup {m \in Given : m.by = c /\ m.dict \in Kinds}

Init ==
    /\ backend \in Backends
    /\ exists = FALSE
    /\ families = {}
    /\ versions = {}
    /\ metas = {}
    /\ late = {}
    /\ call = [c \in Clients |-> NoCall]
    /\ cached \in {f \in [Clients -> UNION {TableMetas(c) : c \in Clients}] :
                     \A c \in Clients : f[c] \in TableMetas(c)}
    /\ calls = 0
    /\ created = FALSE /\ stored = {} /\ torn = FALSE
    /\ lone = NotLone

\* The metas a read may find first: the newest ones, and VAST keeps several
\* cells of one time stamp.
Newest(cells) == {m.val : m \in {d \in cells : \A e \in cells : e.ts <= d.ts}}

\* The families that every reader of the table finds, whichever of the newest
\* metas it reads.
FamiliesNow ==
    IF backend = "vast"
    THEN {f \in Families : metas # {} /\ \A v \in Newest(metas) : f \in v.fams}
    ELSE families

-----------------------------------------------------------------------------
(* The course of a call.                                                   *)

\* A call can be compared with what it should do when no other one overlaps
\* with it, when its meta cannot lose to an older one with a later time stamp,
\* and when VAST has a meta to keep a new family in: a dict.
Decisive(c, op, overwrite) ==
    /\ \A d \in Clients \ {c} : call[d] = NoCall
    /\ late = {}
    /\ IF op = "create_column_family"
       THEN backend = "vast" => metas # {} /\ \A v \in Newest(metas) : v.dict
       ELSE overwrite \/ backend = "hbase" \/ \A m \in metas : m.val.by = c

Begin(c, op, pc, overwrite, family, fams, dict) ==
    /\ call[c] = NoCall /\ calls < MaxCalls
    /\ calls' = calls + 1
    /\ call' = [call EXCEPT ![c] =
            [pc |-> pc, over |-> overwrite, next |-> 1, family |-> family,
             val |-> [n |-> calls + 1, by |-> c, op |-> op, fams |-> fams, dict |-> dict]]]
    /\ lone' = IF Decisive(c, op, overwrite)
               THEN [n |-> calls + 1, op |-> op, done |-> FALSE,
                     families |-> IF op = "create_column_family"
                                  THEN FamiliesNow \cup {family} ELSE {}]
               ELSE NotLone
    /\ UNCHANGED <<backend, table, created, stored, torn>>

\* In the following, the request has fixed the new state of the table.
Goto(c, next) ==
    /\ call' = [call EXCEPT ![c] = next]
    /\ torn' = (torn /\ metas' = {})
    /\ UNCHANGED <<created, lone>>

At(c, pc) == [call[c] EXCEPT !.pc = pc]

Return(c) ==
    /\ call' = [call EXCEPT ![c] = NoCall]
    /\ created' = (created \/ call[c].val.op = "create_table")
    /\ lone' = IF lone.n = call[c].val.n THEN [lone EXCEPT !.done = TRUE] ELSE lone
    /\ torn' = (torn /\ metas' = {})

\* The call ends without having done what it is for.
Stop(c) ==
    /\ call' = [call EXCEPT ![c] = NoCall]
    /\ lone' = IF lone.n = call[c].val.n THEN NotLone ELSE lone
    /\ torn' = (metas' = {} /\ (torn \/ (call[c].over /\ call[c].pc \in {"delete", "meta"})))
    /\ UNCHANGED created

\* The request was handled; the call goes on, with this value of _table_meta,
\* or the answer is lost and the call raises.
Answered(c, next, meta) ==
    \/ Goto(c, next) /\ cached' = [cached EXCEPT ![c] = meta]
    \/ Stop(c) /\ UNCHANGED cached

\* The request raises and changes nothing.
Refused(c) ==
    /\ UNCHANGED <<table, cached, stored>>
    /\ Stop(c)

-----------------------------------------------------------------------------
(* create_table.                                                           *)

\* Definitions marked "Wrong:" are faults the checks must notice; nothing uses them.
\* Wrong: _table_meta is assigned before anything is known of the table.
create_table_assigning(c) ==
    /\ Begin(c, "create_table", IF backend = "vast" THEN "create" ELSE "exists",
             FALSE, NoFamily, {}, TRUE)
    /\ cached' = [cached EXCEPT ![c] = call'[c].val]

create_table(c) ==
    /\ \E dict \in Kinds :
            Begin(c, "create_table", IF backend = "vast" THEN "create" ELSE "exists",
                  FALSE, NoFamily, {}, dict)
    /\ UNCHANGED cached

\* exists() of Bigtable; GET /schema of HBase, where every other status than
\* 200 is taken to say that there is no table.
TableExists(c) ==
    /\ call[c].pc = "exists"
    /\ \/ exists /\ Refused(c)
       \/ /\ ~exists \/ backend = "hbase"
          /\ UNCHANGED <<table, stored>>
          /\ Answered(c, At(c, "create"), cached[c])
    /\ UNCHANGED <<backend, calls>>

\* create() of Bigtable makes a table without families.
CreateBigtable(c) ==
    /\ backend = "bigtable" /\ ~exists
    /\ exists' = TRUE
    /\ UNCHANGED <<families, versions, metas, late, stored>>
    /\ Answered(c, At(c, "families"), cached[c])

\* PUT /schema of HBase replaces the schema of a table that exists.
CreateHBase(c) ==
    /\ backend = "hbase"
    /\ exists' = TRUE /\ families' = Defaults
    /\ UNCHANGED <<versions, metas, late, stored>>
    /\ Answered(c, At(c, "check"), cached[c])

\* Wrong: fail_if_exists unset, without a look at what it found.
CreateVastAlways(c) ==
    /\ backend = "vast"
    /\ exists' = TRUE
    /\ UNCHANGED <<families, versions, metas, late, stored>>
    /\ Answered(c, At(c, "check"), cached[c])

\* One transaction of VAST.
CreateVast(c) ==
    /\ backend = "vast" /\ ~exists
    /\ exists' = TRUE
    /\ UNCHANGED <<families, versions, metas, late, stored>>
    /\ Answered(c, At(c, "check"), cached[c])

\* A table that exists is refused by Bigtable; by VAST too or, when
\* fail_if_exists is unset, it is left as it is.
CreateTable(c) ==
    /\ call[c].pc = "create"
    /\ \/ CreateBigtable(c) \/ CreateHBase(c) \/ CreateVast(c)
       \/ exists /\ backend # "hbase" /\ Refused(c)
    /\ UNCHANGED <<backend, calls>>

\* _create_column_families of Bigtable: one request for each family.
CreateNextFamily(c) ==
    LET i == call[c].next
        f == DefaultFamilies[i]
    IN  /\ call[c].pc = "families"
        /\ \/ f \in families /\ Refused(c)
           \/ /\ f \notin families /\ families' = families \cup {f}
              /\ UNCHANGED <<exists, versions, metas, late, stored>>
              /\ Answered(c, IF i = Len(DefaultFamilies) THEN At(c, "check")
                             ELSE [call[c] EXCEPT !.next = i + 1], cached[c])
        /\ UNCHANGED <<backend, calls>>

-----------------------------------------------------------------------------
(* The version and the meta.                                               *)

\* The other calls are made on a table that exists.
add_table_version(c, overwrite) ==
    /\ exists
    /\ Begin(c, "add_table_version", IF overwrite THEN "version" ELSE "check",
             overwrite, NoFamily, {}, TRUE)
    /\ UNCHANGED cached

\* Wrong: the meta is deleted, whether overwrite is set or not.
update_table_meta_deleting(c, overwrite) ==
    /\ exists
    /\ Begin(c, "update_table_meta", "delete", overwrite, NoFamily, {}, TRUE)
    /\ UNCHANGED cached

\* A caller's meta is a new one, or the one it has with a change: then it is of
\* that kind and has the families of that one.
update_table_meta(c, overwrite) ==
    /\ exists
    /\ \E like \in {[fams |-> {}, dict |-> dict] : dict \in Kinds} \cup ({cached[c]} \ {NoValue}) :
            Begin(c, "update_table_meta", IF overwrite THEN "delete" ELSE "meta",
                  overwrite, NoFamily, like.fams, like.dict)
    /\ cached' = IF overwrite THEN cached ELSE [cached EXCEPT ![c] = call'[c].val]

\* assert self.read_table_version() is None
CheckVersion(c) ==
    /\ call[c].pc = "check"
    /\ \/ versions # {} /\ Refused(c)
       \/ /\ versions = {}
          /\ UNCHANGED <<table, stored>>
          /\ Answered(c, At(c, "version"), cached[c])
    /\ UNCHANGED <<backend, calls>>

\* The cell replaces one of the same time stamp, except in VAST.
Put(val, ts) ==
    metas' = {m \in metas : backend = "vast" \/ m.ts # ts} \cup {[val |-> val, ts |-> ts]}

\* Wrong: the time stamp 0 of a cell that was given none.
StampsFromZero(c) == 0..MaxTime

\* HBase stamps a cell when it arrives; the other clients stamp it, each with
\* a clock of its own.
Stamps(c) == {t \in 1..MaxTime : \A m \in metas :
                IF backend = "hbase" THEN m.ts <= t ELSE m.val.by = c => m.ts < t}

\* Bigtable refuses a put to a family that it does not have.
Writable == exists /\ (backend = "bigtable" => MetaFamily \in families)

\* Wrong: create_table returns without writing the meta.
WriteVersionOnly(c) ==
    /\ call[c].pc = "version" /\ Writable
    /\ versions' = versions \cup {call[c].val}
    /\ UNCHANGED <<exists, families, metas, late, stored>>
    /\ (Return(c) \/ Stop(c)) /\ UNCHANGED cached
    /\ UNCHANGED <<backend, calls>>

WriteVersion(c) ==
    /\ call[c].pc = "version" /\ Writable
    /\ versions' = versions \cup {call[c].val}
    /\ UNCHANGED <<exists, families, metas, late, stored>>
    /\ IF call[c].val.op = "create_table"
       THEN Answered(c, At(c, "meta"), call[c].val)   \* _table_meta = meta
       ELSE (Return(c) \/ Stop(c)) /\ UNCHANGED cached
    /\ UNCHANGED <<backend, calls>>

\* Wrong: nothing is deleted.
DeleteMetaSkipped(c) ==
    /\ call[c].pc = "delete"
    /\ UNCHANGED <<table, stored>>
    /\ Answered(c, At(c, "meta"), call[c].val)
    /\ UNCHANGED <<backend, calls>>

\* _delete_meta.  HBase's does not look at the status of the answer.
DeleteMeta(c) ==
    /\ call[c].pc = "delete" /\ Writable
    /\ metas' = {} \/ (backend = "hbase" /\ UNCHANGED metas)
    /\ UNCHANGED <<exists, families, versions, late, stored>>
    /\ Answered(c, At(c, "meta"), call[c].val)        \* _table_meta = meta
    /\ UNCHANGED <<backend, calls>>

WriteMeta(c) ==
    /\ call[c].pc = "meta" /\ Writable
    /\ \E ts \in Stamps(c) : Put(call[c].val, ts)
    /\ stored' = stored \cup {call[c].val}
    /\ UNCHANGED <<exists, families, versions, late>>
    /\ Return(c) \/ Stop(c)
    /\ UNCHANGED <<backend, cached, calls>>

\* _put_rows_with_retry of HBase: an attempt timed out, and was handled or may
\* still be; the put is sent again, or it was the last attempt.
TimeOut(c) ==
    /\ backend = "hbase" /\ call[c].pc \in {"version", "meta"}
    /\ Cardinality(late) < MaxLate
    /\ late' = late \cup {[row |-> call[c].pc, val |-> call[c].val]}
    /\ UNCHANGED <<exists, families, versions, metas>>
    /\ Goto(c, call[c]) \/ Stop(c)
    /\ UNCHANGED <<backend, cached, calls, stored>>

ServeLate ==
    \E p \in late :
        /\ late' = late \ {p}
        /\ \/ /\ p.row = "version" /\ versions' = versions \cup {p.val}
              /\ UNCHANGED <<metas, stored>>
           \/ /\ p.row = "meta" /\ stored' = stored \cup {p.val}
              /\ \E ts \in Stamps(p.val.by) : Put(p.val, ts)
              /\ UNCHANGED versions
        /\ torn' = (torn /\ metas' = {})
        /\ UNCHANGED <<backend, exists, families, call, cached, calls, created, lone>>

\* What a read of the meta row gives.
MetasRead == IF metas = {} THEN {NoValue} ELSE Newest(metas)

\* A caller's read, or the one of the layer count of root_ext when the client has
\* no meta.
read_table_meta(c) ==
    /\ exists /\ call[c] = NoCall
    /\ \E v \in MetasRead : cached' = [cached EXCEPT ![c] = v]
    /\ UNCHANGED <<backend, table, call, calls, history>>

-----------------------------------------------------------------------------
(* create_column_family.                                                   *)

create_column_family(c) ==
    /\ exists
    /\ \E f \in NewFamilies :
            Begin(c, "create_column_family", "family", TRUE, f, {}, TRUE)
    /\ UNCHANGED cached

FamilyBigtable(c) ==
    /\ backend = "bigtable"
    /\ \/ call[c].family \in families /\ Refused(c)
       \/ /\ call[c].family \notin families
          /\ families' = families \cup {call[c].family}
          /\ UNCHANGED <<exists, versions, metas, late, cached, stored>>
          /\ Return(c) \/ Stop(c)

\* PUT /schema with a schema of this family alone, which replaces the other.
FamilyHBase(c) ==
    /\ backend = "hbase"
    /\ families' = {call[c].family}
    /\ UNCHANGED <<exists, versions, metas, late, cached, stored>>
    /\ Return(c) \/ Stop(c)

\* VAST keeps the families in the meta: it is read, and written back with an
\* overwriting update.  Without a meta, or with one that is not a dict, the call
\* returns and nothing is done.
FamilyVast(c) ==
    /\ backend = "vast"
    /\ UNCHANGED <<table, stored>>
    /\ \/ \E v \in MetasRead :
             /\ metas # {} => ~v.dict
             /\ Return(c) /\ cached' = [cached EXCEPT ![c] = v]
       \/ \E v \in Newest(metas) :
             /\ v.dict
             /\ Answered(c, [At(c, "delete") EXCEPT
                               !.val.fams = v.fams \cup {call[c].family}], v)

CreateFamily(c) ==
    /\ call[c].pc = "family"
    /\ FamilyBigtable(c) \/ FamilyHBase(c) \/ FamilyVast(c)
    /\ UNCHANGED <<backend, calls>>

-----------------------------------------------------------------------------
(* Failures, and the next-state relation.                                  *)

\* A request raises without having been handled.
Raise(c) ==
    /\ call[c] # NoCall
    /\ Refused(c)
    /\ UNCHANGED <<backend, calls>>

\* The process ends; another one starts with a new client, and may have a meta
\* for it.
Crash(c) ==
    /\ UNCHANGED <<backend, table, calls, stored>>
    /\ IF call[c] = NoCall THEN UNCHANGED <<call, created, torn, lone>> ELSE Stop(c)
    /\ \E m \in TableMetas(c) : cached' = [cached EXCEPT ![c] = m]

Call(c) ==
    \/ create_table(c)
    \/ \E overwrite \in BOOLEAN :
          add_table_version(c, overwrite) \/ update_table_meta(c, overwrite)
    \/ create_column_family(c)
    \/ read_table_meta(c)

Request(c) ==
    \/ TableExists(c) \/ CreateTable(c) \/ CreateNextFamily(c)
    \/ CheckVersion(c) \/ WriteVersion(c)
    \/ DeleteMeta(c) \/ WriteMeta(c) \/ TimeOut(c)
    \/ CreateFamily(c)

Next ==
    \/ \E c \in Clients : Call(c) \/ Request(c) \/ Raise(c) \/ Crash(c)
    \/ ServeLate

Spec == Init /\ [][Next]_vars

-----------------------------------------------------------------------------
(* What the set-up promises.                                               *)

\* Every variable has its type.
TypeOK ==
    /\ backend \in Backends
    /\ exists \in BOOLEAN
    /\ families \subseteq Families
    /\ versions \subseteq Values
    /\ metas \subseteq Cells
    /\ late \subseteq Puts
    /\ call \in [Clients -> Calls]
    /\ cached \in [Clients -> Values \cup Given \cup {NoValue}]
    /\ calls \in 0..MaxCalls
    /\ created \in BOOLEAN /\ stored \subseteq Values /\ torn \in BOOLEAN
    /\ lone \in Lone \cup {NotLone}

\* A create_table that returned leaves a table with a version and a meta, and
\* in Bigtable with all its families: every earlier request of it was handled.
CreatedComplete ==
    created =>
        /\ exists /\ versions # {} /\ stored # {}
        /\ backend = "bigtable" => Defaults \subseteq families

\* The version and the meta that create_table calls wrote are those of one
\* call, however many clients create the table at once, in Bigtable and VAST,
\* where the server lets one of them through.  (In HBase both get through.)
OneCreator ==
    backend # "hbase" =>
        \A v, w \in versions \cup stored :
            v.op = "create_table" /\ w.op = "create_table" => v = w

\* A table that had a meta is without one only while an overwriting update is
\* between its two requests, or after one that stopped there.
MetaSurvives ==
    stored # {} =>
        metas # {} \/ torn \/ \E c \in Clients : call[c].pc = "meta" /\ call[c].over

\* A call that returned, with no other one at the same time, did what it is for:
\* the meta of create_table and update_table_meta is the newest, whatever the
\* clocks of those who wrote the older ones, and create_column_family
\* adds its family to those that the table had, where VAST has a dict to keep it
\* in (with another meta its call returns without effect, vast/client.py:188).
LoneCallTakesEffect ==
    lone.done =>
        /\ lone.op \in {"create_table", "update_table_meta"} =>
              \A v \in Newest(metas) : v.n = lone.n
        /\ backend # "hbase" => lone.families \subseteq FamiliesNow

\* base.py: "Create a column family on the table."  The families that the table
\* has stay; this is what create_column_family of HBase does not do.
NewFamilyKeepsOthers ==
    lone.done /\ lone.op = "create_column_family" => lone.families \subseteq FamiliesNow

\* A client takes a meta over only from the table, from the caller of its
\* constructor, or from a write of its own of which nothing but the put of the
\* meta is left to do: in create_table the table is there, with the version of
\* the call; in an overwriting update the old metas are gone (except in HBase,
\* which does not look at the answer of the delete).  A create_table that is
\* refused or raises before that leaves the client with the meta it had.
\* (base.py:79, 254, 264)
TakesOver(c) ==
    LET meta == cached'[c] IN
    \/ exists' /\ meta \in MetasRead'
    \/ call'[c] = NoCall /\ meta \in TableMetas(c)
    \/ /\ exists' /\ call'[c].pc = "meta" /\ meta = call'[c].val
       /\ meta.op = "create_table" => meta \in versions'
       /\ call'[c].over /\ backend # "hbase" => metas' = {}

MetaTakenOver ==
    [][\A c \in Clients : cached'[c] # cached[c] => TakesOver(c)]_vars
=============================================================================
