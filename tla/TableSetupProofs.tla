-------------------------- MODULE TableSetupProofs --------------------------
(***************************************************************************)
(* Proofs about TableSetup, for every set of clients, backends and         *)
(* families and every bound.                                               *)
(***************************************************************************)
EXTENDS TableSetup, TLAPS

-----------------------------------------------------------------------------
(* The inductive invariants.                                               *)

\* A call in progress is one that its operation makes, and knows who made it.
Program(c, k) ==
    k # NoCall =>
        /\ k.pc # "idle" /\ k.val \in Values /\ k.val.by = c
        /\ k.pc \in {"exists", "create", "families"} => k.val.op = "create_table"
        /\ k.pc \in {"exists", "create"} => k.next = 1
        /\ k.pc \in {"check", "version"} => k.val.op \in {"create_table", "add_table_version"}
        /\ k.pc = "family" => k.val.op = "create_column_family" /\ k.family \in NewFamilies
        /\ k.pc = "delete" => k.over /\ k.val.op \in {"update_table_meta", "create_column_family"}
        /\ k.pc = "meta" => k.val.op # "add_table_version"
        /\ k.pc = "families" => backend = "bigtable" /\ k.next <= Len(DefaultFamilies)
        /\ k.val.op = "create_table" => ~k.over
        /\ k.val.op = "create_column_family" =>
              k.over /\ (k.pc \in {"delete", "meta"} => backend = "vast")

SetupInv == TypeOK /\ \A c \in Clients : Program(c, call[c])

\* What a create_table has done before the request it is at.
Progress(k) ==
    k # NoCall /\ k.val.op = "create_table" =>
        /\ k.pc \in {"families", "check", "version", "meta"} => exists
        /\ k.pc = "families" => \A i \in 1..(k.next - 1) : DefaultFamilies[i] \in families
        /\ k.pc \in {"check", "version", "meta"} /\ backend = "bigtable"
           => Defaults \subseteq families
        /\ k.pc = "meta" => versions # {}

CompleteInv == CreatedComplete /\ \A c \in Clients : Progress(call[c])

\* The values of the create_table calls that the server let through.
Creating(c) ==
    /\ call[c] # NoCall /\ call[c].val.op = "create_table"
    /\ call[c].pc \in {"families", "check", "version", "meta"}
Creations ==
    {v \in versions \cup stored : v.op = "create_table"}
        \cup {call[c].val : c \in {d \in Clients : Creating(d)}}

CreatorInv ==
    backend # "hbase" =>
        /\ late = {}
        /\ \A v, w \in Creations : v = w
        /\ ~exists => Creations = {}

\* What a client may have as its meta.
Metas == Values \cup Given \cup {NoValue}

\* A client that makes a family has a table to make it in.
FamilyInv == \A c \in Clients : call[c].pc = "family" => exists

\* While a call is compared with what it should do, there is no other call, and
\* no late put but its own.  At the request that writes its meta there is no
\* meta left that could hide it, and the families it has to keep are in the
\* table or in the meta it is going to write.
LoneCall(c) ==
    LET k == call[c] IN
    k # NoCall =>
        /\ ~lone.done /\ k.val.n = lone.n /\ k.val.op = lone.op
        /\ \A d \in Clients \ {c} : call[d] = NoCall
        /\ backend # "hbase" =>
              /\ lone.op \in {"create_table", "update_table_meta"} /\ ~k.over
                 => \A m \in metas : m.val.by = c
              /\ k.over /\ k.pc = "meta" => metas = {}
              /\ k.pc = "family" =>
                    /\ lone.families \subseteq FamiliesNow \cup {k.family}
                    /\ backend = "vast" => metas # {} /\ \A v \in Newest(metas) : v.dict
              /\ k.pc \in {"delete", "meta"} => lone.families \subseteq k.val.fams

LoneInv ==
    /\ LoneCallTakesEffect
    /\ lone.op # "create_column_family" => lone.families = {}
    /\ lone.n # 0 =>
          /\ \A p \in late : p.val.n = lone.n
          /\ \A c \in Clients : LoneCall(c)

-----------------------------------------------------------------------------
(* How a step changes the call.                                            *)

\* The call of one client is now k; the others go on as they were.
SetsCall(c, k) ==
    /\ call' = [call EXCEPT ![c] = k]
    /\ call'[c] = k
    /\ \A d \in Clients \ {c} : call'[d] = call[d]

LEMMA SetCall ==
    ASSUME call \in [Clients -> Calls], NEW c \in Clients, NEW k,
           call' = [call EXCEPT ![c] = k]
    PROVE  SetsCall(c, k)
BY DEF SetsCall

LEMMA CallFields ==
    ASSUME NEW k \in Calls
    PROVE  /\ k.pc \in PCs /\ k.val \in Values \cup {NoValue} /\ k.over \in BOOLEAN
           /\ k.next \in 1..(Len(DefaultFamilies) + 1)
           /\ k.family \in NewFamilies \cup {NoFamily}
BY DEF Calls

LEMMA ValueFields ==
    ASSUME NEW v \in Values
    PROVE  /\ v.n \in 1..MaxCalls /\ v.by \in Clients /\ v.op \in Operations
           /\ v.fams \in SUBSET Families /\ v.dict \in BOOLEAN
BY DEF Values

LEMMA DefaultsLen == Len(DefaultFamilies) \in Nat /\ Len(DefaultFamilies) >= 1
<1>1. DefaultFamilies \in Seq(Defaults) /\ MetaFamily \in Defaults
  BY TableConstants
<1>2. Len(DefaultFamilies) \in Nat
  BY <1>1
<1>3. \E i \in 1..Len(DefaultFamilies) : MetaFamily = DefaultFamilies[i]
  BY <1>1 DEF Defaults
<1> QED BY <1>2, <1>3

LEMMA NoCallIsCall == NoCall \in Calls
<1>1. 1 \in 1..(Len(DefaultFamilies) + 1)
  BY DefaultsLen
<1> QED BY <1>1 DEF NoCall, Calls, PCs

\* The next request of a call, with the fields it keeps.
LEMMA AtFields ==
    ASSUME call \in [Clients -> Calls], NEW c \in Clients, NEW pc \in PCs
    PROVE  /\ At(c, pc) \in Calls
           /\ At(c, pc).pc = pc /\ At(c, pc).val = call[c].val
           /\ At(c, pc).over = call[c].over /\ At(c, pc).next = call[c].next
           /\ At(c, pc).family = call[c].family
<1> DEFINE k == call[c]
<1>1. k \in Calls
  OBVIOUS
<1>2. At(c, pc) = [k EXCEPT !.pc = pc]
  BY DEF At
<1> HIDE DEF k
<1>3. [k EXCEPT !.pc = pc] \in Calls
  BY <1>1 DEF Calls
<1>4. LET e == [k EXCEPT !.pc = pc]
      IN  e.pc = pc /\ e.val = k.val /\ e.over = k.over /\ e.next = k.next /\ e.family = k.family
  BY <1>1 DEF Calls
<1> QED BY <1>2, <1>3, <1>4 DEF k

\* Bigtable's next family.
LEMMA NextFamilyFields ==
    ASSUME call \in [Clients -> Calls], NEW c \in Clients,
           call[c].next <= Len(DefaultFamilies), call[c].next # Len(DefaultFamilies)
    PROVE  LET e == [call[c] EXCEPT !.next = call[c].next + 1]
           IN  /\ e \in Calls
               /\ e.pc = call[c].pc /\ e.val = call[c].val /\ e.over = call[c].over
               /\ e.next = call[c].next + 1 /\ e.family = call[c].family
<1> DEFINE k == call[c]
           i == call[c].next + 1
<1>1. k \in Calls
  OBVIOUS
<1>2. i \in 1..(Len(DefaultFamilies) + 1)
  BY CallFields, DefaultsLen
<1> HIDE DEF k, i
<1>3. [k EXCEPT !.next = i] \in Calls
  BY <1>1, <1>2 DEF Calls
<1>4. LET e == [k EXCEPT !.next = i]
      IN  e.pc = k.pc /\ e.val = k.val /\ e.over = k.over /\ e.next = i /\ e.family = k.family
  BY <1>1 DEF Calls
<1> QED BY <1>3, <1>4 DEF k, i

\* VAST's meta with the new family.
LEMMA NewFamilyFields ==
    ASSUME call \in [Clients -> Calls], NEW c \in Clients, call[c].val \in Values,
           call[c].family \in NewFamilies, NEW v \in Values
    PROVE  LET e == [At(c, "delete") EXCEPT !.val.fams = v.fams \cup {call[c].family}]
           IN  /\ e \in Calls
               /\ e.pc = "delete" /\ e.over = call[c].over
               /\ e.val \in Values /\ e.val.n = call[c].val.n /\ e.val.by = call[c].val.by
               /\ e.val.op = call[c].val.op
               /\ e.val.fams = v.fams \cup {call[c].family}
<1> DEFINE k == At(c, "delete")
           w == call[c].val
           fams == v.fams \cup {call[c].family}
<1>1. k \in Calls /\ k.pc = "delete" /\ k.over = call[c].over /\ k.val = w
  BY AtFields DEF PCs
<1>2. w \in Values /\ fams \in SUBSET Families
  BY ValueFields DEF Families
<1> HIDE DEF k, w, fams
<1>3. [w EXCEPT !.fams = fams] \in Values
  BY <1>2 DEF Values
<1>4. /\ [w EXCEPT !.fams = fams].n = w.n /\ [w EXCEPT !.fams = fams].by = w.by
      /\ [w EXCEPT !.fams = fams].op = w.op /\ [w EXCEPT !.fams = fams].fams = fams
  BY <1>2 DEF Values
<1> DEFINE u == [w EXCEPT !.fams = fams]
<1>5. [k EXCEPT !.val.fams = fams] = [k EXCEPT !.val = u]
  BY <1>1
<1> HIDE DEF u
<1>6. [k EXCEPT !.val = u] \in Calls
  BY <1>1, <1>3 DEF Calls, u
<1>7. /\ [k EXCEPT !.val = u].pc = "delete" /\ [k EXCEPT !.val = u].over = call[c].over
      /\ [k EXCEPT !.val = u].val = u
  BY <1>1 DEF Calls
<1> QED BY <1>3, <1>4, <1>5, <1>6, <1>7 DEF k, u, w, fams

-----------------------------------------------------------------------------
(* How a call goes on, returns or stops, client by client.                 *)

Goes(c, k) ==
    /\ SetsCall(c, k)
    /\ torn' = (torn /\ metas' = {})
    /\ UNCHANGED <<created, lone>>

Returns(c) ==
    /\ SetsCall(c, NoCall)
    /\ torn' = (torn /\ metas' = {})
    /\ created' = (created \/ call[c].val.op = "create_table")
    /\ lone' = IF lone.n = call[c].val.n THEN [lone EXCEPT !.done = TRUE] ELSE lone

Stops(c) ==
    /\ SetsCall(c, NoCall)
    /\ torn' = (metas' = {} /\ (torn \/ (call[c].over /\ call[c].pc \in {"delete", "meta"})))
    /\ lone' = IF lone.n = call[c].val.n THEN NotLone ELSE lone
    /\ UNCHANGED created

\* What all requests leave alone.
Kept == UNCHANGED <<backend, calls>>

\* The requests that raise, or that go on after a look at the table, and those
\* that change only the tables' existence and its families.
Refusal(c) == Refused(c) /\ Kept
Looks(c, from, to) ==
    /\ call[c].pc = from
    /\ UNCHANGED <<table, stored, cached>>
    /\ Goes(c, At(c, to)) \/ Stops(c)
    /\ Kept
Creates(c, to) ==
    /\ call[c].pc = "create" /\ exists' = TRUE
    /\ families' = families \/ (backend = "hbase" /\ families' = Defaults)
    /\ backend # "hbase" => ~exists
    /\ to = IF backend = "bigtable" THEN "families" ELSE "check"
    /\ UNCHANGED <<versions, metas, late, stored, cached>>
    /\ Goes(c, At(c, to)) \/ Stops(c)
    /\ Kept
AddsFamily(c) ==
    LET i == call[c].next
    IN  /\ call[c].pc = "families"
        /\ families' = families \cup {DefaultFamilies[i]}
        /\ UNCHANGED <<exists, versions, metas, late, stored, cached>>
        /\ \/ i = Len(DefaultFamilies) /\ Goes(c, At(c, "check"))
           \/ i # Len(DefaultFamilies) /\ Goes(c, [call[c] EXCEPT !.next = i + 1])
           \/ Stops(c)
        /\ Kept
MakesFamily(c) ==
    /\ call[c].pc = "family" /\ backend # "vast"
    /\ \/ backend = "bigtable" /\ families' = families \cup {call[c].family}
       \/ backend = "hbase" /\ families' = {call[c].family}
    /\ UNCHANGED <<exists, versions, metas, late, stored, cached>>
    /\ Returns(c) \/ Stops(c)
    /\ Kept
ReadsFamilies(c) ==
    /\ call[c].pc = "family" /\ backend = "vast"
    /\ UNCHANGED <<table, stored>>
    /\ \/ /\ Returns(c)
          /\ \E v \in MetasRead : (metas # {} => ~v.dict) /\ cached' = [cached EXCEPT ![c] = v]
       \/ Stops(c) /\ UNCHANGED cached
       \/ \E v \in Newest(metas) :
             /\ cached' = [cached EXCEPT ![c] = v]
             /\ Goes(c, [At(c, "delete") EXCEPT !.val.fams = v.fams \cup {call[c].family}])
    /\ Kept

\* The requests that write.
WritesVersion(c) ==
    /\ call[c].pc = "version" /\ exists
    /\ versions' = versions \cup {call[c].val}
    /\ UNCHANGED <<exists, families, metas, late, stored>>
    /\ \/ /\ call[c].val.op = "create_table"
          /\ Goes(c, At(c, "meta")) /\ cached' = [cached EXCEPT ![c] = call[c].val]
       \/ call[c].val.op # "create_table" /\ Returns(c) /\ UNCHANGED cached
       \/ Stops(c) /\ UNCHANGED cached
    /\ Kept
Deletes(c) ==
    /\ call[c].pc = "delete" /\ exists
    /\ metas' = {} \/ (backend = "hbase" /\ UNCHANGED metas)
    /\ UNCHANGED <<exists, families, versions, late, stored>>
    /\ \/ Goes(c, At(c, "meta")) /\ cached' = [cached EXCEPT ![c] = call[c].val]
       \/ Stops(c) /\ UNCHANGED cached
    /\ Kept
WritesMeta(c) ==
    /\ call[c].pc = "meta" /\ exists
    /\ \E ts \in Stamps(c) : Put(call[c].val, ts)
    /\ stored' = stored \cup {call[c].val}
    /\ UNCHANGED <<exists, families, versions, late, cached>>
    /\ Returns(c) \/ Stops(c)
    /\ Kept
TimesOut(c) ==
    /\ backend = "hbase" /\ call[c].pc \in {"version", "meta"}
    /\ late' = late \cup {[row |-> call[c].pc, val |-> call[c].val]}
    /\ UNCHANGED <<exists, families, versions, metas, cached, stored>>
    /\ Goes(c, call[c]) \/ Stops(c)
    /\ Kept

LEMMA EndForms ==
    ASSUME TypeOK, NEW c \in Clients
    PROVE  /\ \A k : Goto(c, k) => Goes(c, k)
           /\ Return(c) => Returns(c)
           /\ Stop(c) => Stops(c)
<1>0. call \in [Clients -> Calls]
  BY DEF TypeOK
<1>1. ASSUME NEW k, Goto(c, k) PROVE Goes(c, k)
  BY <1>0, <1>1, SetCall DEF Goto, Goes
<1>2. ASSUME Return(c) PROVE Returns(c)
  <2>1. SetsCall(c, NoCall)
    BY <1>0, <1>2, SetCall DEF Return
  <2> QED BY <1>2, <2>1 DEF Return, Returns
<1>3. ASSUME Stop(c) PROVE Stops(c)
  <2>1. SetsCall(c, NoCall)
    BY <1>0, <1>3, SetCall DEF Stop
  <2> QED BY <1>3, <2>1 DEF Stop, Stops
<1> QED BY <1>1, <1>2, <1>3

\* An answered request goes on or stops.
LEMMA AnsweredForm ==
    ASSUME TypeOK, NEW c \in Clients, NEW k, NEW m, Answered(c, k, m)
    PROVE  \/ Goes(c, k) /\ cached' = [cached EXCEPT ![c] = m]
           \/ Stops(c) /\ UNCHANGED cached
<1>1. CASE Goto(c, k) /\ cached' = [cached EXCEPT ![c] = m]
  BY <1>1, EndForms
<1>2. CASE Stop(c) /\ UNCHANGED cached
  BY <1>2, EndForms
<1> QED BY <1>1, <1>2 DEF Answered

LEMMA AnsweredSame ==
    ASSUME TypeOK, NEW c \in Clients, NEW k, Answered(c, k, cached[c])
    PROVE  (Goes(c, k) \/ Stops(c)) /\ UNCHANGED cached
<1>1. [cached EXCEPT ![c] = cached[c]] = cached
  BY DEF TypeOK
<1> QED BY <1>1, AnsweredForm

RequestForms(c) ==
    \/ Refusal(c)
    \/ Looks(c, "exists", "create")
    \/ Looks(c, "check", "version") /\ versions = {}
    \/ \E to \in PCs : Creates(c, to)
    \/ AddsFamily(c) \/ MakesFamily(c) \/ ReadsFamilies(c)
    \/ WritesVersion(c) \/ Deletes(c) \/ WritesMeta(c) \/ TimesOut(c)

LEMMA CreateForm ==
    ASSUME TypeOK, NEW c \in Clients, CreateTable(c)
    PROVE  Refusal(c) \/ \E to \in PCs : Creates(c, to)
<1>0. Kept /\ call[c].pc = "create"
  BY DEF CreateTable, Kept
<1> "families" \in PCs /\ "check" \in PCs
  BY DEF PCs
<1>1. CASE CreateBigtable(c)
  <2>1. (Goes(c, At(c, "families")) \/ Stops(c)) /\ UNCHANGED cached
    BY <1>1, AnsweredSame DEF CreateBigtable
  <2> QED BY <1>0, <1>1, <2>1 DEF CreateBigtable, Creates
<1>2. CASE CreateHBase(c)
  <2>1. (Goes(c, At(c, "check")) \/ Stops(c)) /\ UNCHANGED cached
    BY <1>2, AnsweredSame DEF CreateHBase
  <2> QED BY <1>0, <1>2, <2>1 DEF CreateHBase, Creates
<1>3. CASE CreateVast(c)
  <2>1. (Goes(c, At(c, "check")) \/ Stops(c)) /\ UNCHANGED cached
    BY <1>3, AnsweredSame DEF CreateVast
  <2> QED BY <1>0, <1>3, <2>1 DEF CreateVast, Creates
<1>4. CASE Refused(c)
  BY <1>0, <1>4 DEF Refusal
<1> QED BY <1>1, <1>2, <1>3, <1>4 DEF CreateTable

LEMMA NextFamilyForm ==
    ASSUME TypeOK, NEW c \in Clients, CreateNextFamily(c)
    PROVE  Refusal(c) \/ AddsFamily(c)
<1> DEFINE i == call[c].next
           k == IF i = Len(DefaultFamilies) THEN At(c, "check")
                ELSE [call[c] EXCEPT !.next = i + 1]
<1>0. Kept /\ call[c].pc = "families"
  BY DEF CreateNextFamily, Kept
<1>1. CASE Refused(c)
  BY <1>0, <1>1 DEF Refusal
<1>2. CASE ~Refused(c)
  <2>1. /\ families' = families \cup {DefaultFamilies[i]}
        /\ UNCHANGED <<exists, versions, metas, late, stored>>
        /\ Answered(c, k, cached[c])
    BY <1>2 DEF CreateNextFamily
  <2>2. (Goes(c, k) \/ Stops(c)) /\ UNCHANGED cached
    <3> HIDE DEF k
    <3> QED BY <2>1, AnsweredSame
  <2> QED BY <1>0, <2>1, <2>2 DEF AddsFamily
<1> QED BY <1>1, <1>2

LEMMA LookForms ==
    ASSUME TypeOK, NEW c \in Clients, TableExists(c) \/ CheckVersion(c)
    PROVE  \/ Refusal(c) \/ Looks(c, "exists", "create")
           \/ Looks(c, "check", "version") /\ versions = {}
<1>1. CASE TableExists(c)
  <2>1. CASE Refused(c)
    BY <1>1, <2>1 DEF TableExists, Refusal, Kept
  <2>2. CASE UNCHANGED <<table, stored>> /\ Answered(c, At(c, "create"), cached[c])
    <3>1. (Goes(c, At(c, "create")) \/ Stops(c)) /\ UNCHANGED cached
      BY <2>2, AnsweredSame
    <3> QED BY <1>1, <2>2, <3>1 DEF TableExists, Looks, Kept
  <2> QED BY <1>1, <2>1, <2>2 DEF TableExists
<1>2. CASE CheckVersion(c)
  <2>1. CASE Refused(c)
    BY <1>2, <2>1 DEF CheckVersion, Refusal, Kept
  <2>2. CASE versions = {} /\ UNCHANGED <<table, stored>>
             /\ Answered(c, At(c, "version"), cached[c])
    <3>1. (Goes(c, At(c, "version")) \/ Stops(c)) /\ UNCHANGED cached
      BY <2>2, AnsweredSame
    <3> QED BY <1>2, <2>2, <3>1 DEF CheckVersion, Looks, Kept
  <2> QED BY <1>2, <2>1, <2>2 DEF CheckVersion
<1> QED BY <1>1, <1>2

LEMMA WriteForms ==
    ASSUME TypeOK, NEW c \in Clients,
           WriteVersion(c) \/ DeleteMeta(c) \/ WriteMeta(c) \/ TimeOut(c)
    PROVE  WritesVersion(c) \/ Deletes(c) \/ WritesMeta(c) \/ TimesOut(c)
<1>1. CASE WriteVersion(c)
  <2>0. /\ call[c].pc = "version" /\ exists /\ versions' = versions \cup {call[c].val}
        /\ UNCHANGED <<exists, families, metas, late, stored>> /\ Kept
    BY <1>1 DEF WriteVersion, Writable, Kept
  <2>1. CASE call[c].val.op = "create_table"
    <3>1. Answered(c, At(c, "meta"), call[c].val)
      BY <1>1, <2>1 DEF WriteVersion
    <3> QED BY <2>0, <2>1, <3>1, AnsweredForm DEF WritesVersion
  <2>2. CASE call[c].val.op # "create_table"
    <3>1. (Return(c) \/ Stop(c)) /\ UNCHANGED cached
      BY <1>1, <2>2 DEF WriteVersion
    <3> QED BY <2>0, <2>2, <3>1, EndForms DEF WritesVersion
  <2> QED BY <2>1, <2>2
<1>2. CASE DeleteMeta(c)
  <2>1. Answered(c, At(c, "meta"), call[c].val)
    BY <1>2 DEF DeleteMeta
  <2> QED BY <1>2, <2>1, AnsweredForm DEF DeleteMeta, Writable, Deletes, Kept
<1>3. CASE WriteMeta(c)
  BY <1>3, EndForms DEF WriteMeta, Writable, WritesMeta, Kept
<1>4. CASE TimeOut(c)
  BY <1>4, EndForms DEF TimeOut, TimesOut, Kept
<1> QED BY <1>1, <1>2, <1>3, <1>4

LEMMA FamilyForms ==
    ASSUME TypeOK, NEW c \in Clients, CreateFamily(c)
    PROVE  Refusal(c) \/ MakesFamily(c) \/ ReadsFamilies(c)
<1>0. Kept /\ call[c].pc = "family"
  BY DEF CreateFamily, Kept
<1>1. CASE FamilyBigtable(c)
  BY <1>0, <1>1, EndForms DEF FamilyBigtable, MakesFamily, Refusal
<1>2. CASE FamilyHBase(c)
  BY <1>0, <1>2, EndForms DEF FamilyHBase, MakesFamily
<1>3. CASE FamilyVast(c)
  <2>1. CASE \E v \in MetasRead :
                /\ metas # {} => ~v.dict
                /\ Return(c) /\ cached' = [cached EXCEPT ![c] = v]
    BY <1>0, <1>3, <2>1, EndForms DEF FamilyVast, ReadsFamilies
  <2>2. CASE \E v \in Newest(metas) :
                v.dict /\ Answered(c, [At(c, "delete") EXCEPT
                                !.val.fams = v.fams \cup {call[c].family}], v)
    <3>1. PICK v \in Newest(metas) :
                Answered(c, [At(c, "delete") EXCEPT
                                !.val.fams = v.fams \cup {call[c].family}], v)
      BY <2>2
    <3> DEFINE k == [At(c, "delete") EXCEPT !.val.fams = v.fams \cup {call[c].family}]
    <3>2. \/ Goes(c, k) /\ cached' = [cached EXCEPT ![c] = v]
          \/ Stops(c) /\ UNCHANGED cached
      <4>1. Answered(c, k, v)
        BY <3>1
      <4> HIDE DEF k
      <4> QED BY <4>1, AnsweredForm
    <3> QED BY <1>0, <1>3, <3>2 DEF FamilyVast, ReadsFamilies
  <2> QED BY <1>3, <2>1, <2>2 DEF FamilyVast
<1> QED BY <1>1, <1>2, <1>3 DEF CreateFamily

LEMMA RequestForm ==
    ASSUME SetupInv, NEW c \in Clients, Request(c) \/ Raise(c)
    PROVE  call[c] # NoCall /\ RequestForms(c)
<1>0. TypeOK
  BY DEF SetupInv
<1>1. call[c] # NoCall
  BY DEF Request, Raise, TableExists, CreateTable, CreateNextFamily, CheckVersion, WriteVersion,
         DeleteMeta, WriteMeta, TimeOut, CreateFamily, NoCall
<1>2. ASSUME Raise(c) PROVE RequestForms(c)
  BY <1>2 DEF Raise, RequestForms, Refusal, Kept
<1>3. ASSUME Request(c) PROVE RequestForms(c)
  <2>1. CASE CreateTable(c)
    <3>1. Refusal(c) \/ \E to \in PCs : Creates(c, to)
      BY <1>0, <2>1, CreateForm
    <3> QED BY <3>1 DEF RequestForms
  <2>2. CASE TableExists(c) \/ CheckVersion(c)
    BY <1>0, <2>2, LookForms DEF RequestForms
  <2>3. CASE CreateNextFamily(c)
    BY <1>0, <2>3, NextFamilyForm DEF RequestForms
  <2>4. CASE WriteVersion(c) \/ DeleteMeta(c) \/ WriteMeta(c) \/ TimeOut(c)
    BY <1>0, <2>4, WriteForms DEF RequestForms
  <2>5. CASE CreateFamily(c)
    BY <1>0, <2>5, FamilyForms DEF RequestForms
  <2> QED BY <1>3, <2>1, <2>2, <2>3, <2>4, <2>5 DEF Request
<1> QED BY <1>1, <1>2, <1>3

-----------------------------------------------------------------------------
(* Type correctness, with the program of the calls.                        *)

TableTypes ==
    /\ exists \in BOOLEAN /\ families \subseteq Families /\ versions \subseteq Values
    /\ metas \subseteq Cells /\ late \subseteq Puts /\ stored \subseteq Values
    /\ cached \in [Clients -> Metas]

LEMMA CallInProgress ==
    ASSUME SetupInv, NEW c \in Clients, call[c] # NoCall
    PROVE  /\ call[c] \in Calls /\ Program(c, call[c])
           /\ call[c].val \in Values /\ call[c].val.n \in 1..MaxCalls /\ call[c].val.by = c
<1>1. call[c] \in Calls /\ Program(c, call[c])
  BY DEF SetupInv, TypeOK
<1>2. call[c].val \in Values /\ call[c].val.by = c
  BY <1>1 DEF Program
<1> QED BY <1>1, <1>2, ValueFields

LEMMA LoneFields ==
    ASSUME TypeOK
    PROVE  /\ lone.n \in Nat /\ lone.done \in BOOLEAN /\ lone.op \in Operations
           /\ lone.families \subseteq Families
           /\ lone = NotLone \/ lone \in Lone
           /\ lone.n # 0 => lone \in Lone
           /\ lone.n = 0 => lone = NotLone
<1>1. CASE lone \in Lone
  BY <1>1, TableConstants DEF Lone
<1>2. CASE lone = NotLone
  BY <1>2 DEF NotLone, Operations
<1> QED BY <1>1, <1>2 DEF TypeOK

\* The end of a lone call.
LEMMA LoneDone ==
    ASSUME TypeOK, lone.n # 0
    PROVE  LET e == [lone EXCEPT !.done = TRUE]
           IN  /\ e \in Lone /\ e.n = lone.n /\ e.op = lone.op
               /\ e.families = lone.families /\ e.done = TRUE
<1>1. lone \in Lone
  BY LoneFields
<1> QED BY <1>1 DEF Lone

LEMMA SetsCallSetup ==
    ASSUME SetupInv, NEW c \in Clients, NEW k \in Calls, Program(c, k), SetsCall(c, k),
           backend' = backend
    PROVE  call' \in [Clients -> Calls] /\ \A d \in Clients : Program(d, call[d])'
<1>1. call' \in [Clients -> Calls]
  BY DEF SetupInv, TypeOK, SetsCall
<1>2. ASSUME NEW d \in Clients PROVE Program(d, call[d])'
  <2>1. CASE d = c
    BY <2>1 DEF SetsCall, Program
  <2>2. CASE d # c
    <3>1. call'[d] = call[d] /\ Program(d, call[d])
      BY <2>2 DEF SetsCall, SetupInv
    <3> QED BY <3>1 DEF Program
  <2> QED BY <2>1, <2>2
<1> QED BY <1>1, <1>2

LEMMA GoesSetup ==
    ASSUME SetupInv, NEW c \in Clients, NEW k \in Calls, Program(c, k), Goes(c, k),
           Kept, TableTypes'
    PROVE  SetupInv'
<1>1. call' \in [Clients -> Calls] /\ \A d \in Clients : Program(d, call[d])'
  BY SetsCallSetup DEF Goes, Kept
<1>2. TypeOK
  BY DEF SetupInv
<1>3. torn' \in BOOLEAN
  BY DEF Goes
<1> QED BY <1>1, <1>2, <1>3 DEF SetupInv, TypeOK, TableTypes, Goes, Kept, Metas

LEMMA NoCallSetup ==
    ASSUME SetupInv, NEW c \in Clients, SetsCall(c, NoCall), backend' = backend
    PROVE  call' \in [Clients -> Calls] /\ \A d \in Clients : Program(d, call[d])'
<1>1. Program(c, NoCall)
  BY DEF Program
<1> QED BY <1>1, SetsCallSetup, NoCallIsCall

LEMMA ReturnsSetup ==
    ASSUME SetupInv, NEW c \in Clients, call[c] # NoCall, Returns(c), Kept, TableTypes'
    PROVE  SetupInv'
<1>1. call' \in [Clients -> Calls] /\ \A d \in Clients : Program(d, call[d])'
  BY NoCallSetup DEF Returns, Kept
<1>2. TypeOK /\ call[c].val.n \in 1..MaxCalls
  BY CallInProgress DEF SetupInv
<1>3. torn' \in BOOLEAN /\ created' \in BOOLEAN
  BY DEF Returns
<1>4. lone' \in Lone \cup {NotLone}
  <2>1. CASE lone.n = call[c].val.n
    BY <1>2, <2>1, LoneDone DEF Returns
  <2>2. CASE lone.n # call[c].val.n
    BY <1>2, <2>2 DEF Returns, TypeOK
  <2> QED BY <2>1, <2>2
<1> QED BY <1>1, <1>2, <1>3, <1>4 DEF SetupInv, TypeOK, TableTypes, Returns, Kept, Metas

LEMMA StopsSetup ==
    ASSUME SetupInv, NEW c \in Clients, call[c] # NoCall, Stops(c),
           Kept, TableTypes'
    PROVE  SetupInv'
<1>1. call' \in [Clients -> Calls] /\ \A d \in Clients : Program(d, call[d])'
  BY NoCallSetup DEF Stops, Kept
<1>2. TypeOK /\ call[c].val \in Values
  BY CallInProgress DEF SetupInv
<1>3. torn' \in BOOLEAN
  BY DEF Stops
<1>4. lone' \in Lone \cup {NotLone}
  BY <1>2 DEF Stops, TypeOK
<1> QED BY <1>1, <1>2, <1>3, <1>4 DEF SetupInv, TypeOK, TableTypes, Stops, Kept, Metas

LEMMA PutType ==
    ASSUME TypeOK, NEW v \in Values, NEW ts \in 1..MaxTime, Put(v, ts)
    PROVE  metas' \subseteq Cells /\ metas' # {}
<1>1. [val |-> v, ts |-> ts] \in Cells
  BY DEF Cells
<1> QED BY <1>1 DEF Put, TypeOK

LEMMA RefusalSetup ==
    ASSUME SetupInv, NEW c \in Clients, call[c] # NoCall, Refusal(c)
    PROVE  SetupInv' /\ Stops(c)
<1>1. Stops(c)
  BY EndForms DEF SetupInv, Refusal, Refused
<1>2. TableTypes'
  BY DEF Refusal, Refused, table, TableTypes, SetupInv, TypeOK, Metas
<1> QED BY <1>1, <1>2, StopsSetup DEF Refusal

\* A request of which only the call and the table change, in their types.
LEMMA GoesOrStopsSetup ==
    ASSUME SetupInv, NEW c \in Clients, call[c] # NoCall, NEW k \in Calls, Program(c, k),
           Goes(c, k) \/ Returns(c) \/ Stops(c), Kept, TableTypes'
    PROVE  SetupInv'
BY GoesSetup, ReturnsSetup, StopsSetup

\* The next request of a call is one of its program.
LEMMA NextRequest ==
    ASSUME SetupInv, NEW c \in Clients, call[c] # NoCall, NEW pc \in PCs,
           \/ call[c].pc = "exists" /\ pc = "create"
           \/ call[c].pc = "check" /\ pc = "version"
           \/ call[c].pc = "create" /\ pc = (IF backend = "bigtable" THEN "families" ELSE "check")
           \/ call[c].pc = "families" /\ pc = "check"
           \/ call[c].pc = "version" /\ call[c].val.op = "create_table" /\ pc = "meta"
           \/ call[c].pc = "delete" /\ pc = "meta"
    PROVE  At(c, pc) \in Calls /\ Program(c, At(c, pc))
<1> DEFINE k == At(c, pc)
<1>1. /\ k \in Calls /\ k.pc = pc /\ k.val = call[c].val /\ k.over = call[c].over
      /\ k.next = call[c].next /\ k.family = call[c].family
  BY AtFields DEF SetupInv, TypeOK
<1>2. Program(c, call[c])
  BY CallInProgress
<1>3. Program(c, k)
  <2> HIDE DEF k
  <2> QED BY <1>1, <1>2, DefaultsLen DEF Program
<1> QED BY <1>1, <1>3

LEMMA LooksSetup ==
    ASSUME SetupInv, NEW c \in Clients, call[c] # NoCall,
           Looks(c, "exists", "create") \/ Looks(c, "check", "version")
    PROVE  SetupInv'
<1> "create" \in PCs /\ "version" \in PCs
  BY DEF PCs
<1>1. TableTypes' /\ Kept
  BY DEF Looks, table, TableTypes, SetupInv, TypeOK, Metas
<1>2. CASE Looks(c, "exists", "create")
  BY <1>1, <1>2, NextRequest, GoesOrStopsSetup DEF Looks
<1>3. CASE Looks(c, "check", "version")
  BY <1>1, <1>3, NextRequest, GoesOrStopsSetup DEF Looks
<1> QED BY <1>2, <1>3

LEMMA CreatesSetup ==
    ASSUME SetupInv, NEW c \in Clients, call[c] # NoCall, NEW to \in PCs, Creates(c, to)
    PROVE  SetupInv'
<1>1. TableTypes'
  BY DEF Creates, TableTypes, SetupInv, TypeOK, Families, Metas
<1>2. At(c, to) \in Calls /\ Program(c, At(c, to))
  BY NextRequest DEF Creates
<1> QED BY <1>1, <1>2, GoesOrStopsSetup DEF Creates

LEMMA AddsFamilySetup ==
    ASSUME SetupInv, NEW c \in Clients, call[c] # NoCall, AddsFamily(c)
    PROVE  SetupInv'
<1> DEFINE i == call[c].next
           k == [call[c] EXCEPT !.next = i + 1]
<1>1. /\ call[c] \in Calls /\ Program(c, call[c]) /\ call[c].pc = "families"
      /\ i \in 1..Len(DefaultFamilies)
  BY CallInProgress, CallFields, DefaultsLen DEF AddsFamily, Program
<1>2. TableTypes'
  BY <1>1 DEF AddsFamily, TableTypes, SetupInv, TypeOK, Families, Defaults, Metas
<1>3. CASE i = Len(DefaultFamilies) /\ Goes(c, At(c, "check"))
  <2>1. At(c, "check") \in Calls /\ Program(c, At(c, "check"))
    BY <1>1, NextRequest DEF PCs
  <2> QED BY <1>2, <1>3, <2>1, GoesSetup DEF AddsFamily
<1>4. CASE i # Len(DefaultFamilies) /\ Goes(c, k)
  <2>1. /\ k \in Calls /\ k.pc = call[c].pc /\ k.val = call[c].val
        /\ k.over = call[c].over /\ k.next = i + 1
    BY <1>1, <1>4, NextFamilyFields DEF SetupInv, TypeOK
  <2> HIDE DEF k
  <2>2. Program(c, k)
    BY <1>1, <1>4, <2>1, DefaultsLen DEF Program
  <2> QED BY <1>2, <1>4, <2>1, <2>2, GoesSetup DEF AddsFamily
<1>5. CASE Stops(c)
  BY <1>2, <1>5, StopsSetup DEF AddsFamily
<1> QED BY <1>3, <1>4, <1>5 DEF AddsFamily

LEMMA MakesFamilySetup ==
    ASSUME SetupInv, NEW c \in Clients, call[c] # NoCall, MakesFamily(c)
    PROVE  SetupInv'
<1>1. call[c] \in Calls /\ call[c].family \in NewFamilies
  BY CallInProgress DEF MakesFamily, Program
<1>2. TableTypes'
  BY <1>1 DEF MakesFamily, TableTypes, SetupInv, TypeOK, Families, Metas
<1>3. Kept /\ (Returns(c) \/ Stops(c))
  BY DEF MakesFamily
<1>4. Program(c, call[c])
  BY CallInProgress
<1> QED BY <1>1, <1>2, <1>3, <1>4, GoesOrStopsSetup

LEMMA NewestStored ==
    ASSUME TypeOK, NEW v \in Newest(metas)
    PROVE  v \in Values /\ \E m \in metas : m.val = v
<1>1. PICK m \in metas : m.val = v
  BY DEF Newest
<1> QED BY <1>1 DEF TypeOK, Cells

LEMMA MetasReadType ==
    ASSUME TypeOK
    PROVE  MetasRead \subseteq Metas
BY NewestStored DEF MetasRead, Metas

LEMMA ReadsFamiliesSetup ==
    ASSUME SetupInv, NEW c \in Clients, call[c] # NoCall, ReadsFamilies(c)
    PROVE  SetupInv'
<1>1. /\ call[c] \in Calls /\ Program(c, call[c]) /\ call[c].pc = "family"
      /\ call[c].val \in Values /\ call[c].family \in NewFamilies /\ backend = "vast"
  BY CallInProgress DEF ReadsFamilies, Program
<1>2. Kept /\ UNCHANGED <<table, stored>>
  BY DEF ReadsFamilies
<1>3. ASSUME NEW v \in Metas, cached' = [cached EXCEPT ![c] = v]
      PROVE  TableTypes'
  BY <1>2, <1>3 DEF table, TableTypes, SetupInv, TypeOK, Metas
<1>4. CASE Returns(c) /\ \E v \in MetasRead : cached' = [cached EXCEPT ![c] = v]
  BY <1>1, <1>2, <1>3, <1>4, MetasReadType, ReturnsSetup DEF SetupInv
<1>5. CASE Stops(c) /\ UNCHANGED cached
  <2>1. TableTypes'
    BY <1>2, <1>5 DEF table, TableTypes, SetupInv, TypeOK, Metas
  <2> QED BY <1>1, <1>2, <1>5, <2>1, GoesOrStopsSetup
<1>6. ASSUME NEW v \in Newest(metas), cached' = [cached EXCEPT ![c] = v],
             Goes(c, [At(c, "delete") EXCEPT !.val.fams = v.fams \cup {call[c].family}])
      PROVE  SetupInv'
  <2> DEFINE k == [At(c, "delete") EXCEPT !.val.fams = v.fams \cup {call[c].family}]
  <2>1. v \in Values /\ v \in Metas
    BY NewestStored DEF SetupInv, Metas
  <2>2. /\ k \in Calls /\ k.pc = "delete" /\ k.over = call[c].over /\ k.val \in Values
        /\ k.val.by = call[c].val.by /\ k.val.op = call[c].val.op
    BY <1>1, <2>1, NewFamilyFields DEF SetupInv, TypeOK
  <2>3. Goes(c, k)
    BY <1>6
  <2> HIDE DEF k
  <2>4. Program(c, k)
    BY <1>1, <2>2 DEF Program
  <2> QED BY <1>2, <1>3, <1>6, <2>1, <2>2, <2>3, <2>4, GoesSetup
<1> QED BY <1>4, <1>5, <1>6 DEF ReadsFamilies

LEMMA CachedType ==
    ASSUME TypeOK, NEW c \in Clients, NEW v \in Values,
           cached' = [cached EXCEPT ![c] = v] \/ UNCHANGED cached
    PROVE  cached' \in [Clients -> Metas]
BY DEF TypeOK, Metas

LEMMA WritesSetup ==
    ASSUME SetupInv, NEW c \in Clients, call[c] # NoCall,
           WritesVersion(c) \/ Deletes(c) \/ WritesMeta(c) \/ TimesOut(c)
    PROVE  SetupInv'
<1>0. TypeOK /\ call[c].val \in Values /\ call[c] \in Calls /\ Program(c, call[c])
  BY CallInProgress DEF SetupInv
<1> "meta" \in PCs
  BY DEF PCs
<1>1. CASE WritesVersion(c)
  <2>1. cached' \in [Clients -> Metas]
    BY <1>0, <1>1, CachedType DEF WritesVersion
  <2>2. TableTypes'
    BY <1>0, <1>1, <2>1 DEF WritesVersion, TableTypes, TypeOK
  <2>3. Kept
    BY <1>1 DEF WritesVersion
  <2>4. CASE call[c].val.op = "create_table" /\ Goes(c, At(c, "meta"))
    BY <1>1, <2>2, <2>3, <2>4, NextRequest, GoesSetup DEF WritesVersion
  <2>5. CASE Returns(c) \/ Stops(c)
    BY <1>0, <2>2, <2>3, <2>5, GoesOrStopsSetup
  <2> QED BY <1>1, <2>4, <2>5 DEF WritesVersion
<1>2. CASE Deletes(c)
  <2>1. cached' \in [Clients -> Metas]
    BY <1>0, <1>2, CachedType DEF Deletes
  <2>2. TableTypes'
    BY <1>0, <1>2, <2>1 DEF Deletes, TableTypes, TypeOK
  <2>3. At(c, "meta") \in Calls /\ Program(c, At(c, "meta"))
    BY <1>2, NextRequest DEF Deletes
  <2> QED BY <1>2, <2>2, <2>3, GoesOrStopsSetup DEF Deletes
<1>3. CASE WritesMeta(c)
  <2>1. metas' \subseteq Cells
    BY <1>0, <1>3, PutType DEF WritesMeta, Stamps
  <2>2. TableTypes'
    BY <1>0, <1>3, <2>1 DEF WritesMeta, TableTypes, TypeOK, Metas
  <2> QED BY <1>0, <1>3, <2>2, GoesOrStopsSetup DEF WritesMeta
<1>4. CASE TimesOut(c)
  <2>1. [row |-> call[c].pc, val |-> call[c].val] \in Puts
    BY <1>0, <1>4 DEF TimesOut, Puts
  <2>2. TableTypes'
    BY <1>0, <1>4, <2>1 DEF TimesOut, TableTypes, TypeOK, Metas
  <2> QED BY <1>0, <1>4, <2>2, GoesOrStopsSetup DEF TimesOut
<1> QED BY <1>1, <1>2, <1>3, <1>4

-----------------------------------------------------------------------------
(* The calls, the reads, the crashes and the late puts.                    *)

\* The call that a client starts.
NewCall(c, op, pc, over, family, fams, dict) ==
    [pc |-> pc, over |-> over, next |-> 1, family |-> family,
     val |-> [n |-> calls + 1, by |-> c, op |-> op, fams |-> fams, dict |-> dict]]

Starts(c, op, pc, over, family, fams, dict) ==
    /\ Begin(c, op, pc, over, family, fams, dict)
    /\ SetsCall(c, NewCall(c, op, pc, over, family, fams, dict))
    /\ \/ op = "create_table" /\ pc \in {"exists", "create"} /\ ~over /\ UNCHANGED cached
       \/ op = "add_table_version" /\ pc \in {"version", "check"} /\ UNCHANGED cached
       \/ op = "update_table_meta" /\ pc = "delete" /\ over /\ UNCHANGED cached
       \/ /\ op = "update_table_meta" /\ pc = "meta" /\ ~over /\ exists
          /\ cached' = [cached EXCEPT ![c] = call'[c].val]
       \/ /\ op = "create_column_family" /\ pc = "family" /\ over /\ family \in NewFamilies
          /\ exists
          /\ UNCHANGED cached

BeginsCall(c) ==
    \E op \in Operations, pc \in PCs, over \in BOOLEAN, family \in NewFamilies \cup {NoFamily},
       fams \in SUBSET Families, dict \in BOOLEAN : Starts(c, op, pc, over, family, fams, dict)

LEMMA BeginSetsCall ==
    ASSUME TypeOK, NEW c \in Clients, NEW op, NEW pc, NEW over, NEW family, NEW fams, NEW dict,
           Begin(c, op, pc, over, family, fams, dict)
    PROVE  SetsCall(c, NewCall(c, op, pc, over, family, fams, dict))
<1>1. call' = [call EXCEPT ![c] = NewCall(c, op, pc, over, family, fams, dict)]
  BY DEF Begin, NewCall
<1> QED BY <1>1, SetCall DEF TypeOK

LEMMA SomeCall ==
    ASSUME NEW c \in Clients, NEW op \in Operations, NEW pc \in PCs, NEW over \in BOOLEAN,
           NEW family \in NewFamilies \cup {NoFamily}, NEW fams \in SUBSET Families,
           NEW dict \in BOOLEAN, Starts(c, op, pc, over, family, fams, dict)
    PROVE  BeginsCall(c)
BY Zenon DEF BeginsCall

LEMMA BeginForm ==
    ASSUME TypeOK, NEW c \in Clients,
           \/ create_table(c) \/ create_column_family(c)
           \/ \E overwrite \in BOOLEAN :
                 add_table_version(c, overwrite) \/ update_table_meta(c, overwrite)
    PROVE  BeginsCall(c)
<1> USE DEF Starts
<1> PCs = {"idle", "exists", "create", "families", "check", "version", "delete", "meta", "family"}
  BY DEF PCs
<1> Operations = {"create_table", "add_table_version", "update_table_meta",
                  "create_column_family"}
  BY DEF Operations
<1> {} \in SUBSET Families /\ TRUE \in BOOLEAN /\ FALSE \in BOOLEAN
  OBVIOUS
<1>1. CASE create_table(c)
  <2> DEFINE pc == IF backend = "vast" THEN "create" ELSE "exists"
  <2>1. PICK dict \in Kinds : Begin(c, "create_table", pc, FALSE, NoFamily, {}, dict)
    BY <1>1 DEF create_table
  <2>4. UNCHANGED cached /\ dict \in BOOLEAN
    BY <1>1 DEF create_table, Kinds
  <2>2. pc \in {"exists", "create"} /\ pc \in PCs
    OBVIOUS
  <2> HIDE DEF pc
  <2>3. Starts(c, "create_table", pc, FALSE, NoFamily, {}, dict)
    BY <2>1, <2>2, <2>4, BeginSetsCall
  <2> QED BY <2>2, <2>3, <2>4, Zenon DEF BeginsCall, Operations
<1>2. CASE create_column_family(c)
  <2>1. PICK f \in NewFamilies : Begin(c, "create_column_family", "family", TRUE, f, {}, TRUE)
    BY <1>2 DEF create_column_family
  <2>2. Starts(c, "create_column_family", "family", TRUE, f, {}, TRUE)
    BY <1>2, <2>1, BeginSetsCall DEF create_column_family
  <2>3. f \in NewFamilies \cup {NoFamily} /\ "family" \in PCs /\ "create_column_family" \in Operations
    OBVIOUS
  <2> QED BY <2>2, <2>3, Zenon DEF BeginsCall
<1>3. ASSUME NEW overwrite \in BOOLEAN, add_table_version(c, overwrite) PROVE BeginsCall(c)
  <2> DEFINE pc == IF overwrite THEN "version" ELSE "check"
  <2>1. Begin(c, "add_table_version", pc, overwrite, NoFamily, {}, TRUE) /\ UNCHANGED cached
    BY <1>3 DEF add_table_version
  <2>2. /\ pc \in {"version", "check"} /\ pc \in PCs /\ "add_table_version" \in Operations
        /\ NoFamily \in NewFamilies \cup {NoFamily}
    OBVIOUS
  <2> HIDE DEF pc
  <2>3. Starts(c, "add_table_version", pc, overwrite, NoFamily, {}, TRUE)
    BY <2>1, <2>2, BeginSetsCall
  <2> QED BY <2>2, <2>3, Zenon DEF BeginsCall
<1>4. ASSUME NEW overwrite \in BOOLEAN, update_table_meta(c, overwrite) PROVE BeginsCall(c)
  <2> DEFINE pc == IF overwrite THEN "delete" ELSE "meta"
  <2>1. PICK like \in {[fams |-> {}, dict |-> dict] : dict \in Kinds} \cup ({cached[c]} \ {NoValue}) :
           Begin(c, "update_table_meta", pc, overwrite, NoFamily, like.fams, like.dict)
    BY <1>4 DEF update_table_meta
  <2>2. like.fams \in SUBSET Families /\ like.dict \in BOOLEAN
    <3>1. CASE like = cached[c] /\ cached[c] # NoValue
      <4>1. cached[c] \in Values \/ cached[c] \in Given
        BY <3>1 DEF TypeOK
      <4> QED BY <3>1, <4>1, ValueFields, TableConstants DEF Given
    <3>2. CASE like \in {[fams |-> {}, dict |-> dict] : dict \in Kinds}
      <4>1. PICK dict \in Kinds : like = [fams |-> {}, dict |-> dict]
        BY <3>2
      <4> QED BY <4>1 DEF Kinds
    <3> QED BY <2>1, <3>1, <3>2
  <2>3. /\ pc \in PCs /\ "update_table_meta" \in Operations
        /\ NoFamily \in NewFamilies \cup {NoFamily}
    OBVIOUS
  <2>4. exists /\ cached' = IF overwrite THEN cached ELSE [cached EXCEPT ![c] = call'[c].val]
    BY <1>4 DEF update_table_meta
  <2>5. Starts(c, "update_table_meta", pc, overwrite, NoFamily, like.fams, like.dict)
    BY <2>1, <2>4, BeginSetsCall
  <2> HIDE DEF pc, Starts
  <2> QED BY <2>2, <2>3, <2>5, SomeCall
<1> QED BY <1>1, <1>2, <1>3, <1>4

\* The fields of a call that starts; it is one of its program.
LEMMA NewCallFields ==
    ASSUME SetupInv, NEW c \in Clients, NEW op \in Operations, NEW pc \in PCs,
           NEW over \in BOOLEAN, NEW family \in NewFamilies \cup {NoFamily},
           NEW fams \in SUBSET Families, NEW dict \in BOOLEAN, Starts(c, op, pc, over, family, fams, dict)
    PROVE  LET k == NewCall(c, op, pc, over, family, fams, dict)
           IN  /\ k \in Calls /\ Program(c, k) /\ k.pc = pc /\ k.over = over /\ k.next = 1
               /\ k.family = family /\ k.val \in Values
               /\ k.val.n = calls + 1 /\ k.val.by = c /\ k.val.op = op
<1> DEFINE k == NewCall(c, op, pc, over, family, fams, dict)
<1>1. calls + 1 \in 1..MaxCalls
  BY TableConstants DEF Starts, Begin, SetupInv, TypeOK
<1>2. k.val \in Values
  BY <1>1 DEF NewCall, Values
<1>3. 1 \in 1..(Len(DefaultFamilies) + 1)
  BY DefaultsLen
<1>4. k \in Calls
  BY <1>2, <1>3 DEF NewCall, Calls
<1>5. Program(c, k)
  BY <1>2, DefaultsLen DEF Starts, Program, NewCall
<1> QED BY <1>2, <1>4, <1>5 DEF NewCall

LEMMA BeginLoneType ==
    ASSUME SetupInv, NEW c \in Clients, NEW op \in Operations, NEW pc \in PCs,
           NEW over \in BOOLEAN, NEW family \in NewFamilies \cup {NoFamily},
           NEW fams \in SUBSET Families, NEW dict \in BOOLEAN, Starts(c, op, pc, over, family, fams, dict)
    PROVE  lone' \in Lone \cup {NotLone}
<1> DEFINE fs == IF op = "create_column_family" THEN FamiliesNow \cup {family} ELSE {}
           l == [n |-> calls + 1, op |-> op, done |-> FALSE, families |-> fs]
<1>1. calls + 1 \in 1..MaxCalls
  BY TableConstants DEF Starts, Begin, SetupInv, TypeOK
<1>2. fs \subseteq Families
  <2>1. FamiliesNow \subseteq Families
    BY DEF FamiliesNow, SetupInv, TypeOK
  <2>2. CASE op = "create_column_family"
    <3>1. family \in NewFamilies
      BY <2>2 DEF Starts
    <3> QED BY <2>1, <3>1 DEF Families
  <2> QED BY <2>2
<1>3. l \in Lone
  <2> HIDE DEF fs
  <2> QED BY <1>1, <1>2 DEF Lone
<1>4. lone' = IF Decisive(c, op, over) THEN l ELSE NotLone
  BY DEF Starts, Begin
<1> HIDE DEF l
<1> QED BY <1>3, <1>4

LEMMA BeginsSetup ==
    ASSUME SetupInv, NEW c \in Clients, BeginsCall(c)
    PROVE  SetupInv'
<1> PICK op \in Operations, pc \in PCs, over \in BOOLEAN,
         family \in NewFamilies \cup {NoFamily}, fams \in SUBSET Families, dict \in BOOLEAN :
            Starts(c, op, pc, over, family, fams, dict)
  BY DEF BeginsCall
<1> DEFINE k == NewCall(c, op, pc, over, family, fams, dict)
<1>1. k \in Calls /\ Program(c, k) /\ k.val \in Values
  BY NewCallFields
<1>2. SetsCall(c, k)
  BY DEF Starts
<1>3. call'[c].val \in Values
  BY <1>1, <1>2 DEF SetsCall
<1> HIDE DEF k
<1>4. UNCHANGED <<backend, table, created, stored, torn>> /\ calls' = calls + 1
      /\ calls < MaxCalls
  BY DEF Starts, Begin
<1>5. call' \in [Clients -> Calls] /\ \A d \in Clients : Program(d, call[d])'
  BY <1>1, <1>2, <1>4, SetsCallSetup
<1>6. lone' \in Lone \cup {NotLone}
  BY BeginLoneType
<1>7. cached' = [cached EXCEPT ![c] = call'[c].val] \/ UNCHANGED cached
  BY DEF Starts
<1>8. cached' \in [Clients -> Metas]
  BY <1>3, <1>7, CachedType DEF SetupInv
<1>9. calls' \in 0..MaxCalls
  BY <1>4, TableConstants DEF SetupInv, TypeOK
<1> QED BY <1>4, <1>5, <1>6, <1>8, <1>9 DEF SetupInv, TypeOK, table, Metas

\* A read gives what the row holds.
Reads(c) ==
    /\ exists /\ call[c] = NoCall
    /\ \E v \in MetasRead : cached' = [cached EXCEPT ![c] = v]
    /\ UNCHANGED <<backend, table, call, calls, history>>

LEMMA ReadsSetup ==
    ASSUME SetupInv, NEW c \in Clients, Reads(c)
    PROVE  SetupInv'
<1>1. PICK v \in MetasRead : cached' = [cached EXCEPT ![c] = v]
  BY DEF Reads
<1>2. cached' \in [Clients -> Metas]
  BY <1>1, MetasReadType DEF SetupInv, TypeOK, Metas
<1>3. UNCHANGED <<backend, table, call, calls, history>>
  BY DEF Reads
<1> QED BY <1>2, <1>3 DEF SetupInv, TypeOK, table, history, Program, Metas

\* A crash stops the call, if there is one; the next client has no meta, or the
\* one it is given.
Crashes(c) ==
    /\ UNCHANGED <<backend, table, calls, stored>>
    /\ \/ call[c] = NoCall /\ UNCHANGED <<call, created, torn, lone>>
       \/ call[c] # NoCall /\ Stops(c)
    /\ \E m \in TableMetas(c) : cached' = [cached EXCEPT ![c] = m]

LEMMA CrashForm ==
    ASSUME TypeOK, NEW c \in Clients, Crash(c)
    PROVE  Crashes(c)
BY EndForms DEF Crash, Crashes

LEMMA CrashSetup ==
    ASSUME SetupInv, NEW c \in Clients, Crashes(c)
    PROVE  SetupInv'
<1>1. TableTypes'
  <2>1. TableMetas(c) \subseteq Metas
    BY DEF TableMetas, Metas
  <2> QED BY <2>1 DEF Crashes, table, TableTypes, SetupInv, TypeOK, Metas
<1>2. CASE call[c] = NoCall
  BY <1>1, <1>2 DEF Crashes, SetupInv, TypeOK, TableTypes, Program, Metas
<1>3. CASE call[c] # NoCall
  BY <1>1, <1>3, StopsSetup DEF Crashes, Kept
<1> QED BY <1>2, <1>3

\* A late put is handled.
ServesLate(p) ==
    /\ p \in late /\ late' = late \ {p}
    /\ \/ p.row = "version" /\ versions' = versions \cup {p.val} /\ UNCHANGED <<metas, stored>>
       \/ /\ p.row = "meta" /\ stored' = stored \cup {p.val} /\ UNCHANGED versions
          /\ \E ts \in Stamps(p.val.by) : Put(p.val, ts)
    /\ torn' = (torn /\ metas' = {})
    /\ UNCHANGED <<backend, exists, families, call, cached, calls, created, lone>>

LEMMA ServeForm == ServeLate => \E p \in late : ServesLate(p)
BY DEF ServeLate, ServesLate

LEMMA ServeSetup ==
    ASSUME SetupInv, NEW p \in late, ServesLate(p)
    PROVE  SetupInv'
<1>1. p.val \in Values /\ TypeOK
  BY DEF SetupInv, TypeOK, Puts
<1>2. metas' \subseteq Cells
  <2>1. CASE UNCHANGED metas
    BY <1>1, <2>1 DEF TypeOK
  <2>2. CASE \E ts \in Stamps(p.val.by) : Put(p.val, ts)
    BY <1>1, <2>2, PutType DEF Stamps
  <2> QED BY <2>1, <2>2 DEF ServesLate
<1>3. versions' \subseteq Values /\ stored' \subseteq Values /\ late' \subseteq Puts
  BY <1>1 DEF ServesLate, TypeOK
<1>4. torn' \in BOOLEAN
  BY DEF ServesLate
<1> QED BY <1>2, <1>3, <1>4 DEF SetupInv, TypeOK, ServesLate, Program

\* Every step has one of the forms.
LEMMA StepForms ==
    ASSUME SetupInv, Next
    PROVE  \/ \E c \in Clients : BeginsCall(c) \/ Reads(c) \/ Crashes(c)
           \/ \E c \in Clients : call[c] # NoCall /\ RequestForms(c)
           \/ \E p \in late : ServesLate(p)
<1>0. TypeOK
  BY DEF SetupInv
<1>1. ASSUME NEW c \in Clients, Call(c) PROVE BeginsCall(c) \/ Reads(c)
  BY <1>0, <1>1, BeginForm DEF Call, read_table_meta, Reads
<1>2. ASSUME NEW c \in Clients, Request(c) \/ Raise(c)
      PROVE  call[c] # NoCall /\ RequestForms(c)
  BY <1>2, RequestForm
<1>3. ASSUME NEW c \in Clients, Crash(c) PROVE Crashes(c)
  BY <1>0, <1>3, CrashForm
<1> QED BY <1>1, <1>2, <1>3, ServeForm DEF Next

LEMMA SetupInit == Init => SetupInv
<1> SUFFICES ASSUME Init PROVE SetupInv
  OBVIOUS
<1>1. call \in [Clients -> Calls]
  BY NoCallIsCall DEF Init
<1>2. 0 \in 0..MaxCalls
  BY TableConstants
<1>3. \A c \in Clients : Program(c, call[c])
  BY DEF Init, Program
<1>4. cached \in [Clients -> Values \cup Given \cup {NoValue}]
  BY DEF Init, TableMetas
<1> QED BY <1>1, <1>2, <1>3, <1>4 DEF Init, SetupInv, TypeOK

LEMMA SetupNext == SetupInv /\ [Next]_vars => SetupInv'
<1> SUFFICES ASSUME SetupInv, [Next]_vars PROVE SetupInv'
  OBVIOUS
<1>1. ASSUME NEW c \in Clients, BeginsCall(c) \/ Reads(c) \/ Crashes(c) PROVE SetupInv'
  BY <1>1, BeginsSetup, ReadsSetup, CrashSetup
<1>2. ASSUME NEW c \in Clients, call[c] # NoCall, RequestForms(c) PROVE SetupInv'
  BY <1>2, RefusalSetup, LooksSetup, CreatesSetup, AddsFamilySetup, MakesFamilySetup,
     ReadsFamiliesSetup, WritesSetup
     DEF RequestForms
<1>3. ASSUME NEW p \in late, ServesLate(p) PROVE SetupInv'
  BY <1>3, ServeSetup
<1>4. ASSUME UNCHANGED vars PROVE SetupInv'
  BY <1>4 DEF vars, table, history, SetupInv, TypeOK, Program
<1> QED BY <1>1, <1>2, <1>3, <1>4, StepForms

LEMMA SetupInvariant == Spec => []SetupInv
BY SetupInit, SetupNext, PTL DEF Spec

\* Every variable of the table set-up model keeps its type.
THEOREM TypeCorrect == Spec => []TypeOK
<1>1. SetupInv => TypeOK
  BY DEF SetupInv
<1> QED BY <1>1, SetupInvariant, PTL

-----------------------------------------------------------------------------
(* The meta survives.                                                      *)

Guarded == metas # {} \/ torn \/ \E c \in Clients : call[c].pc = "meta" /\ call[c].over

\* A call that does not touch the meta row leaves it guarded: the client between
\* the two requests of its overwriting update goes on, or it stops there.
LEMMA GuardedStays ==
    ASSUME Guarded, metas' = metas, NEW c \in Clients, NEW k,
           \/ Goes(c, k) /\ (call[c].pc = "meta" => k = call[c])
           \/ Returns(c) /\ call[c].pc # "meta"
           \/ Stops(c)
    PROVE  Guarded'
<1>1. CASE metas # {}
  BY <1>1 DEF Guarded
<1>2. CASE metas = {} /\ torn
  <2>1. torn'
    BY <1>2 DEF Goes, Returns, Stops
  <2> QED BY <2>1 DEF Guarded
<1>3. CASE metas = {} /\ \E d \in Clients : call[d].pc = "meta" /\ call[d].over
  <2>1. PICK d \in Clients : call[d].pc = "meta" /\ call[d].over
    BY <1>3
  <2>2. CASE d # c
    <3>1. call'[d] = call[d]
      BY <2>2 DEF Goes, Returns, Stops, SetsCall
    <3> QED BY <2>1, <3>1 DEF Guarded
  <2>3. CASE d = c /\ Goes(c, k) /\ (call[c].pc = "meta" => k = call[c])
    <3>1. call'[c] = call[c]
      BY <2>1, <2>3 DEF Goes, SetsCall
    <3> QED BY <2>1, <2>3, <3>1 DEF Guarded
  <2>4. CASE d = c /\ Stops(c)
    BY <1>3, <2>1, <2>4 DEF Guarded, Stops
  <2> QED BY <2>1, <2>2, <2>3, <2>4
<1> QED BY <1>1, <1>2, <1>3 DEF Guarded

LEMMA MetaRequest ==
    ASSUME SetupInv, MetaSurvives, NEW c \in Clients, call[c] # NoCall, RequestForms(c)
    PROVE  MetaSurvives'
<1>0. Program(c, call[c]) /\ TypeOK
  BY CallInProgress DEF SetupInv
<1>s. MetaSurvives <=> (stored # {} => Guarded)
  BY DEF MetaSurvives, Guarded
<1>1. ASSUME stored' = stored, stored # {} => Guarded' PROVE MetaSurvives'
  BY <1>1 DEF MetaSurvives, Guarded
<1>2. ASSUME stored' = stored, metas' = metas, NEW k,
             \/ Goes(c, k) /\ (call[c].pc = "meta" => k = call[c])
             \/ Returns(c) /\ call[c].pc # "meta"
             \/ Stops(c)
      PROVE  MetaSurvives'
  BY <1>s, <1>1, <1>2, GuardedStays
<1>3. CASE Refusal(c)
  <2>1. Stops(c) /\ stored' = stored /\ metas' = metas
    BY <1>0, <1>3, EndForms DEF Refusal, Refused, table
  <2> QED BY <1>2, <2>1
<1>4. ASSUME NEW from, NEW to, from # "meta", Looks(c, from, to) PROVE MetaSurvives'
  BY <1>2, <1>4 DEF Looks, table
<1>5. ASSUME NEW to \in PCs, Creates(c, to) PROVE MetaSurvives'
  BY <1>2, <1>5 DEF Creates
<1>6. CASE AddsFamily(c)
  BY <1>2, <1>6 DEF AddsFamily
<1>7. CASE MakesFamily(c)
  BY <1>2, <1>7 DEF MakesFamily
<1>8. CASE ReadsFamilies(c)
  BY <1>2, <1>8 DEF ReadsFamilies, table
<1>9. CASE WritesVersion(c)
  BY <1>2, <1>9 DEF WritesVersion
<1>10. CASE Deletes(c)
  <2>1. /\ call[c].over /\ call[c].pc = "delete" /\ stored' = stored
        /\ Goes(c, At(c, "meta")) \/ Stops(c)
    BY <1>0, <1>10 DEF Deletes, Program
  <2>2. CASE metas' = metas
    BY <1>2, <2>1, <2>2
  <2>3. CASE metas' = {}
    <3>1. CASE Goes(c, At(c, "meta"))
      <4>1. call'[c].pc = "meta" /\ call'[c].over
        BY <1>0, <2>1, <3>1, AtFields DEF Goes, SetsCall, TypeOK, PCs
      <4> QED BY <1>1, <2>1, <4>1 DEF Guarded
    <3>2. CASE Stops(c)
      <4>1. torn'
        BY <2>1, <2>3, <3>2 DEF Stops
      <4> QED BY <1>1, <2>1, <4>1 DEF Guarded
    <3> QED BY <2>1, <3>1, <3>2
  <2> QED BY <1>10, <2>2, <2>3 DEF Deletes
<1>11. CASE WritesMeta(c)
  <2>1. metas' # {}
    BY <1>11 DEF WritesMeta, Put
  <2> QED BY <2>1 DEF MetaSurvives
<1>12. CASE TimesOut(c)
  BY <1>2, <1>12 DEF TimesOut
<1> QED
  BY <1>3, <1>4, <1>5, <1>6, <1>7, <1>8, <1>9, <1>10, <1>11, <1>12 DEF RequestForms

LEMMA MetaNext == SetupInv /\ MetaSurvives /\ [Next]_vars => MetaSurvives'
<1> SUFFICES ASSUME SetupInv, MetaSurvives, [Next]_vars PROVE MetaSurvives'
  OBVIOUS
<1>1. ASSUME NEW c \in Clients, BeginsCall(c) PROVE MetaSurvives'
  <2>1. /\ UNCHANGED <<metas, stored, torn>> /\ call[c].pc = "idle"
        /\ \A d \in Clients \ {c} : call'[d] = call[d]
    BY <1>1 DEF BeginsCall, Starts, Begin, table, SetsCall, NoCall
  <2> QED BY <2>1 DEF MetaSurvives
<1>2. ASSUME NEW c \in Clients, Reads(c) PROVE MetaSurvives'
  BY <1>2 DEF Reads, table, history, MetaSurvives
<1>3. ASSUME NEW c \in Clients, Crashes(c) PROVE MetaSurvives'
  <2>1. UNCHANGED <<metas, stored>>
    BY <1>3 DEF Crashes, table
  <2>2. CASE call[c] = NoCall
    BY <1>3, <2>1, <2>2 DEF Crashes, MetaSurvives
  <2>3. CASE Stops(c)
    <3>1. Guarded => Guarded'
      BY <2>1, <2>3, GuardedStays
    <3> QED BY <2>1, <3>1 DEF MetaSurvives, Guarded
  <2> QED BY <1>3, <2>2, <2>3 DEF Crashes
<1>4. ASSUME NEW p \in late, ServesLate(p) PROVE MetaSurvives'
  <2>1. CASE UNCHANGED <<metas, stored>>
    BY <1>4, <2>1 DEF ServesLate, MetaSurvives
  <2>2. CASE \E ts \in Stamps(p.val.by) : Put(p.val, ts)
    <3>1. metas' # {}
      BY <2>2 DEF Put
    <3> QED BY <3>1 DEF MetaSurvives
  <2> QED BY <1>4, <2>1, <2>2 DEF ServesLate
<1>5. ASSUME UNCHANGED vars PROVE MetaSurvives'
  BY <1>5 DEF vars, table, history, MetaSurvives
<1> QED BY <1>1, <1>2, <1>3, <1>4, <1>5, MetaRequest, StepForms

\* A table that had a meta is without one only while an overwriting update is
\* between its two requests, or after one that stopped there: no other request,
\* crash or late put empties the meta row.
THEOREM MetaSurvivesAlways == Spec => []MetaSurvives
<1>1. Init => MetaSurvives
  BY DEF Init, MetaSurvives
<1> QED BY <1>1, MetaNext, SetupInvariant, PTL DEF Spec

-----------------------------------------------------------------------------
(* A created table is complete.                                            *)

\* What a create_table has done stays done.
Grows ==
    /\ exists => exists'
    /\ versions \subseteq versions' /\ stored \subseteq stored'
    /\ backend' = backend
    /\ backend = "bigtable" => families \subseteq families'

\* Progress, of the table that a step leaves.
Progressed(k) ==
    k # NoCall /\ k.val.op = "create_table" =>
        /\ k.pc \in {"families", "check", "version", "meta"} => exists'
        /\ k.pc = "families" => \A i \in 1..(k.next - 1) : DefaultFamilies[i] \in families'
        /\ k.pc \in {"check", "version", "meta"} /\ backend' = "bigtable"
           => Defaults \subseteq families'
        /\ k.pc = "meta" => versions' # {}

LEMMA RequestGrows ==
    ASSUME NEW c \in Clients, RequestForms(c)
    PROVE  Grows
<1> USE DEF Grows, Kept, table
<1>1. CASE Refusal(c)
  BY <1>1 DEF Refusal, Refused
<1>2. ASSUME NEW from, NEW to, Looks(c, from, to) PROVE Grows
  BY <1>2 DEF Looks
<1>3. ASSUME NEW to \in PCs, Creates(c, to) PROVE Grows
  BY <1>3 DEF Creates
<1>4. CASE AddsFamily(c)
  BY <1>4 DEF AddsFamily
<1>5. CASE MakesFamily(c)
  BY <1>5 DEF MakesFamily
<1>6. CASE ReadsFamilies(c)
  BY <1>6 DEF ReadsFamilies
<1>7. CASE WritesVersion(c)
  BY <1>7 DEF WritesVersion
<1>8. CASE Deletes(c)
  BY <1>8 DEF Deletes
<1>9. CASE WritesMeta(c)
  BY <1>9 DEF WritesMeta
<1>10. CASE TimesOut(c)
  BY <1>10 DEF TimesOut
<1> QED BY <1>1, <1>2, <1>3, <1>4, <1>5, <1>6, <1>7, <1>8, <1>9, <1>10 DEF RequestForms

\* A call for which nothing is done keeps its progress.
LEMMA OthersProgress ==
    ASSUME Grows, NEW c \in Clients, NEW k, Program(c, k), Progress(k)
    PROVE  Progressed(k)
<1> SUFFICES ASSUME k # NoCall, k.val.op = "create_table"
             PROVE  /\ k.pc \in {"families", "check", "version", "meta"} => exists'
                    /\ k.pc = "families" =>
                         \A i \in 1..(k.next - 1) : DefaultFamilies[i] \in families'
                    /\ k.pc \in {"check", "version", "meta"} /\ backend' = "bigtable"
                       => Defaults \subseteq families'
                    /\ k.pc = "meta" => versions' # {}
  BY DEF Progressed
<1>1. /\ k.pc \in {"families", "check", "version", "meta"} => exists'
      /\ k.pc = "meta" => versions' # {}
  BY DEF Grows, Progress
<1>2. /\ k.pc = "families" =>
            \A i \in 1..(k.next - 1) : DefaultFamilies[i] \in families'
      /\ k.pc \in {"check", "version", "meta"} /\ backend' = "bigtable"
         => Defaults \subseteq families'
  BY DEF Grows, Progress, Program
<1> QED BY <1>1, <1>2

\* A call that goes on, or ends without having created the table.
LEMMA GoesComplete ==
    ASSUME SetupInv, CompleteInv, Grows, NEW c \in Clients, NEW k,
           \/ Goes(c, k) /\ Progressed(k)
           \/ Returns(c) /\ (call[c].val.op = "create_table" =>
                               /\ exists' /\ versions' # {} /\ stored' # {}
                               /\ backend = "bigtable" => Defaults \subseteq families')
           \/ Stops(c)
    PROVE  CompleteInv'
<1>1. ASSUME NEW d \in Clients PROVE Progress(call[d])'
  <2>1. CASE d # c
    <3>1. call'[d] = call[d] /\ Program(d, call[d]) /\ Progress(call[d])
      BY <2>1 DEF Goes, Returns, Stops, SetsCall, SetupInv, CompleteInv
    <3>2. Progressed(call[d])
      BY <3>1, OthersProgress
    <3> QED BY <3>1, <3>2, Zenon DEF Progress, Progressed
  <2>2. CASE d = c
    <3>1. CASE call'[c] = NoCall
      BY <2>2, <3>1 DEF Progress
    <3>2. CASE call'[c] = k /\ Progressed(k)
      BY <2>2, <3>2 DEF Progress, Progressed
    <3> QED BY <3>1, <3>2 DEF Goes, Returns, Stops, SetsCall
  <2> QED BY <2>1, <2>2
<1>2. CreatedComplete'
  BY DEF CompleteInv, CreatedComplete, Grows, Goes, Returns, Stops
<1> QED BY <1>1, <1>2 DEF CompleteInv

LEMMA CompleteRequest ==
    ASSUME SetupInv, CompleteInv, NEW c \in Clients, call[c] # NoCall, RequestForms(c)
    PROVE  CompleteInv'
<1>0. /\ TypeOK /\ Grows /\ Progress(call[c]) /\ Program(c, call[c])
      /\ call[c] \in Calls
  BY RequestGrows, CallInProgress DEF SetupInv, CompleteInv
<1>a. \A pc \in PCs : /\ At(c, pc).pc = pc /\ At(c, pc).val = call[c].val
                      /\ At(c, pc).next = call[c].next
  BY <1>0, AtFields DEF TypeOK
<1> USE DEF PCs
<1>1. CASE Refusal(c)
  BY <1>0, <1>1, EndForms, GoesComplete DEF Refusal, Refused
<1>2. CASE Looks(c, "exists", "create")
  <2>1. Progressed(At(c, "create"))
    BY <1>a DEF Progress, Progressed
  <2> QED BY <1>0, <1>2, <2>1, GoesComplete DEF Looks
<1>3. CASE Looks(c, "check", "version")
  <2>1. Progressed(At(c, "version"))
    BY <1>0, <1>3, <1>a DEF Progress, Progressed, Grows, Looks, NoCall
  <2> QED BY <1>0, <1>3, <2>1, GoesComplete DEF Looks
<1>4. ASSUME NEW to \in PCs, Creates(c, to) PROVE CompleteInv'
  <2>1. call[c].next = 1
    BY <1>0, <1>4 DEF Creates, Program
  <2>2. Progressed(At(c, to))
    BY <1>0, <1>4, <1>a, <2>1 DEF Progress, Progressed, Grows, Creates
  <2> QED BY <1>0, <1>4, <2>2, GoesComplete DEF Creates
<1>5. CASE AddsFamily(c)
  <2> DEFINE i == call[c].next
             k == [call[c] EXCEPT !.next = i + 1]
  <2>1. /\ exists' /\ i \in Nat /\ backend = "bigtable" /\ i <= Len(DefaultFamilies)
        /\ \A j \in 1..(i - 1) : DefaultFamilies[j] \in families
        /\ call[c].val.op = "create_table" /\ backend' = backend
    BY <1>0, <1>5, CallFields DEF AddsFamily, Program, Progress, Grows, NoCall, Kept
  <2>2. \A j \in 1..i : DefaultFamilies[j] \in families'
    <3> SUFFICES ASSUME NEW j \in 1..i PROVE DefaultFamilies[j] \in families'
      OBVIOUS
    <3>1. j = i \/ j \in 1..(i - 1)
      BY <2>1
    <3> QED BY <1>5, <2>1, <3>1 DEF AddsFamily
  <2>3. CASE i = Len(DefaultFamilies) /\ Goes(c, At(c, "check"))
    <3>1. Defaults \subseteq families'
      BY <2>2, <2>3 DEF Defaults
    <3>2. Progressed(At(c, "check"))
      BY <1>a, <2>1, <3>1 DEF Progress, Progressed
    <3> QED BY <1>0, <2>3, <3>2, GoesComplete
  <2>4. CASE i # Len(DefaultFamilies) /\ Goes(c, k)
    <3>1. k.pc = call[c].pc /\ k.val = call[c].val /\ k.next = i + 1
      BY <1>0, <2>1, <2>4, NextFamilyFields DEF TypeOK
    <3> HIDE DEF k
    <3>2. \A j \in 1..(k.next - 1) : DefaultFamilies[j] \in families'
      BY <2>1, <2>2, <3>1
    <3>3. k.pc = "families"
      BY <1>5, <3>1 DEF AddsFamily
    <3>4. Progressed(k)
      BY <2>1, <3>2, <3>3 DEF Progress, Progressed
    <3> QED BY <1>0, <2>4, <3>4, GoesComplete
  <2>5. CASE Stops(c)
    BY <1>0, <2>5, GoesComplete
  <2> QED BY <1>5, <2>3, <2>4, <2>5 DEF AddsFamily
<1>6. CASE MakesFamily(c)
  <2>1. call[c].val.op # "create_table"
    BY <1>0, <1>6 DEF MakesFamily, Program
  <2> QED BY <1>0, <1>6, <2>1, GoesComplete DEF MakesFamily
<1>7. CASE ReadsFamilies(c)
  <2>1. call[c].val.op # "create_table" /\ call[c].val \in Values
        /\ call[c].family \in NewFamilies
    BY <1>0, <1>7, CallInProgress DEF ReadsFamilies, Program
  <2>2. CASE Returns(c) \/ Stops(c)
    BY <1>0, <2>1, <2>2, GoesComplete
  <2>3. ASSUME NEW v \in Newest(metas),
               Goes(c, [At(c, "delete") EXCEPT !.val.fams = v.fams \cup {call[c].family}])
        PROVE  CompleteInv'
    <3> DEFINE k == [At(c, "delete") EXCEPT !.val.fams = v.fams \cup {call[c].family}]
    <3>1. v \in Values
      BY <1>0, NewestStored
    <3>2. k.val.op = call[c].val.op
      BY <1>0, <2>1, <3>1, NewFamilyFields DEF TypeOK
    <3>3. Goes(c, k)
      BY <2>3
    <3> HIDE DEF k
    <3>4. Progressed(k)
      BY <2>1, <3>2 DEF Progress, Progressed
    <3> QED BY <1>0, <3>3, <3>4, GoesComplete
  <2> QED BY <1>7, <2>2, <2>3 DEF ReadsFamilies
<1>8. CASE WritesVersion(c)
  <2>1. CASE call[c].val.op = "create_table" /\ Goes(c, At(c, "meta"))
    <3>1. Progressed(At(c, "meta"))
      BY <1>0, <1>8, <1>a, <2>1 DEF Progress, Progressed, Grows, WritesVersion, NoCall
    <3> QED BY <1>0, <2>1, <3>1, GoesComplete
  <2>2. CASE (call[c].val.op # "create_table" /\ Returns(c)) \/ Stops(c)
    BY <1>0, <2>2, GoesComplete
  <2> QED BY <1>8, <2>1, <2>2 DEF WritesVersion
<1>9. CASE Deletes(c)
  <2>1. call[c].val.op # "create_table"
    BY <1>0, <1>9 DEF Deletes, Program
  <2>2. Progressed(At(c, "meta"))
    BY <1>a, <2>1 DEF Progress, Progressed
  <2> QED BY <1>0, <1>9, <2>2, GoesComplete DEF Deletes
<1>10. CASE WritesMeta(c)
  <2>1. call[c].val.op = "create_table" =>
           /\ exists' /\ versions' # {} /\ stored' # {}
           /\ backend = "bigtable" => Defaults \subseteq families'
    BY <1>0, <1>10 DEF WritesMeta, Progress, Grows, NoCall
  <2> QED BY <1>0, <1>10, <2>1, GoesComplete DEF WritesMeta
<1>11. CASE TimesOut(c)
  <2>1. Progressed(call[c])
    BY <1>0, OthersProgress
  <2> QED BY <1>0, <1>11, <2>1, GoesComplete DEF TimesOut
<1> QED
  BY <1>1, <1>2, <1>3, <1>4, <1>5, <1>6, <1>7, <1>8, <1>9, <1>10, <1>11 DEF RequestForms

\* A step that leaves the calls alone.
LEMMA SameCallsComplete ==
    ASSUME SetupInv, CompleteInv, Grows, UNCHANGED <<call, created>>
    PROVE  CompleteInv'
<1>1. ASSUME NEW d \in Clients PROVE Progress(call[d])'
  <2>1. Progressed(call[d])
    BY OthersProgress DEF SetupInv, CompleteInv
  <2> QED BY <2>1, Zenon DEF Progress, Progressed
<1>2. CreatedComplete'
  BY DEF CompleteInv, CreatedComplete, Grows
<1> QED BY <1>1, <1>2 DEF CompleteInv

LEMMA CompleteNext == SetupInv /\ CompleteInv /\ [Next]_vars => CompleteInv'
<1> SUFFICES ASSUME SetupInv, CompleteInv, [Next]_vars PROVE CompleteInv'
  OBVIOUS
<1>1. ASSUME NEW c \in Clients, BeginsCall(c) PROVE CompleteInv'
  <2>1. PICK op \in Operations, pc \in PCs, over \in BOOLEAN,
             family \in NewFamilies \cup {NoFamily}, fams \in SUBSET Families, dict \in BOOLEAN :
                Starts(c, op, pc, over, family, fams, dict)
    BY <1>1 DEF BeginsCall
  <2> DEFINE k == NewCall(c, op, pc, over, family, fams, dict)
  <2>2. /\ UNCHANGED <<exists, versions, stored, created, families, backend>>
        /\ call'[c] = k /\ \A d \in Clients \ {c} : call'[d] = call[d]
        /\ op = "create_table" => pc \in {"exists", "create"}
    BY <2>1 DEF Starts, Begin, table, SetsCall
  <2>3. k.pc = pc /\ k.val.op = op
    BY DEF NewCall
  <2> HIDE DEF k
  <2>4. Grows /\ CreatedComplete'
    BY <2>2 DEF Grows, CompleteInv, CreatedComplete
  <2>5. Progressed(k)
    BY <2>2, <2>3 DEF Progressed
  <2>6. ASSUME NEW d \in Clients PROVE Progress(call[d])'
    <3>1. Progressed(call'[d])
      <4>1. CASE d = c
        BY <2>2, <2>5, <4>1
      <4>2. CASE d # c
        BY <2>2, <2>4, <4>2, OthersProgress DEF SetupInv, CompleteInv
      <4> QED BY <4>1, <4>2
    <3> QED BY <3>1, Zenon DEF Progress, Progressed
  <2> QED BY <2>4, <2>6 DEF CompleteInv
<1>2. ASSUME NEW c \in Clients, Reads(c) PROVE CompleteInv'
  BY <1>2, SameCallsComplete DEF Reads, table, history, Grows
<1>3. ASSUME NEW c \in Clients, Crashes(c) PROVE CompleteInv'
  <2>1. Grows
    BY <1>3 DEF Crashes, table, Grows
  <2>2. CASE Stops(c)
    BY <2>1, <2>2, GoesComplete
  <2>3. CASE UNCHANGED <<call, created>>
    BY <2>1, <2>3, SameCallsComplete
  <2> QED BY <1>3, <2>2, <2>3 DEF Crashes
<1>4. ASSUME NEW p \in late, ServesLate(p) PROVE CompleteInv'
  BY <1>4, SameCallsComplete DEF ServesLate, Grows
<1>5. ASSUME UNCHANGED vars PROVE CompleteInv'
  BY <1>5, SameCallsComplete DEF vars, table, history, Grows
<1> QED BY <1>1, <1>2, <1>3, <1>4, <1>5, CompleteRequest, StepForms

\* A create_table that returned leaves a table with a version and a meta that
\* was written, and in Bigtable with all its families, whatever ran beside it,
\* raised or crashed.
THEOREM CreatedIsComplete == Spec => []CreatedComplete
<1>1. Init => CompleteInv
  BY DEF Init, CompleteInv, CreatedComplete, Progress
<1>2. CompleteInv => CreatedComplete
  BY DEF CompleteInv
<1> QED BY <1>1, <1>2, CompleteNext, SetupInvariant, PTL DEF Spec

-----------------------------------------------------------------------------
(* Where a client has its meta from.                                       *)

\* The client c takes a meta over, and the others keep theirs.
LEMMA OneTakesOver ==
    ASSUME TypeOK, NEW c \in Clients, NEW v, cached' = [cached EXCEPT ![c] = v],
           cached'[c] = v => TakesOver(c)
    PROVE  \A d \in Clients : cached'[d] # cached[d] => TakesOver(d)
<1>1. cached'[c] = v /\ \A d \in Clients \ {c} : cached'[d] = cached[d]
  BY DEF TypeOK
<1> QED BY <1>1

\* The put of the own meta is the next request, after one that left the table
\* so that the meta is what it should be.
LEMMA OwnMeta ==
    ASSUME SetupInv, NEW c \in Clients, cached'[c] = call[c].val, Goes(c, At(c, "meta")),
           exists', call[c].val.op = "create_table" => call[c].val \in versions',
           call[c].over /\ backend # "hbase" => metas' = {}
    PROVE  TakesOver(c)
<1>1. At(c, "meta").pc = "meta" /\ At(c, "meta").val = call[c].val
      /\ At(c, "meta").over = call[c].over
  BY AtFields DEF SetupInv, TypeOK, PCs
<1>2. call'[c] = At(c, "meta")
  BY DEF Goes, SetsCall
<1> QED BY <1>1, <1>2 DEF TakesOver

LEMMA RequestTakesOver ==
    ASSUME SetupInv, FamilyInv, NEW c \in Clients, call[c] # NoCall, RequestForms(c)
    PROVE  \A d \in Clients : cached'[d] # cached[d] => TakesOver(d)
<1>0. TypeOK
  BY DEF SetupInv
<1>1. CASE ReadsFamilies(c)
  <2>1. exists' /\ MetasRead' = MetasRead
    BY <1>1 DEF ReadsFamilies, FamilyInv, table, MetasRead, Newest
  <2>2. ASSUME NEW v \in MetasRead, cached' = [cached EXCEPT ![c] = v]
        PROVE  \A d \in Clients : cached'[d] # cached[d] => TakesOver(d)
    <3>1. cached'[c] = v => TakesOver(c)
      BY <2>1 DEF TakesOver
    <3> QED BY <1>0, <2>2, <3>1, OneTakesOver
  <2>3. Newest(metas) \subseteq MetasRead
    BY DEF MetasRead, Newest
  <2> QED BY <1>1, <2>2, <2>3 DEF ReadsFamilies
<1>2. CASE WritesVersion(c)
  <2>1. CASE Goes(c, At(c, "meta")) /\ cached' = [cached EXCEPT ![c] = call[c].val]
             /\ call[c].val.op = "create_table"
    <3>1. ~call[c].over
      BY <2>1, CallInProgress DEF Program
    <3>2. cached'[c] = call[c].val => TakesOver(c)
      BY <1>2, <2>1, <3>1, OwnMeta DEF WritesVersion
    <3> QED BY <1>0, <2>1, <3>2, OneTakesOver
  <2> QED BY <1>2, <2>1 DEF WritesVersion
<1>3. CASE Deletes(c)
  <2>1. CASE Goes(c, At(c, "meta")) /\ cached' = [cached EXCEPT ![c] = call[c].val]
    <3>1. call[c].val.op # "create_table"
      BY <1>3, CallInProgress DEF Program, Deletes
    <3>2. cached'[c] = call[c].val => TakesOver(c)
      BY <1>3, <2>1, <3>1, OwnMeta DEF Deletes
    <3> QED BY <1>0, <2>1, <3>2, OneTakesOver
  <2> QED BY <1>3, <2>1 DEF Deletes
<1>4. CASE UNCHANGED cached
  BY <1>4
<1> QED
  BY <1>1, <1>2, <1>3, <1>4
     DEF RequestForms, Refusal, Refused, Looks, Creates, AddsFamily, MakesFamily, WritesMeta, TimesOut

LEMMA StepTakesOver ==
    ASSUME SetupInv, FamilyInv, [Next]_vars
    PROVE  \A d \in Clients : cached'[d] # cached[d] => TakesOver(d)
<1>0. TypeOK
  BY DEF SetupInv
<1>1. ASSUME NEW c \in Clients, BeginsCall(c)
      PROVE  \A d \in Clients : cached'[d] # cached[d] => TakesOver(d)
  <2>1. PICK op \in Operations, pc \in PCs, over \in BOOLEAN,
             family \in NewFamilies \cup {NoFamily}, fams \in SUBSET Families, dict \in BOOLEAN :
                Starts(c, op, pc, over, family, fams, dict)
    BY <1>1 DEF BeginsCall
  <2> DEFINE k == NewCall(c, op, pc, over, family, fams, dict)
  <2>2. k.pc = pc /\ k.over = over /\ k.val.op = op
    BY DEF NewCall
  <2>3. call'[c] = k /\ exists' = exists
    BY <2>1 DEF Starts, Begin, SetsCall, table
  <2> HIDE DEF k
  <2>4. CASE op = "update_table_meta" /\ pc = "meta" /\ ~over /\ exists
             /\ cached' = [cached EXCEPT ![c] = call'[c].val]
    <3>1. cached'[c] = call'[c].val => TakesOver(c)
      BY <2>2, <2>3, <2>4 DEF TakesOver
    <3> QED BY <1>0, <2>4, <3>1, OneTakesOver
  <2>5. CASE UNCHANGED cached
    BY <2>5
  <2> QED BY <2>1, <2>4, <2>5 DEF Starts
<1>2. ASSUME NEW c \in Clients, Reads(c)
      PROVE  \A d \in Clients : cached'[d] # cached[d] => TakesOver(d)
  <2>1. PICK v \in MetasRead : cached' = [cached EXCEPT ![c] = v]
    BY <1>2 DEF Reads
  <2>2. exists' /\ MetasRead' = MetasRead
    BY <1>2 DEF Reads, table, MetasRead, Newest
  <2>3. cached'[c] = v => TakesOver(c)
    BY <2>2 DEF TakesOver
  <2> QED BY <1>0, <2>1, <2>3, OneTakesOver
<1>3. ASSUME NEW c \in Clients, Crashes(c)
      PROVE  \A d \in Clients : cached'[d] # cached[d] => TakesOver(d)
  <2>1. PICK m \in TableMetas(c) : cached' = [cached EXCEPT ![c] = m]
    BY <1>3 DEF Crashes
  <2>2. call'[c] = NoCall
    BY <1>3 DEF Crashes, Stops, SetsCall
  <2>3. cached'[c] = m => TakesOver(c)
    BY <2>2 DEF TakesOver
  <2> QED BY <1>0, <2>1, <2>3, OneTakesOver
<1>4. ASSUME NEW c \in Clients, call[c] # NoCall, RequestForms(c)
      PROVE  \A d \in Clients : cached'[d] # cached[d] => TakesOver(d)
  BY <1>4, RequestTakesOver
<1>5. CASE UNCHANGED cached
  BY <1>5
<1>6. ASSUME NEW p \in late, ServesLate(p) PROVE UNCHANGED cached
  BY <1>6 DEF ServesLate
<1> QED BY <1>1, <1>2, <1>3, <1>4, <1>5, <1>6, StepForms DEF vars

LEMMA FamilyNext == SetupInv /\ FamilyInv /\ [Next]_vars => FamilyInv'
<1> SUFFICES ASSUME SetupInv, FamilyInv, [Next]_vars PROVE FamilyInv'
  OBVIOUS
<1>1. ASSUME NEW c \in Clients, BeginsCall(c) PROVE FamilyInv'
  <2>1. PICK op \in Operations, pc \in PCs, over \in BOOLEAN,
             family \in NewFamilies \cup {NoFamily}, fams \in SUBSET Families, dict \in BOOLEAN :
                Starts(c, op, pc, over, family, fams, dict)
    BY <1>1 DEF BeginsCall
  <2>2. /\ exists' = exists /\ \A d \in Clients \ {c} : call'[d] = call[d]
        /\ call'[c].pc = "family" => exists
    BY <2>1 DEF Starts, Begin, SetsCall, table, NewCall
  <2> QED BY <2>2 DEF FamilyInv
\* Later requests of a call are others, and the table stays.
<1>2. ASSUME exists => exists', NEW c \in Clients, \A d \in Clients \ {c} : call'[d] = call[d],
             call'[c] = call[c] \/ call'[c].pc # "family"
      PROVE  FamilyInv'
  BY <1>2 DEF FamilyInv
<1>n. NoCall.pc # "family"
  BY DEF NoCall
<1>3. ASSUME NEW c \in Clients, call[c] # NoCall, RequestForms(c) PROVE FamilyInv'
  <2>0. TypeOK /\ call[c].val \in Values /\ Program(c, call[c]) /\ call[c] \in Calls
    BY <1>3, CallInProgress DEF SetupInv
  <2>1. exists => exists'
    BY <1>3, RequestGrows DEF Grows
  <2>2. CASE Stops(c) \/ Returns(c)
    BY <1>2, <1>n, <2>1, <2>2 DEF Stops, Returns, SetsCall
  <2>3. ASSUME NEW k, Goes(c, k), k = call[c] \/ k.pc # "family" PROVE FamilyInv'
    BY <1>2, <2>1, <2>3 DEF Goes, SetsCall
  <2>a. \A pc \in PCs : At(c, pc).pc = pc
    BY <2>0, AtFields DEF TypeOK
  <2> USE DEF PCs
  <2>4. CASE Refusal(c)
    BY <1>3, <2>2, <2>4, RefusalSetup
  <2>5. ASSUME NEW from, NEW to \in {"create", "version"}, Looks(c, from, to) PROVE FamilyInv'
    BY <2>2, <2>3, <2>5, <2>a DEF Looks
  <2>6. ASSUME NEW to \in PCs, Creates(c, to) PROVE FamilyInv'
    BY <2>2, <2>3, <2>6, <2>a DEF Creates
  <2>7. CASE AddsFamily(c)
    <3>1. CASE call[c].next # Len(DefaultFamilies)
               /\ Goes(c, [call[c] EXCEPT !.next = call[c].next + 1])
      <4>1. [call[c] EXCEPT !.next = call[c].next + 1].pc = call[c].pc
        BY <2>0 DEF Calls
      <4> QED BY <2>3, <2>7, <3>1, <4>1 DEF AddsFamily
    <3> QED BY <2>2, <2>3, <2>7, <2>a, <3>1 DEF AddsFamily
  <2>8. CASE MakesFamily(c)
    BY <2>2, <2>8 DEF MakesFamily
  <2>9. CASE ReadsFamilies(c)
    <3>1. ASSUME NEW v \in Newest(metas),
                 Goes(c, [At(c, "delete") EXCEPT !.val.fams = v.fams \cup {call[c].family}])
          PROVE  FamilyInv'
      <4> DEFINE k == [At(c, "delete") EXCEPT !.val.fams = v.fams \cup {call[c].family}]
      <4>1. k.pc = "delete"
        <5>1. call[c].family \in NewFamilies /\ v \in Values
          BY <2>0, <2>9, <1>3, NewestStored DEF ReadsFamilies, Program
        <5> QED BY <2>0, <5>1, NewFamilyFields DEF TypeOK
      <4>2. Goes(c, k)
        BY <3>1
      <4> HIDE DEF k
      <4> QED BY <2>3, <4>1, <4>2
    <3> QED BY <2>2, <2>9, <3>1 DEF ReadsFamilies
  <2>10. CASE WritesVersion(c) \/ Deletes(c)
    BY <2>2, <2>3, <2>10, <2>a DEF WritesVersion, Deletes
  <2>11. CASE WritesMeta(c)
    BY <2>2, <2>11 DEF WritesMeta
  <2>12. CASE TimesOut(c)
    BY <2>2, <2>3, <2>12 DEF TimesOut
  <2>13. CASE Looks(c, "exists", "create") \/ Looks(c, "check", "version")
    BY <2>5, <2>13
  <2>14. CASE \E to \in PCs : Creates(c, to)
    BY <2>6, <2>14
  <2> QED BY <1>3, <2>4, <2>7, <2>8, <2>9, <2>10, <2>11, <2>12, <2>13, <2>14 DEF RequestForms
<1>4. ASSUME NEW c \in Clients, Crashes(c) PROVE FamilyInv'
  BY <1>2, <1>4, <1>n DEF Crashes, Stops, SetsCall, table
<1>5. ASSUME UNCHANGED <<call, exists>> PROVE FamilyInv'
  BY <1>5 DEF FamilyInv
<1>6. ASSUME NEW c \in Clients, Reads(c) PROVE FamilyInv'
  BY <1>5, <1>6 DEF Reads, table
<1>7. ASSUME NEW p \in late, ServesLate(p) PROVE FamilyInv'
  BY <1>5, <1>7 DEF ServesLate
<1>8. ASSUME UNCHANGED vars PROVE FamilyInv'
  BY <1>5, <1>8 DEF vars, table
<1> QED BY <1>1, <1>3, <1>4, <1>6, <1>7, <1>8, StepForms

\* A client takes a meta over only from the table, from the caller of its
\* constructor, or from a write of its own of which the put of the meta alone is left:
\* with the version of its create_table in the table, and after the delete of its
\* overwriting update.  No refused or raised create_table changes what it has.
THEOREM MetaIsTakenOver == Spec => MetaTakenOver
<1>1. Init => FamilyInv
  BY DEF Init, FamilyInv, NoCall
<1>2. SetupInv /\ FamilyInv /\ [Next]_vars
         => [\A c \in Clients : cached'[c] # cached[c] => TakesOver(c)]_vars
  BY StepTakesOver
<1> QED BY <1>1, <1>2, FamilyNext, SetupInvariant, PTL DEF Spec, MetaTakenOver

-----------------------------------------------------------------------------
(* One creator.                                                            *)

\* A step that adds nothing to the Creations.
NoCreation(c) ==
    /\ backend' = backend /\ late' = late /\ (exists => exists')
    /\ \A d \in Clients \ {c} : call'[d] = call[d]
    /\ Creating(c)' => call'[c].val \in Creations
    /\ \A v \in versions' \cup stored' : v.op = "create_table" => v \in Creations

LEMMA NoCreationKeeps ==
    ASSUME CreatorInv, NEW c \in Clients, NoCreation(c)
    PROVE  CreatorInv'
<1>1. Creations' \subseteq Creations
  <2> SUFFICES ASSUME NEW v \in Creations' PROVE v \in Creations
    OBVIOUS
  <2>1. CASE v \in versions' \cup stored' /\ v.op = "create_table"
    BY <2>1 DEF NoCreation
  <2>2. ASSUME NEW d \in Clients, Creating(d)', v = call'[d].val PROVE v \in Creations
    <3>1. CASE d = c
      BY <2>2, <3>1 DEF NoCreation
    <3>2. CASE d # c
      <4>1. Creating(d) /\ v = call[d].val
        BY <2>2, <3>2 DEF NoCreation, Creating
      <4> QED BY <4>1 DEF Creations
    <3> QED BY <3>1, <3>2
  <2> QED BY <2>1, <2>2 DEF Creations
<1> QED BY <1>1 DEF CreatorInv, NoCreation

\* The values that a request finds in the table, and its own once it created it.
LEMMA CreationsHave ==
    ASSUME NEW c \in Clients
    PROVE  /\ \A v \in versions \cup stored : v.op = "create_table" => v \in Creations
           /\ Creating(c) => call[c].val \in Creations
BY DEF Creations

LEMMA EndsNoCreation ==
    ASSUME NEW c \in Clients, SetsCall(c, NoCall), UNCHANGED <<backend, late>>,
           exists => exists',
           \A v \in versions' \cup stored' : v.op = "create_table" => v \in Creations
    PROVE  NoCreation(c)
BY DEF SetsCall, NoCreation, Creating

\* Only the create request of a table that is not there adds a creation.
LEMMA CreatorRequest ==
    ASSUME SetupInv, CreatorInv, NEW c \in Clients, call[c] # NoCall, RequestForms(c),
           backend # "hbase"
    PROVE  CreatorInv'
<1>0. /\ TypeOK /\ Grows /\ Program(c, call[c]) /\ call[c] \in Calls
      /\ \A v \in versions \cup stored : v.op = "create_table" => v \in Creations
      /\ Creating(c) => call[c].val \in Creations
  BY RequestGrows, CallInProgress, CreationsHave DEF SetupInv
<1>g. (exists => exists') /\ backend' = backend
  BY <1>0 DEF Grows
<1>a. \A pc \in PCs : /\ At(c, pc).pc = pc /\ At(c, pc).val = call[c].val
  BY <1>0, AtFields DEF TypeOK
<1>s. Stops(c) \/ Returns(c) => SetsCall(c, NoCall)
  BY DEF Stops, Returns
<1> USE DEF PCs
<1>1. CASE Refusal(c)
  <2>1. Stops(c)
    BY <1>0, <1>1, EndForms DEF Refusal, Refused
  <2> QED BY <1>0, <1>g, <1>s, <1>1, <2>1, EndsNoCreation, NoCreationKeeps
          DEF Refusal, Refused, table, Kept
<1>2. ASSUME NEW from \in PCs, NEW to \in PCs, Looks(c, from, to),
             <<from, to>> \in {<<"exists", "create">>, <<"check", "version">>}
      PROVE  CreatorInv'
  <2>1. UNCHANGED <<versions, stored, late>> /\ call[c].pc = from
    BY <1>2 DEF Looks, table
  <2>2. CASE Stops(c)
    BY <1>0, <1>g, <1>s, <2>1, <2>2, EndsNoCreation, NoCreationKeeps
  <2>3. CASE Goes(c, At(c, to))
    <3>1. call'[c].pc = to /\ call'[c].val = call[c].val
      BY <1>2, <1>a, <2>3 DEF Goes, SetsCall
    <3>2. Creating(c)' => Creating(c)
      BY <1>2, <2>1, <3>1 DEF Creating, NoCall
    <3> QED BY <1>0, <1>g, <2>1, <2>3, <3>1, <3>2, NoCreationKeeps
            DEF NoCreation, Goes, SetsCall
  <2> QED BY <1>2, <2>2, <2>3 DEF Looks
<1>3. ASSUME NEW to \in PCs, Creates(c, to) PROVE CreatorInv'
  <2>1. /\ Creations = {} /\ exists' /\ late' = {}
        /\ UNCHANGED <<versions, stored>> /\ \A d \in Clients \ {c} : call'[d] = call[d]
    BY <1>3 DEF Creates, CreatorInv, Goes, Stops, SetsCall
  <2>2. call'[c] = NoCall \/ call'[c].val = call[c].val
    BY <1>3, <1>a DEF Creates, Goes, Stops, SetsCall
  <2>3. \A v \in Creations' : v = call[c].val
    <3> SUFFICES ASSUME NEW v \in Creations' PROVE v = call[c].val
      OBVIOUS
    <3>1. CASE v \in versions' \cup stored' /\ v.op = "create_table"
      BY <1>0, <2>1, <3>1
    <3>2. ASSUME NEW d \in Clients, Creating(d)', v = call'[d].val PROVE v = call[c].val
      <4>1. CASE d = c
        BY <2>2, <3>2, <4>1 DEF Creating
      <4>2. CASE d # c
        <5>1. Creating(d)
          BY <2>1, <3>2, <4>2 DEF Creating
        <5> QED BY <2>1, <5>1 DEF Creations
      <4> QED BY <4>1, <4>2
    <3> QED BY <3>1, <3>2 DEF Creations
  <2> QED BY <2>1, <2>3 DEF CreatorInv
<1>4. CASE AddsFamily(c)
  <2> DEFINE i == call[c].next
             k == [call[c] EXCEPT !.next = i + 1]
  <2>1. UNCHANGED <<versions, stored, late>> /\ call[c].pc = "families"
    BY <1>4 DEF AddsFamily
  <2>2. CASE Stops(c)
    BY <1>0, <1>g, <1>s, <2>1, <2>2, EndsNoCreation, NoCreationKeeps
  <2>3. ASSUME NEW e, Goes(c, e), e.val = call[c].val PROVE CreatorInv'
    <3>1. Creating(c)
      BY <1>0, <2>1 DEF Creating, Program, NoCall
    <3>2. call'[c].val = call[c].val
      BY <2>3 DEF Goes, SetsCall
    <3> QED BY <1>0, <1>g, <2>1, <2>3, <3>1, <3>2, NoCreationKeeps
            DEF NoCreation, Goes, SetsCall
  <2>4. CASE i = Len(DefaultFamilies) /\ Goes(c, At(c, "check"))
    BY <1>a, <2>3, <2>4
  <2>5. CASE i # Len(DefaultFamilies) /\ Goes(c, k)
    <3>1. i <= Len(DefaultFamilies)
      BY <1>0, <2>1 DEF Program, NoCall
    <3>2. k.val = call[c].val
      BY <1>0, <2>5, <3>1, NextFamilyFields DEF TypeOK
    <3> HIDE DEF k
    <3> QED BY <2>3, <2>5, <3>2
  <2> QED BY <1>4, <2>2, <2>4, <2>5 DEF AddsFamily
<1>5. CASE MakesFamily(c)
  BY <1>0, <1>g, <1>s, <1>5, EndsNoCreation, NoCreationKeeps DEF MakesFamily
<1>6. CASE ReadsFamilies(c)
  <2>1. /\ UNCHANGED <<versions, stored, late>> /\ call[c].val \in Values
        /\ call[c].val.op = "create_column_family" /\ call[c].family \in NewFamilies
    BY <1>0, <1>6, CallInProgress DEF ReadsFamilies, table, Program
  <2>2. CASE Stops(c) \/ Returns(c)
    BY <1>0, <1>g, <1>s, <2>1, <2>2, EndsNoCreation, NoCreationKeeps
  <2>3. ASSUME NEW v \in Newest(metas),
               Goes(c, [At(c, "delete") EXCEPT !.val.fams = v.fams \cup {call[c].family}])
        PROVE  CreatorInv'
    <3> DEFINE k == [At(c, "delete") EXCEPT !.val.fams = v.fams \cup {call[c].family}]
    <3>1. k.val.op = call[c].val.op
      BY <1>0, <2>1, NewestStored, NewFamilyFields DEF TypeOK
    <3>2. Goes(c, k)
      BY <2>3
    <3> HIDE DEF k
    <3>3. ~Creating(c)'
      BY <2>1, <3>1, <3>2 DEF Goes, SetsCall, Creating
    <3> QED BY <1>0, <1>g, <2>1, <3>2, <3>3, NoCreationKeeps DEF NoCreation, Goes, SetsCall
  <2> QED BY <1>6, <2>2, <2>3 DEF ReadsFamilies
<1>7. CASE WritesVersion(c)
  <2>1. UNCHANGED <<stored, late>> /\ versions' = versions \cup {call[c].val}
    BY <1>7 DEF WritesVersion
  <2>2. call[c].val.op = "create_table" => Creating(c)
    BY <1>7 DEF WritesVersion, Creating, NoCall
  <2>3. \A v \in versions' \cup stored' : v.op = "create_table" => v \in Creations
    BY <1>0, <2>1, <2>2
  <2>4. CASE Stops(c) \/ Returns(c)
    BY <1>g, <1>s, <2>1, <2>3, <2>4, EndsNoCreation, NoCreationKeeps
  <2>5. CASE call[c].val.op = "create_table" /\ Goes(c, At(c, "meta"))
    <3>1. call'[c].val = call[c].val
      BY <1>a, <2>5 DEF Goes, SetsCall
    <3> QED BY <1>0, <1>g, <2>1, <2>2, <2>3, <2>5, <3>1, NoCreationKeeps
            DEF NoCreation, Goes, SetsCall
  <2> QED BY <1>7, <2>4, <2>5 DEF WritesVersion
<1>8. CASE Deletes(c)
  <2>1. UNCHANGED <<versions, stored, late>> /\ call[c].val.op # "create_table"
    BY <1>0, <1>8 DEF Deletes, Program, NoCall
  <2>2. CASE Stops(c)
    BY <1>0, <1>g, <1>s, <2>1, <2>2, EndsNoCreation, NoCreationKeeps
  <2>3. CASE Goes(c, At(c, "meta"))
    <3>1. ~Creating(c)'
      BY <1>a, <2>1, <2>3 DEF Goes, SetsCall, Creating
    <3> QED BY <1>0, <1>g, <2>1, <2>3, <3>1, NoCreationKeeps DEF NoCreation, Goes, SetsCall
  <2> QED BY <1>8, <2>2, <2>3 DEF Deletes
<1>9. CASE WritesMeta(c)
  <2>1. call[c].val.op = "create_table" => Creating(c)
    BY <1>9 DEF WritesMeta, Creating, NoCall
  <2>2. \A v \in versions' \cup stored' : v.op = "create_table" => v \in Creations
    BY <1>0, <1>9, <2>1 DEF WritesMeta
  <2> QED BY <1>g, <1>s, <1>9, <2>2, EndsNoCreation, NoCreationKeeps DEF WritesMeta
<1>10. ~TimesOut(c)
  BY DEF TimesOut
<1>11. CASE Looks(c, "exists", "create") \/ Looks(c, "check", "version")
  <2>1. CASE Looks(c, "exists", "create")
    BY <1>2, <2>1
  <2>2. CASE Looks(c, "check", "version")
    BY <1>2, <2>2
  <2> QED BY <1>11, <2>1, <2>2
<1>12. CASE \E to \in PCs : Creates(c, to)
  BY <1>3, <1>12
<1> QED BY <1>1, <1>11, <1>12, <1>4, <1>5, <1>6, <1>7, <1>8, <1>9, <1>10 DEF RequestForms

LEMMA CreatorNext == SetupInv /\ CreatorInv /\ [Next]_vars => CreatorInv'
<1> SUFFICES ASSUME SetupInv, CreatorInv, [Next]_vars PROVE CreatorInv'
  OBVIOUS
<1>1. ASSUME NEW c \in Clients, call[c] # NoCall, RequestForms(c) PROVE CreatorInv'
  <2>1. backend' = backend
    BY <1>1, RequestGrows DEF Grows
  <2>2. CASE backend = "hbase"
    BY <2>1, <2>2 DEF CreatorInv
  <2> QED BY <1>1, <2>2, CreatorRequest
<1>2. ASSUME NEW c \in Clients, BeginsCall(c) PROVE CreatorInv'
  <2>1. PICK op \in Operations, pc \in PCs, over \in BOOLEAN,
             family \in NewFamilies \cup {NoFamily}, fams \in SUBSET Families, dict \in BOOLEAN :
                Starts(c, op, pc, over, family, fams, dict)
    BY <1>2 DEF BeginsCall
  <2> DEFINE k == NewCall(c, op, pc, over, family, fams, dict)
  <2>2. /\ UNCHANGED <<exists, versions, stored, late, backend>>
        /\ call'[c] = k /\ \A d \in Clients \ {c} : call'[d] = call[d]
        /\ op = "create_table" => pc \in {"exists", "create"}
    BY <2>1 DEF Starts, Begin, table, SetsCall
  <2>3. k.pc = pc /\ k.val.op = op
    BY DEF NewCall
  <2> HIDE DEF k
  <2>4. ~Creating(c)'
    BY <2>2, <2>3 DEF Creating
  <2> QED BY <2>2, <2>4, CreationsHave, NoCreationKeeps DEF NoCreation
<1>3. ASSUME UNCHANGED <<exists, versions, stored, late, backend, call>> PROVE CreatorInv'
  <2>1. Creations' = Creations
    BY <1>3 DEF Creations, Creating
  <2> QED BY <1>3, <2>1 DEF CreatorInv
<1>4. ASSUME NEW c \in Clients, Reads(c) PROVE CreatorInv'
  BY <1>3, <1>4 DEF Reads, table, history
<1>5. ASSUME NEW c \in Clients, Crashes(c) PROVE CreatorInv'
  <2>1. UNCHANGED <<exists, versions, stored, late, backend>>
    BY <1>5 DEF Crashes, table
  <2>2. CASE Stops(c)
    BY <2>1, <2>2, CreationsHave, EndsNoCreation, NoCreationKeeps DEF Stops
  <2>3. CASE UNCHANGED call
    BY <1>3, <2>1, <2>3
  <2> QED BY <1>5, <2>2, <2>3 DEF Crashes
<1>6. ASSUME NEW p \in late, ServesLate(p) PROVE CreatorInv'
  <2>1. late # {} /\ backend' = backend
    BY <1>6 DEF ServesLate
  <2> QED BY <2>1 DEF CreatorInv
<1>7. ASSUME UNCHANGED vars PROVE CreatorInv'
  BY <1>3, <1>7 DEF vars, table, history
<1> QED BY <1>1, <1>2, <1>4, <1>5, <1>6, <1>7, StepForms

LEMMA CreatorInit == Init => CreatorInv
<1> SUFFICES ASSUME Init PROVE CreatorInv
  OBVIOUS
<1>1. Creations = {}
  BY DEF Init, Creations, Creating
<1> QED BY <1>1 DEF Init, CreatorInv

\* In Bigtable and VAST the version and the meta that create_table calls wrote are
\* those of one call, however many clients create the table at once.
THEOREM OneCreatorOnly == Spec => []OneCreator
<1>1. CreatorInv => OneCreator
  BY DEF CreatorInv, OneCreator, Creations
<1> QED BY <1>1, CreatorInit, CreatorNext, SetupInvariant, PTL DEF Spec

-----------------------------------------------------------------------------
(* A call with no other one at the same time takes effect.                 *)

\* A meta that is written with a time stamp after those of the others is the
\* newest one.
LEMMA PutNewest ==
    ASSUME TypeOK, NEW v \in Values, NEW ts \in 1..MaxTime, Put(v, ts),
           \A m \in metas : m.ts <= ts /\ (backend = "vast" => m.ts < ts)
    PROVE  metas' # {} /\ \A w \in Newest(metas') : w = v
<1> DEFINE new == [val |-> v, ts |-> ts]
<1>1. new \in metas' /\ new.ts = ts /\ new.val = v
  BY DEF Put
<1>2. \A m \in metas' : m = new \/ (m.ts \in Nat /\ m.ts < ts)
  <2> SUFFICES ASSUME NEW m \in metas, m \in metas', m # new PROVE m.ts \in Nat /\ m.ts < ts
    BY DEF Put
  <2>1. m.ts \in Nat
    BY DEF TypeOK, Cells
  <2>2. backend = "vast" \/ m.ts # ts
    BY DEF Put
  <2> QED BY <2>1, <2>2
<1> HIDE DEF new
<1>3. ASSUME NEW w \in Newest(metas') PROVE w = v
  <2>1. PICK m \in metas' : w = m.val /\ \A e \in metas' : e.ts <= m.ts
    BY DEF Newest
  <2>2. ts <= m.ts
    BY <1>1, <2>1
  <2> QED BY <1>1, <1>2, <2>1, <2>2
<1> QED BY <1>1, <1>3

LEMMA StopsLone ==
    ASSUME SetupInv, LoneInv, NEW c \in Clients, call[c] # NoCall, Stops(c)
    PROVE  LoneInv'
<1>1. lone' = NotLone
  BY LoneFields, CallInProgress DEF SetupInv, LoneInv, LoneCall, Stops
<1> QED BY <1>1 DEF LoneInv, LoneCallTakesEffect, NotLone

\* While there is no lone call, the other calls do not matter.
LEMMA NoneLone ==
    ASSUME SetupInv, LoneInv, NEW c \in Clients, call[c] # NoCall, NEW k,
           Goes(c, k) \/ Returns(c), lone.n = 0
    PROVE  LoneInv'
<1>1. lone' = NotLone
  BY LoneFields, CallInProgress DEF SetupInv, Goes, Returns
<1> QED BY <1>1 DEF LoneInv, LoneCallTakesEffect, NotLone

LEMMA GoesLone ==
    ASSUME SetupInv, LoneInv, NEW c \in Clients, call[c] # NoCall, NEW k, Goes(c, k),
           k.val.n = call[c].val.n, k.val.op = call[c].val.op,
           \A p \in late' : p \in late \/ p.val = call[c].val,
           backend' = backend,
           lone.n # 0 /\ backend # "hbase" =>
              /\ k.pc # "family"
              /\ lone.op \in {"create_table", "update_table_meta"} /\ ~k.over
                 => \A m \in metas' : m.val.by = c
              /\ k.over /\ k.pc = "meta" => metas' = {}
              /\ k.pc \in {"delete", "meta"} => lone.families \subseteq k.val.fams
    PROVE  LoneInv'
<1>1. CASE lone.n = 0
  BY <1>1, NoneLone
<1>2. CASE lone.n # 0
  <2>1. /\ LoneCall(c) /\ lone' = lone /\ call'[c] = k
        /\ \A d \in Clients \ {c} : call'[d] = call[d]
    BY <1>2 DEF LoneInv, Goes, SetsCall
  <2>2. /\ ~lone.done /\ k.val.n = lone.n /\ k.val.op = lone.op
        /\ \A d \in Clients \ {c} : call'[d] = NoCall
    BY <2>1 DEF LoneCall
  <2>3. \A p \in late' : p.val.n = lone'.n
    BY <1>2, <2>1, <2>2 DEF LoneInv
  <2>4. LoneCall(c)'
    BY <1>2, <2>1, <2>2 DEF LoneCall
  <2>5. ASSUME NEW d \in Clients PROVE LoneCall(d)'
    <3>1. CASE d = c
      BY <2>4, <3>1
    <3>2. CASE d # c
      BY <2>2, <3>2 DEF LoneCall
    <3> QED BY <3>1, <3>2
  <2> QED BY <2>1, <2>2, <2>3, <2>5 DEF LoneInv, LoneCallTakesEffect
<1> QED BY <1>1, <1>2

LEMMA ReturnsLone ==
    ASSUME SetupInv, LoneInv, NEW c \in Clients, call[c] # NoCall, Returns(c),
           UNCHANGED <<late, backend>>,
           lone.n # 0 =>
              /\ lone.op \in {"create_table", "update_table_meta"} =>
                    \A v \in Newest(metas') : v.n = lone.n
              /\ backend # "hbase" /\ lone.op = "create_column_family"
                 => lone.families \subseteq FamiliesNow'
    PROVE  LoneInv'
<1>1. CASE lone.n = 0
  BY <1>1, NoneLone
<1>2. CASE lone.n # 0
  <2>1. LoneCall(c) /\ SetsCall(c, NoCall)
    BY <1>2 DEF LoneInv, Returns
  <2>2. \A d \in Clients : call'[d] = NoCall
    BY <2>1 DEF LoneCall, SetsCall
  <2>3. lone'.n = lone.n /\ lone'.op = lone.op /\ lone'.families = lone.families
    BY <1>2, LoneDone DEF SetupInv, Returns
  <2>4. \A d \in Clients : LoneCall(d)'
    BY <2>2 DEF LoneCall
  <2>5. LoneCallTakesEffect'
    <3>1. lone.op # "create_column_family" => lone.families = {}
      BY DEF LoneInv
    <3> QED BY <1>2, <2>3, <3>1 DEF LoneCallTakesEffect
  <2> QED BY <1>2, <2>3, <2>4, <2>5 DEF LoneInv
<1> QED BY <1>1, <1>2

LEMMA SameLone ==
    ASSUME LoneInv, UNCHANGED <<backend, families, metas, late, call, lone>>
    PROVE  LoneInv'
<1>1. FamiliesNow' = FamiliesNow /\ Newest(metas)' = Newest(metas)
  BY DEF FamiliesNow, Newest
<1>2. \A c \in Clients : LoneCall(c) <=> LoneCall(c)'
  BY <1>1 DEF LoneCall
<1> QED BY <1>1, <1>2 DEF LoneInv, LoneCallTakesEffect

\* The put of the meta of a lone call.
LEMMA WritesMetaLone ==
    ASSUME SetupInv, LoneInv, NEW c \in Clients, call[c] # NoCall, WritesMeta(c)
    PROVE  LoneInv'
<1>1. /\ TypeOK /\ Program(c, call[c]) /\ call[c].val \in Values
      /\ call[c].pc = "meta" /\ UNCHANGED <<late, backend>>
  BY CallInProgress DEF SetupInv, WritesMeta, Kept
<1>2. CASE Stops(c)
  BY <1>2, StopsLone
<1>3. CASE Returns(c)
  <2> SUFFICES ASSUME lone.n # 0
               PROVE  /\ lone.op \in {"create_table", "update_table_meta"} =>
                            \A v \in Newest(metas') : v.n = lone.n
                      /\ backend # "hbase" /\ lone.op = "create_column_family"
                         => lone.families \subseteq FamiliesNow'
    BY <1>1, <1>3, ReturnsLone
  <2>1. PICK ts \in Stamps(c) : Put(call[c].val, ts)
    BY DEF WritesMeta
  <2>2. LoneCall(c) /\ call[c].val.n = lone.n /\ call[c].val.op = lone.op
    BY DEF LoneInv, LoneCall
  <2>3. ts \in 1..MaxTime
    BY DEF Stamps
  <2>4. \A m \in metas : m.ts \in Nat
    BY <1>1 DEF TypeOK, Cells
  <2>5. CASE backend = "hbase"
    <3>1. \A m \in metas : m.ts <= ts /\ (backend = "vast" => m.ts < ts)
      BY <2>5 DEF Stamps
    <3> QED BY <1>1, <2>1, <2>2, <2>3, <2>5, <3>1, PutNewest
  <2>6. CASE backend # "hbase"
    <3>1. CASE call[c].over
      <4>1. metas = {} /\ lone.families \subseteq call[c].val.fams
        BY <1>1, <2>2, <2>6, <3>1 DEF LoneCall
      <4>2. metas' # {} /\ \A w \in Newest(metas') : w = call[c].val
        BY <1>1, <2>1, <2>3, <4>1, PutNewest
      <4>3. lone.op = "create_column_family" => backend' = "vast"
        BY <1>1, <2>2 DEF Program
      <4>4. lone.families \subseteq Families
        BY <1>1, LoneFields
      <4> QED BY <2>2, <4>1, <4>2, <4>3, <4>4 DEF FamiliesNow
    <3>2. CASE ~call[c].over
      <4>1. lone.op \in {"create_table", "update_table_meta"}
        BY <1>1, <2>2, <3>2, ValueFields DEF Program, Operations
      <4>2. \A m \in metas : m.val.by = c
        BY <2>2, <2>6, <3>2, <4>1 DEF LoneCall
      <4>3. \A m \in metas : m.ts <= ts /\ (backend = "vast" => m.ts < ts)
        BY <2>3, <2>4, <2>6, <4>2 DEF Stamps
      <4>4. \A w \in Newest(metas') : w = call[c].val
        BY <1>1, <2>1, <2>3, <4>3, PutNewest
      <4> QED BY <2>2, <4>1, <4>4
    <3> QED BY <3>1, <3>2
  <2> QED BY <2>5, <2>6
<1> QED BY <1>2, <1>3 DEF WritesMeta

LEMMA LoneRequest ==
    ASSUME SetupInv, LoneInv, NEW c \in Clients, call[c] # NoCall, RequestForms(c)
    PROVE  LoneInv'
<1>0. /\ TypeOK /\ Program(c, call[c]) /\ call[c].val \in Values /\ call[c] \in Calls
      /\ call[c].val.n \in 1..MaxCalls
  BY CallInProgress DEF SetupInv
<1>a. \A pc \in PCs : /\ At(c, pc).pc = pc /\ At(c, pc).val = call[c].val
                      /\ At(c, pc).over = call[c].over
  BY <1>0, AtFields DEF TypeOK
<1>b. lone.n # 0 => LoneCall(c) /\ call[c].val.n = lone.n /\ call[c].val.op = lone.op
  BY DEF LoneInv, LoneCall
<1>c. lone.op # "create_column_family" => lone.families = {}
  BY DEF LoneInv
<1>d. backend' = backend
  BY RequestGrows DEF Grows
<1>e. CASE Stops(c)
  BY <1>e, StopsLone
<1> USE DEF PCs
\* A request that leaves the metas alone.
<1>f. ASSUME NEW k, Goes(c, k), UNCHANGED <<metas, late>>, k.pc # "family",
             k.val = call[c].val, k.over = call[c].over,
             k.pc \in {"delete", "meta"} =>
                call[c].pc = k.pc \/ call[c].val.op = "create_table"
      PROVE  LoneInv'
  <2>1. lone.n # 0 /\ backend # "hbase" =>
           /\ lone.op \in {"create_table", "update_table_meta"} /\ ~k.over
              => \A m \in metas' : m.val.by = c
           /\ k.over /\ k.pc = "meta" => metas' = {}
           /\ k.pc \in {"delete", "meta"} => lone.families \subseteq k.val.fams
    BY <1>0, <1>b, <1>c, <1>f DEF LoneCall, Program
  <2> QED BY <1>d, <1>f, <2>1, GoesLone
<1>1. CASE Refusal(c)
  <2>1. Stops(c)
    BY <1>0, <1>1, EndForms DEF Refusal, Refused
  <2> QED BY <2>1, StopsLone
<1>2. ASSUME NEW from \in PCs, NEW to \in {"create", "version"}, Looks(c, from, to)
      PROVE  LoneInv'
  BY <1>2, <1>a, <1>e, <1>f DEF Looks, table
<1>3. ASSUME NEW to \in PCs, Creates(c, to) PROVE LoneInv'
  BY <1>3, <1>a, <1>e, <1>f DEF Creates
<1>4. CASE AddsFamily(c)
  <2> DEFINE i == call[c].next
             k == [call[c] EXCEPT !.next = i + 1]
  <2>1. UNCHANGED <<metas, late>> /\ call[c].pc = "families" /\ i <= Len(DefaultFamilies)
    BY <1>0, <1>4 DEF AddsFamily, Program
  <2>2. CASE i = Len(DefaultFamilies) /\ Goes(c, At(c, "check"))
    BY <1>a, <1>f, <2>1, <2>2
  <2>3. CASE i # Len(DefaultFamilies) /\ Goes(c, k)
    <3>1. k.val = call[c].val /\ k.pc = "families" /\ k.over = call[c].over
      BY <1>0, <2>1, <2>3, NextFamilyFields DEF TypeOK
    <3> HIDE DEF k
    <3> QED BY <1>f, <2>1, <2>3, <3>1
  <2> QED BY <1>4, <1>e, <2>2, <2>3 DEF AddsFamily
<1>5. CASE MakesFamily(c)
  <2>1. UNCHANGED <<metas, late>> /\ call[c].val.op = "create_column_family"
    BY <1>0, <1>5 DEF MakesFamily, Program
  <2>2. lone.n # 0 /\ backend # "hbase" => lone.families \subseteq FamiliesNow'
    BY <1>5, <1>b, <1>d DEF MakesFamily, LoneCall, FamiliesNow
  <2>3. CASE Returns(c)
    BY <1>b, <1>d, <2>1, <2>2, <2>3, ReturnsLone
  <2> QED BY <1>5, <1>e, <2>3 DEF MakesFamily
<1>6. CASE ReadsFamilies(c)
  <2>1. /\ UNCHANGED <<metas, late>> /\ backend = "vast" /\ call[c].pc = "family"
        /\ call[c].val.op = "create_column_family" /\ call[c].family \in NewFamilies
        /\ call[c].over
    BY <1>0, <1>6 DEF ReadsFamilies, table, Program
  <2>2. CASE Returns(c) /\ \E v \in MetasRead : metas # {} => ~v.dict
    <3>1. lone.n = 0
      BY <1>b, <2>1, <2>2 DEF LoneCall, MetasRead
    <3> QED BY <1>d, <2>1, <2>2, <3>1, ReturnsLone
  <2>3. ASSUME NEW v \in Newest(metas),
               Goes(c, [At(c, "delete") EXCEPT !.val.fams = v.fams \cup {call[c].family}])
        PROVE  LoneInv'
    <3> DEFINE k == [At(c, "delete") EXCEPT !.val.fams = v.fams \cup {call[c].family}]
    <3>1. /\ k.val.op = call[c].val.op /\ k.val.n = call[c].val.n /\ k.pc = "delete"
          /\ k.over = call[c].over /\ k.val.fams = v.fams \cup {call[c].family}
      BY <1>0, <2>1, NewestStored, NewFamilyFields DEF TypeOK
    <3>2. Goes(c, k)
      BY <2>3
    <3>3. lone.n # 0 => lone.families \subseteq v.fams \cup {call[c].family}
      <4>1. FamiliesNow \subseteq v.fams
        BY <2>1 DEF FamiliesNow
      <4> QED BY <1>b, <2>1, <4>1 DEF LoneCall
    <3> HIDE DEF k
    <3> QED BY <1>b, <1>d, <2>1, <3>1, <3>2, <3>3, GoesLone
  <2> QED BY <1>6, <1>e, <2>2, <2>3 DEF ReadsFamilies
<1>7. CASE WritesVersion(c)
  <2>1. UNCHANGED <<metas, late>> /\ call[c].pc = "version"
    BY <1>7 DEF WritesVersion
  <2>2. CASE call[c].val.op = "create_table" /\ Goes(c, At(c, "meta"))
    BY <1>a, <1>f, <2>1, <2>2
  <2>3. CASE call[c].val.op # "create_table" /\ Returns(c)
    <3>1. call[c].val.op = "add_table_version"
      BY <1>0, <2>1, <2>3 DEF Program
    <3> QED BY <1>b, <1>d, <2>1, <2>3, <3>1, ReturnsLone
  <2> QED BY <1>7, <1>e, <2>2, <2>3 DEF WritesVersion
<1>8. CASE Deletes(c)
  <2>1. /\ call[c].pc = "delete" /\ call[c].over /\ UNCHANGED late
        /\ backend # "hbase" => metas' = {}
    BY <1>0, <1>8 DEF Deletes, Program
  <2>2. CASE Goes(c, At(c, "meta"))
    <3>1. lone.n # 0 /\ backend # "hbase" => lone.families \subseteq call[c].val.fams
      BY <1>b, <2>1 DEF LoneCall
    <3>2. At(c, "meta").pc = "meta" /\ At(c, "meta").val = call[c].val /\ At(c, "meta").over
      BY <1>a, <2>1
    <3> QED BY <1>d, <2>1, <2>2, <3>1, <3>2, GoesLone
  <2> QED BY <1>8, <1>e, <2>2 DEF Deletes
<1>9. CASE WritesMeta(c)
  BY <1>9, WritesMetaLone
<1>10. CASE TimesOut(c)
  <2>1. /\ backend = "hbase"
        /\ \A p \in late' : p \in late \/ p.val = call[c].val
    BY <1>10 DEF TimesOut
  <2>2. CASE Goes(c, call[c])
    BY <1>d, <2>1, <2>2, GoesLone
  <2> QED BY <1>10, <1>e, <2>2 DEF TimesOut
<1>11. CASE Looks(c, "exists", "create") \/ Looks(c, "check", "version")
  BY <1>2, <1>11
<1>12. CASE \E to \in PCs : Creates(c, to)
  BY <1>3, <1>12
<1> QED
  BY <1>1, <1>4, <1>5, <1>6, <1>7, <1>8, <1>9, <1>10, <1>11, <1>12 DEF RequestForms

\* A call that starts while there is no other one.
LEMMA BeginsLone ==
    ASSUME SetupInv, LoneInv, NEW c \in Clients, NEW op \in Operations, NEW pc \in PCs,
           NEW over \in BOOLEAN, NEW family \in NewFamilies \cup {NoFamily},
           NEW fams \in SUBSET Families, NEW dict \in BOOLEAN, Starts(c, op, pc, over, family, fams, dict)
    PROVE  LoneInv'
<1> DEFINE k == NewCall(c, op, pc, over, family, fams, dict)
           fs == IF op = "create_column_family" THEN FamiliesNow \cup {family} ELSE {}
<1>1. /\ call'[c] = k /\ \A d \in Clients \ {c} : call'[d] = call[d]
      /\ UNCHANGED <<backend, families, metas, late>>
      /\ lone' = IF Decisive(c, op, over)
                 THEN [n |-> calls + 1, op |-> op, done |-> FALSE, families |-> fs] ELSE NotLone
  BY DEF Starts, Begin, SetsCall, table
<1>2. /\ k.pc = pc /\ k.val.n = calls + 1 /\ k.val.op = op /\ k.over = over
      /\ k.family = family
  BY DEF NewCall
<1> HIDE DEF k
<1>3. CASE ~Decisive(c, op, over)
  BY <1>1, <1>3 DEF LoneInv, LoneCallTakesEffect, NotLone
<1>4. CASE Decisive(c, op, over)
  <2>1. /\ lone'.n = calls + 1 /\ lone'.op = op /\ lone'.done = FALSE /\ lone'.families = fs
    BY <1>1, <1>4, Zenon
  <2>2. /\ late' = {} /\ \A d \in Clients \ {c} : call'[d] = NoCall
    BY <1>1, <1>4 DEF Decisive
  <2>3. FamiliesNow' = FamiliesNow /\ Newest(metas)' = Newest(metas)
    BY <1>1 DEF FamiliesNow, Newest
  <2>4. pc \in {"delete", "meta"} => op = "update_table_meta" /\ (pc = "meta" => ~over)
    BY DEF Starts
  <2>5. pc = "family" => op = "create_column_family"
    BY DEF Starts
  <2>6. op \in {"create_table", "update_table_meta"} /\ ~over /\ backend # "hbase"
           => \A m \in metas : m.val.by = c
    BY <1>4 DEF Decisive
  <2>7. op = "create_column_family" /\ backend = "vast"
           => metas # {} /\ \A v \in Newest(metas) : v.dict
    BY <1>4 DEF Decisive
  <2>8. LoneCall(c)'
    BY <1>1, <1>2, <2>1, <2>2, <2>3, <2>4, <2>5, <2>6, <2>7 DEF LoneCall
  <2>9. \A d \in Clients : LoneCall(d)'
    BY <2>2, <2>8 DEF LoneCall
  <2> QED BY <2>1, <2>2, <2>9 DEF LoneInv, LoneCallTakesEffect
<1> QED BY <1>3, <1>4

\* A late put of a lone call of HBase.
LEMMA ServesLone ==
    ASSUME SetupInv, CreatorInv, LoneInv, NEW p \in late, ServesLate(p)
    PROVE  LoneInv'
<1>1. /\ backend = "hbase" /\ UNCHANGED <<backend, families, call, lone>>
      /\ late' = late \ {p} /\ TypeOK
  BY DEF ServesLate, CreatorInv, SetupInv
<1>2. CASE lone.n = 0
  <2>1. lone' = NotLone
    BY <1>1, <1>2, LoneFields
  <2> QED BY <2>1 DEF LoneInv, LoneCallTakesEffect, NotLone
<1>3. CASE lone.n # 0
  <2>1. \A c \in Clients : LoneCall(c)'
    BY <1>1, <1>3 DEF LoneInv, LoneCall
  <2>2. \A v \in Newest(metas') : v.n = lone.n \/ v \in Newest(metas)
    <3>1. CASE metas' = metas
      BY <3>1
    <3>2. ASSUME NEW ts \in Stamps(p.val.by), Put(p.val, ts)
          PROVE  \A v \in Newest(metas') : v.n = lone.n
      <4>1. p.val \in Values /\ p.val.n = lone.n
        BY <1>1, <1>3 DEF TypeOK, Puts, LoneInv
      <4>2. ts \in 1..MaxTime /\ \A m \in metas : m.ts <= ts /\ (backend = "vast" => m.ts < ts)
        BY <1>1, <3>2 DEF Stamps
      <4> QED BY <1>1, <3>2, <4>1, <4>2, PutNewest
    <3> QED BY <3>1, <3>2 DEF ServesLate
  <2>3. LoneCallTakesEffect'
    BY <1>1, <2>2 DEF LoneInv, LoneCallTakesEffect
  <2> QED BY <1>1, <1>3, <2>1, <2>3 DEF LoneInv
<1> QED BY <1>2, <1>3

LEMMA LoneNext == SetupInv /\ CreatorInv /\ LoneInv /\ [Next]_vars => LoneInv'
<1> SUFFICES ASSUME SetupInv, CreatorInv, LoneInv, [Next]_vars PROVE LoneInv'
  OBVIOUS
<1>1. ASSUME NEW c \in Clients, BeginsCall(c) PROVE LoneInv'
  BY <1>1, BeginsLone DEF BeginsCall
<1>2. ASSUME NEW c \in Clients, Reads(c) PROVE LoneInv'
  BY <1>2, SameLone DEF Reads, table, history
<1>3. ASSUME NEW c \in Clients, Crashes(c) PROVE LoneInv'
  BY <1>3, SameLone, StopsLone DEF Crashes, table
<1>4. ASSUME UNCHANGED vars PROVE LoneInv'
  BY <1>4, SameLone DEF vars, table, history
<1> QED BY <1>1, <1>2, <1>3, <1>4, ServesLone, LoneRequest, StepForms

\* A call that returned, with no other one at the same time, did what it is for:
\* the meta that create_table or update_table_meta wrote is the newest, and the
\* family of create_column_family is there beside those that the table had
\* (except in HBase, whose request replaces them, and where VAST has no dict to
\* keep it in).
THEOREM LoneCallEffective == Spec => []LoneCallTakesEffect
<1>1. Init => LoneInv
  BY DEF Init, LoneInv, LoneCallTakesEffect, NotLone
<1>2. LoneInv => LoneCallTakesEffect
  BY DEF LoneInv
<1> QED BY <1>1, <1>2, CreatorInit, CreatorNext, LoneNext, SetupInvariant, PTL DEF Spec
=============================================================================
