---------------------- MODULE DependenceServiceProofs ----------------------
(***************************************************************************)
(* Proofs about DependenceService, for any number of rows, packages,        *)
(* requests, jobs and restarts: the types, that one command runs at a time, *)
(* that no row is forgotten, and that "installed" means installed.          *)
(***************************************************************************)
EXTENDS DependenceService, SequenceTheorems, TLAPS

-----------------------------------------------------------------------------
(* Lines: sequences in which nobody stands twice.                            *)

InLine(l, x) == \E k \in DOMAIN l : l[k] = x
Distinct(l) == \A j, k \in DOMAIN l : l[j] = l[k] => j = k

\* To join a line one is not in puts nobody else off it, and leaves its head.
LEMMA LineAppend ==
  ASSUME NEW S, NEW l \in Seq(S), NEW x \in S, Distinct(l), ~InLine(l, x)
  PROVE  /\ Append(l, x) \in Seq(S)
         /\ Distinct(Append(l, x))
         /\ \A y : InLine(Append(l, x), y) <=> InLine(l, y) \/ y = x
         /\ l # <<>> => Append(l, x) # <<>> /\ Head(Append(l, x)) = Head(l)
<1> DEFINE a == Append(l, x)
<1>1. /\ a \in Seq(S) /\ a # <<>> /\ Len(a) = Len(l) + 1
      /\ \A i \in 1..Len(l) : a[i] = l[i]
      /\ a[Len(l) + 1] = x
  BY AppendProperties
<1>2. Len(l) \in Nat /\ DOMAIN l = 1..Len(l) /\ DOMAIN a = 1..Len(l) + 1
  BY <1>1, LenProperties
<1>3. Distinct(a)
  BY <1>1, <1>2 DEF Distinct, InLine
<1>4. ASSUME NEW y PROVE InLine(a, y) <=> InLine(l, y) \/ y = x
  BY <1>1, <1>2 DEF InLine
<1>5. l # <<>> => Head(a) = Head(l)
  BY HeadTailAppend
<1> QED
  BY <1>1, <1>3, <1>4, <1>5

\* The head leaves.
LEMMA LineTail ==
  ASSUME NEW S, NEW l \in Seq(S), Distinct(l), l # <<>>
  PROVE  /\ Tail(l) \in Seq(S)
         /\ Distinct(Tail(l))
         /\ \A y : InLine(Tail(l), y) <=> InLine(l, y) /\ y # Head(l)
<1> DEFINE t == Tail(l)
<1>1. t \in Seq(S) /\ Len(t) = Len(l) - 1 /\ \A i \in 1..Len(t) : t[i] = l[i + 1]
  BY HeadTailProperties
<1>2. /\ Len(l) \in Nat \ {0} /\ DOMAIN l = 1..Len(l)
      /\ DOMAIN t = 1..Len(l) - 1 /\ Head(l) = l[1]
  BY <1>1, LenProperties, EmptySeq
<1>3. Distinct(t)
  BY <1>1, <1>2 DEF Distinct
<1>4. ASSUME NEW y PROVE InLine(t, y) => InLine(l, y) /\ y # Head(l)
  BY <1>1, <1>2 DEF InLine, Distinct
<1>5. ASSUME NEW y, InLine(l, y), y # Head(l) PROVE InLine(t, y)
  <2>1. PICK k \in 1..Len(l) : l[k] = y
    BY <1>2, <1>5 DEF InLine
  <2>2. k - 1 \in 1..Len(t) /\ t[k - 1] = l[k]
    BY <2>1, <1>1, <1>2, <1>5
  <2> QED
    BY <2>1, <2>2, <1>1, <1>2 DEF InLine
<1> QED
  BY <1>1, <1>3, <1>4, <1>5

\* The line without its k-th.
Removed(l, k) == SubSeq(l, 1, k - 1) \o SubSeq(l, k + 1, Len(l))

\* Someone gives up a place; who stands at the head stays there.
LEMMA LineRemove ==
  ASSUME NEW S, NEW l \in Seq(S), Distinct(l), NEW k \in DOMAIN l
  PROVE  /\ Removed(l, k) \in Seq(S)
         /\ Distinct(Removed(l, k))
         /\ \A y : InLine(Removed(l, k), y) <=> InLine(l, y) /\ y # l[k]
         /\ Head(l) # l[k] => Removed(l, k) # <<>> /\ Head(Removed(l, k)) = Head(l)
<1> DEFINE r == Removed(l, k)
           p == SubSeq(l, 1, k - 1)
           q == SubSeq(l, k + 1, Len(l))
<1>1. Len(l) \in Nat /\ DOMAIN l = 1..Len(l) /\ k \in 1..Len(l)
  BY LenProperties
<1>i. k \in Int /\ Len(l) \in Int /\ 1 <= k /\ k <= Len(l)
  BY <1>1
<1>2. p \in Seq(S) /\ Len(p) = k - 1 /\ \A i \in 1..k - 1 : p[i] = l[i]
  <2>1. \A i \in 1..k - 1 : l[i] \in S
    BY <1>1, ElementOfSeq
  <2>2. k - 1 \in Int /\ 1 \in Int
    BY <1>i
  <2>3. /\ p \in Seq(S) /\ Len(p) = IF 1 <= k - 1 THEN k - 1 - 1 + 1 ELSE 0
        /\ \A i \in 1..k - 1 - 1 + 1 : p[i] = l[1 + i - 1]
    BY <2>1, <2>2, SubSeqProperties
  <2> HIDE DEF p, q
  <2> QED
    BY <2>3, <1>i
<1>3. q \in Seq(S) /\ Len(q) = Len(l) - k /\ \A i \in 1..Len(l) - k : q[i] = l[k + i]
  <2>1. \A i \in k + 1..Len(l) : l[i] \in S
    BY <1>1, ElementOfSeq
  <2>2. k + 1 \in Int /\ Len(l) \in Int
    BY <1>i
  <2>3. /\ q \in Seq(S) /\ Len(q) = IF k + 1 <= Len(l) THEN Len(l) - (k + 1) + 1 ELSE 0
        /\ \A i \in 1..Len(l) - (k + 1) + 1 : q[i] = l[k + 1 + i - 1]
    BY <2>1, <2>2, SubSeqProperties
  <2> HIDE DEF p, q
  <2> QED
    BY <2>3, <1>i
<1>r. r = p \o q
  BY DEF Removed
<1> HIDE DEF p, q, r
<1>4. r \in Seq(S) /\ Len(r) = Len(l) - 1 /\ DOMAIN r = 1..Len(l) - 1
  <2>1. p \o q \in Seq(S) /\ Len(p \o q) = Len(p) + Len(q)
    BY <1>2, <1>3, ConcatProperties
  <2>2. Len(p) + Len(q) = Len(l) - 1
    BY <1>i, <1>2, <1>3
  <2>3. DOMAIN r = 1..Len(r)
    BY <2>1, <1>r, LenProperties
  <2> QED
    BY <2>1, <2>2, <2>3, <1>r
<1>5. \A i \in 1..Len(l) - 1 : r[i] = IF i < k THEN l[i] ELSE l[i + 1]
  <2>1. \A i \in 1..Len(p) + Len(q) : r[i] = IF i <= Len(p) THEN p[i] ELSE q[i - Len(p)]
    <3>1. \A i \in 1..Len(p) + Len(q) :
            (p \o q)[i] = IF i <= Len(p) THEN p[i] ELSE q[i - Len(p)]
      BY <1>2, <1>3, ConcatProperties
    <3> QED
      BY <3>1, <1>r
  <2>2. Len(p) + Len(q) = Len(l) - 1
    BY <1>i, <1>2, <1>3
  <2>3. ASSUME NEW i \in 1..Len(l) - 1 PROVE r[i] = IF i < k THEN l[i] ELSE l[i + 1]
    <3>1. CASE i < k
      <4>1. i \in 1..k - 1 /\ i <= Len(p)
        BY <3>1, <1>i, <1>2
      <4> QED
        BY <4>1, <2>1, <2>2, <1>2, <3>1
    <3>2. CASE ~(i < k)
      <4>1. i - (k - 1) \in 1..Len(l) - k /\ ~(i <= Len(p)) /\ k + (i - (k - 1)) = i + 1
        <5>1. i \in Int /\ k \in Int /\ Len(l) \in Int /\ k <= i /\ i <= Len(l) - 1
          BY <3>2, <1>i
        <5>2. i - (k - 1) \in 1..Len(l) - k
          BY <5>1
        <5>3. ~(i <= Len(p))
          BY <5>1, <1>2
        <5>4. k + (i - (k - 1)) = i + 1
          BY <5>1
        <5> QED
          BY <5>2, <5>3, <5>4
      <4>2. r[i] = q[i - (k - 1)]
        BY <4>1, <2>1, <2>2, <1>2
      <4> QED
        BY <4>1, <4>2, <1>3, <3>2
    <3> QED
      BY <3>1, <3>2
  <2> QED
    BY <2>3
<1>5a. \A i \in 1..Len(l) - 1 :
         \E j \in 1..Len(l) : r[i] = l[j] /\ j # k /\ j = IF i < k THEN i ELSE i + 1
  <2>1. ASSUME NEW i \in 1..Len(l) - 1 PROVE (IF i < k THEN i ELSE i + 1) \in 1..Len(l) \ {k}
    BY <1>i
  <2> QED
    BY <2>1, <1>5
<1>6. Distinct(r)
  <2> SUFFICES ASSUME NEW i \in 1..Len(l) - 1, NEW j \in 1..Len(l) - 1, r[i] = r[j]
               PROVE  i = j
    BY <1>4 DEF Distinct
  <2>1. PICK a \in 1..Len(l) : r[i] = l[a] /\ a = IF i < k THEN i ELSE i + 1
    BY <1>5a
  <2>2. PICK b \in 1..Len(l) : r[j] = l[b] /\ b = IF j < k THEN j ELSE j + 1
    BY <1>5a
  <2>3. a = b
    BY <2>1, <2>2, <1>1 DEF Distinct
  <2> QED
    BY <2>1, <2>2, <2>3, <1>i
<1>7. ASSUME NEW y PROVE InLine(r, y) => InLine(l, y) /\ y # l[k]
  <2> SUFFICES ASSUME NEW i \in 1..Len(l) - 1, r[i] = y PROVE InLine(l, y) /\ y # l[k]
    BY <1>4 DEF InLine
  <2>1. PICK j \in 1..Len(l) : r[i] = l[j] /\ j # k
    BY <1>5a
  <2> QED
    BY <2>1, <1>1 DEF InLine, Distinct
<1>8. ASSUME NEW y, InLine(l, y), y # l[k] PROVE InLine(r, y)
  <2>1. PICK j \in 1..Len(l) : l[j] = y /\ j # k
    BY <1>1, <1>8 DEF InLine
  <2>2. CASE j < k
    <3>1. j \in 1..Len(l) - 1
      BY <2>2, <1>i
    <3> QED
      BY <3>1, <2>1, <2>2, <1>4, <1>5 DEF InLine
  <2>3. CASE j > k
    <3>1. j - 1 \in 1..Len(l) - 1 /\ ~(j - 1 < k) /\ (j - 1) + 1 = j
      BY <2>1, <2>3, <1>i
    <3>2. r[j - 1] = y
      BY <3>1, <2>1, <1>5
    <3> QED
      BY <3>1, <3>2, <1>4 DEF InLine
  <2> QED
    BY <2>1, <2>2, <2>3, <1>1
<1>9. Head(l) # l[k] => r # <<>> /\ Head(r) = Head(l)
  <2> SUFFICES ASSUME Head(l) # l[k] PROVE r # <<>> /\ Head(r) = Head(l)
    OBVIOUS
  <2>1. Head(l) = l[1] /\ k # 1
    BY <1>1
  <2>2. 1 \in 1..Len(l) - 1 /\ r[1] = l[1]
    BY <2>1, <1>1, <1>5
  <2> QED
    BY <2>1, <2>2, <1>4
<1> QED
  BY <1>4, <1>6, <1>7, <1>8, <1>9 DEF r

-----------------------------------------------------------------------------
(* Types.                                                                    *)

JobRec == [stage : {"spawned", "queued", "running", "good", "bad"}, dep : Dep]
Req == [stage : {"idle", "insert", "fetch", "spawn", "mark", "delete", "waiting",
                 "uninstall", "uninstalled", "erase"},
        names : SUBSET Package, at : Id \cup {None}, deps : SUBSET Dep]

\* The stages of a reinstall and of a delete, which are about one row.
OneRow == {"mark", "delete", "waiting", "uninstall", "uninstalled", "erase"}
AtPermit == {"waiting", "uninstall", "uninstalled", "erase"}

ReqOK(q) ==
  /\ q \in Req
  /\ q.stage = "fetch" <=> q.at # None
  /\ q.stage \in OneRow => \E d \in Dep : q.deps = {d}

RowOK(r) == r \in Row /\ (r.st \notin {"unborn", "gone"} => r.name \in Package)

RowsOK == rows \in [Id -> Row] /\ \A i \in Id : RowOK(rows[i])
JobsOK == job \in [Worker -> {Free} \cup JobRec] /\ todo \subseteq Dep
ClientsOK == DOMAIN client = Client /\ client \in [Client -> Req] /\ \A c \in Client : ReqOK(client[c])
RestOK ==
  /\ present \subseteq Package /\ orphans \subseteq Package /\ tainted \subseteq Package
  /\ up \in BOOLEAN /\ released \in BOOLEAN /\ crashes \in 0..MaxCrash
  /\ stuck \subseteq Id

\* Who stands in the line, and who has the permit.
Placed ==
  /\ line \in Seq(Worker \cup Client) /\ Distinct(line)
  /\ \A w \in Worker : InLine(line, w) <=> job[w].stage \in {"queued", "running", "good", "bad"}
  /\ \A c \in Client : InLine(line, c) <=> client[c].stage \in AtPermit
  /\ OneAtATime

TypeInv == RowsOK /\ JobsOK /\ ClientsOK /\ RestOK

LEMMA TypeInvInit == Init => TypeInv
<1> SUFFICES ASSUME Init PROVE TypeInv
  OBVIOUS
<1>1. RowsOK
  BY DEF Init, RowsOK, RowOK, Row
<1>2. JobsOK
  BY DEF Init, JobsOK
<1>3. ClientsOK
  BY DependenceAssumption DEF Init, ClientsOK, ReqOK, Req, Idle, OneRow
<1>4. RestOK
  BY DependenceAssumption DEF Init, RestOK
<1> QED
  BY <1>1, <1>2, <1>3, <1>4 DEF TypeInv

\* The copy of a row that is there.
LEMMA CopyTyped ==
  ASSUME RowsOK, NEW i \in Id, Exists(i)
  PROVE  Copy(i) \in Dep /\ Copy(i).id = i /\ Copy(i).name = rows[i].name
BY DEF RowsOK, RowOK, Exists, Copy, Dep

\* A request in one of the stages of a reinstall or a delete works on one row.
LEMMA OneDep ==
  ASSUME ClientsOK, NEW c \in Client, client[c].stage \in OneRow
  PROVE  \E d \in Dep : client[c].deps = {d} /\ d.id \in Id /\ d.name \in Package
BY DEF ClientsOK, ReqOK, Dep

LEMMA StatusTyped ==
  ASSUME RowsOK, NEW i \in Id, NEW s \in {"installing", "installed", "failed", "removing", "removed"},
         SetStatus(i, s)
  PROVE  /\ RowsOK'
         /\ \A k \in Id : /\ rows'[k].name = rows[k].name
                          /\ Exists(k)' <=> Exists(k)
                          /\ k # i => rows'[k] = rows[k]
         /\ rows'[i].st = IF Exists(i) THEN s ELSE rows[i].st
BY DEF RowsOK, RowOK, Row, SetStatus, Exists

\* A request moves within the stages of a reinstall or a delete.
LEMMA GoToTyped ==
  ASSUME ClientsOK, NEW c \in Client, client[c].stage \in OneRow,
         NEW s \in OneRow \cup {"spawn"}, GoTo(c, s)
  PROVE  /\ ClientsOK'
         /\ client'[c].stage = s /\ client'[c].deps = client[c].deps /\ client'[c].at = client[c].at
         /\ \A b \in Client \ {c} : client'[b] = client[b]
<1>1. client'[c] = [client[c] EXCEPT !.stage = s] /\ \A b \in Client \ {c} : client'[b] = client[b]
  BY DEF ClientsOK, GoTo
<1>2. client[c] \in Req /\ ReqOK(client[c]) /\ client[c].stage # "fetch"
  BY DEF ClientsOK, OneRow
<1>3. ReqOK(client'[c])
  BY <1>1, <1>2 DEF ReqOK, Req, OneRow
<1>4. DOMAIN client' = Client /\ client' \in [Client -> Req]
  BY <1>1, <1>3 DEF ClientsOK, GoTo, ReqOK
<1> QED
  BY <1>1, <1>2, <1>3, <1>4 DEF ClientsOK, Req

\* A request ends.
LEMMA DoneTyped ==
  ASSUME ClientsOK, NEW c \in Client, Done(c)
  PROVE  /\ ClientsOK'
         /\ client'[c] = Idle /\ \A b \in Client \ {c} : client'[b] = client[b]
BY DEF ClientsOK, Done, ReqOK, Req, Idle, OneRow

\* A request of one row begins.
LEMMA BeginTyped ==
  ASSUME ClientsOK, NEW c \in Client, NEW d \in Dep, NEW s \in {"mark", "delete"},
         client' = [client EXCEPT ![c] = [Idle EXCEPT !.stage = s, !.deps = {d}]]
  PROVE  /\ ClientsOK'
         /\ client'[c].stage = s /\ client'[c].deps = {d} /\ client'[c].at = None
         /\ \A b \in Client \ {c} : client'[b] = client[b]
BY DEF ClientsOK, ReqOK, Req, Idle, OneRow

\* A job moves on.
LEMMA StepTyped ==
  ASSUME JobsOK, UNCHANGED todo, NEW w \in Worker, job[w].stage # "free",
         NEW s \in {"spawned", "queued", "running", "good", "bad"}, Step(w, s)
  PROVE  /\ JobsOK'
         /\ job'[w].stage = s /\ job'[w].dep = job[w].dep /\ job'[w] # Free
         /\ \A v \in Worker \ {w} : job'[v] = job[v]
<1>1. job[w] \in JobRec
  BY DEF JobsOK, Free
<1>2. job'[w] = [job[w] EXCEPT !.stage = s] /\ \A v \in Worker \ {w} : job'[v] = job[v]
  BY DEF JobsOK, Step
<1>3. job'[w] \in JobRec /\ job'[w].stage = s /\ job'[w].dep = job[w].dep
  BY <1>1, <1>2 DEF JobRec
<1> QED
  BY <1>2, <1>3 DEF JobsOK, Step, Free

\* What a job is when it is not free.
LEMMA Busy ==
  ASSUME JobsOK, NEW w \in Worker, job[w].stage # "free"
  PROVE  job[w] \in JobRec /\ job[w].dep \in Dep /\ job[w].dep.id \in Id
         /\ job[w].dep.name \in Package /\ job[w] # Free
BY DEF JobsOK, JobRec, Free, Dep

-----------------------------------------------------------------------------
(* Steps keep the types.                                                     *)

LEMMA CreateTyped ==
  ASSUME TypeInv, NEW c \in Client, NEW names \in SUBSET Package, Create(c, names)
  PROVE  TypeInv'
<1>1. ClientsOK'
  BY DEF TypeInv, ClientsOK, Create, ReqOK, Req, Idle, OneRow
<1> QED
  BY <1>1 DEF TypeInv, RowsOK, RowOK, JobsOK, RestOK, Create, bootVars

LEMMA InsertTyped ==
  ASSUME TypeInv, NEW c \in Client, Insert(c)
  PROVE  TypeInv'
<1>1. PICK i \in Id, n \in client[c].names :
        /\ rows[i].st = "unborn"
        /\ rows' = [rows EXCEPT ![i] = [st |-> "installing", name |-> n]]
        /\ tainted' = IF Named(n) = {} THEN tainted ELSE tainted \cup {n}
        /\ client' = [client EXCEPT ![c].stage = "fetch", ![c].at = i, ![c].names = @ \ {n}]
  BY DEF Insert
<1>2. client[c] \in Req /\ n \in Package
  BY <1>1 DEF TypeInv, ClientsOK, ReqOK, Req
<1>3. RowsOK'
  BY <1>1, <1>2 DEF TypeInv, RowsOK, RowOK, Row
<1>4. ClientsOK'
  <2>1. client'[c] = [stage |-> "fetch", names |-> client[c].names \ {n}, at |-> i,
                      deps |-> client[c].deps]
    BY <1>1, <1>2 DEF TypeInv, ClientsOK, Req
  <2>2. ReqOK(client'[c])
    BY <2>1, <1>2, DependenceAssumption DEF ReqOK, Req, OneRow
  <2>3. \A b \in Client \ {c} : client'[b] = client[b]
    BY <1>1 DEF TypeInv, ClientsOK
  <2>4. DOMAIN client' = Client
    BY <1>1 DEF TypeInv, ClientsOK
  <2>5. client' \in [Client -> Req]
    BY <1>1, <2>2, <2>3, <2>4 DEF TypeInv, ClientsOK, ReqOK
  <2> QED
    BY <2>2, <2>3, <2>4, <2>5 DEF TypeInv, ClientsOK
<1>5. RestOK' /\ JobsOK'
  BY <1>1, <1>2 DEF TypeInv, RestOK, JobsOK, Insert, bootVars
<1> QED
  BY <1>3, <1>4, <1>5 DEF TypeInv

\* What a read of the new row makes of a request.
LEMMA FetchEffect ==
  ASSUME TypeInv, NEW c \in Client, Fetch(c)
  PROVE  /\ client[c].at \in Id
         /\ client'[c] = [stage |-> IF client[c].names = {} THEN "spawn" ELSE "insert",
                          names |-> client[c].names, at |-> None,
                          deps |-> client[c].deps \cup {Copy(client[c].at)}]
         /\ \A b \in Client \ {c} : client'[b] = client[b]
         /\ DOMAIN client' = Client
<1>1. client[c] \in Req /\ client[c].at \in Id
  BY DEF TypeInv, ClientsOK, ReqOK, Req, Fetch
<1> QED
  BY <1>1 DEF TypeInv, ClientsOK, Req, Fetch

LEMMA FetchTyped ==
  ASSUME TypeInv, NEW c \in Client, Fetch(c)
  PROVE  TypeInv'
<1>1. client[c] \in Req /\ Copy(client[c].at) \in Dep
  BY FetchEffect, CopyTyped DEF TypeInv, ClientsOK, Fetch
<1>2. ReqOK(client'[c])
  <2>1. PICK s \in {"spawn", "insert"}, x \in SUBSET Dep :
          client'[c] = [stage |-> s, names |-> client[c].names, at |-> None, deps |-> x]
    <3>1. client[c].deps \cup {Copy(client[c].at)} \in SUBSET Dep
      BY <1>1 DEF Req
    <3> QED
      BY <3>1, FetchEffect
  <2> QED
    BY <1>1, <2>1 DEF ReqOK, Req, OneRow
<1>3. client' \in [Client -> Req]
  <2> DEFINE q == [client[c] EXCEPT !.stage = IF client[c].names = {} THEN "spawn" ELSE "insert",
                                    !.at = None, !.deps = @ \cup {Copy(client[c].at)}]
  <2>1. client' = [client EXCEPT ![c] = q]
    BY DEF Fetch
  <2>2. client'[c] \in Req /\ client'[c] = q
    BY <2>1, <1>2 DEF ReqOK, TypeInv, ClientsOK
  <2> HIDE DEF q
  <2> QED
    BY <2>1, <2>2 DEF TypeInv, ClientsOK
<1>4. ClientsOK'
  BY <1>2, <1>3, FetchEffect DEF TypeInv, ClientsOK
<1> QED
  BY <1>4 DEF TypeInv, RowsOK, RowOK, JobsOK, RestOK, Fetch, bootVars

LEMMA CreateFailsTyped ==
  ASSUME TypeInv, NEW c \in Client, CreateFails(c)
  PROVE  TypeInv'
<1>1. ClientsOK'
  BY DoneTyped DEF TypeInv, CreateFails
<1>2. stuck' \subseteq Id
  BY DependenceAssumption DEF TypeInv, RestOK, ClientsOK, ReqOK, Req, Ids, Dep, CreateFails
<1> QED
  BY <1>1, <1>2 DEF TypeInv, RowsOK, RowOK, JobsOK, RestOK, CreateFails, bootVars

LEMMA ReinstallTyped ==
  ASSUME TypeInv, NEW c \in Client, NEW i \in Id, Reinstall(c, i)
  PROVE  TypeInv'
<1>1. Copy(i) \in Dep
  BY CopyTyped DEF TypeInv, Reinstall
<1>2. ClientsOK'
  BY <1>1, BeginTyped DEF TypeInv, Reinstall
<1> QED
  BY <1>2 DEF TypeInv, RowsOK, RowOK, JobsOK, RestOK, Reinstall, bootVars

LEMMA DeleteTyped ==
  ASSUME TypeInv, NEW c \in Client, NEW i \in Id, Delete(c, i)
  PROVE  TypeInv'
<1>1. Copy(i) \in Dep
  BY CopyTyped DEF TypeInv, Delete
<1>2. ClientsOK'
  BY <1>1, BeginTyped DEF TypeInv, Delete
<1> QED
  BY <1>2 DEF TypeInv, RowsOK, RowOK, JobsOK, RestOK, Delete, bootVars

LEMMA MarkTyped ==
  ASSUME TypeInv, NEW c \in Client, Mark(c)
  PROVE  TypeInv'
<1>1. PICK d \in Dep : client[c].deps = {d} /\ d.id \in Id
  BY OneDep DEF TypeInv, Mark, OneRow
<1>2. RowsOK'
  BY <1>1, StatusTyped DEF TypeInv, Mark
<1>3. ClientsOK'
  BY GoToTyped DEF TypeInv, Mark, OneRow
<1> QED
  BY <1>2, <1>3 DEF TypeInv, JobsOK, RestOK, Mark, bootVars

LEMMA MarkFailsTyped ==
  ASSUME TypeInv, NEW c \in Client, MarkFails(c)
  PROVE  TypeInv'
<1>1. ClientsOK'
  BY DoneTyped DEF TypeInv, MarkFails
<1> QED
  BY <1>1 DEF TypeInv, RowsOK, RowOK, JobsOK, RestOK, MarkFails, bootVars

\* A job takes over one of the copies of a request.
LEMMA SpawnEffect ==
  ASSUME TypeInv, NEW c \in Client, Spawn(c)
  PROVE  \E d \in client[c].deps, j \in Job :
           /\ d \in Dep /\ j \in Worker /\ job[j] = Free
           /\ job' = [job EXCEPT ![j] = [stage |-> "spawned", dep |-> d]]
           /\ \/ client[c].deps = {d} /\ client'[c] = Idle
              \/ client'[c] = [client[c] EXCEPT !.deps = @ \ {d}]
           /\ \A b \in Client \ {c} : client'[b] = client[b]
<1>1. PICK d \in client[c].deps, j \in Job :
        /\ job[j] = Free
        /\ job' = [job EXCEPT ![j] = [stage |-> "spawned", dep |-> d]]
        /\ IF client[c].deps = {d} THEN Done(c)
           ELSE client' = [client EXCEPT ![c].deps = @ \ {d}]
  BY DEF Spawn
<1>2. d \in Dep /\ j \in Worker
  BY DEF TypeInv, ClientsOK, Req, Worker
<1>3. client[c].deps = {d} => client'[c] = Idle
  BY <1>1 DEF TypeInv, ClientsOK, Done
<1>4. client[c].deps # {d} => client'[c] = [client[c] EXCEPT !.deps = @ \ {d}]
  BY <1>1 DEF TypeInv, ClientsOK
<1>5. \A b \in Client \ {c} : client'[b] = client[b]
  BY <1>1 DEF TypeInv, ClientsOK, Done
<1> QED
  BY <1>1, <1>2, <1>3, <1>4, <1>5

LEMMA SpawnTyped ==
  ASSUME TypeInv, NEW c \in Client, Spawn(c)
  PROVE  TypeInv'
<1>1. PICK d \in client[c].deps, j \in Job :
        /\ d \in Dep /\ j \in Worker
        /\ job' = [job EXCEPT ![j] = [stage |-> "spawned", dep |-> d]]
        /\ IF client[c].deps = {d} THEN Done(c)
           ELSE client' = [client EXCEPT ![c].deps = @ \ {d}]
  BY DEF Spawn, TypeInv, ClientsOK, Req, Worker
<1>2. JobsOK'
  <2>1. [stage |-> "spawned", dep |-> d] \in JobRec
    BY <1>1 DEF JobRec
  <2> QED
    BY <2>1, <1>1 DEF TypeInv, JobsOK, Spawn, bootVars
<1>3. ClientsOK'
  <2>1. CASE client[c].deps = {d}
    BY <2>1, <1>1, DoneTyped DEF TypeInv
  <2>2. CASE client[c].deps # {d}
    <3>1. client[c] \in Req /\ ReqOK(client[c]) /\ client[c].stage = "spawn"
      BY DEF TypeInv, ClientsOK, Spawn
    <3>2. client' = [client EXCEPT ![c].deps = @ \ {d}]
      BY <1>1, <2>2
    <3>3. client'[c] = [client[c] EXCEPT !.deps = @ \ {d}]
      BY <3>2 DEF TypeInv, ClientsOK
    <3>4. ReqOK(client'[c])
      BY <3>1, <3>3 DEF ReqOK, Req, OneRow
    <3> QED
      BY <3>1, <3>2, <3>4 DEF TypeInv, ClientsOK, ReqOK
  <2> QED
    BY <2>1, <2>2
<1> QED
  BY <1>2, <1>3 DEF TypeInv, RowsOK, RowOK, RestOK, Spawn, bootVars

LEMMA RenameTyped ==
  ASSUME TypeInv, NEW i \in Id, NEW n \in Package, Rename(i, n)
  PROVE  TypeInv'
<1>1. RowsOK'
  BY DEF TypeInv, RowsOK, RowOK, Row, Rename
<1>2. tainted' \subseteq Package
  BY DEF TypeInv, RestOK, RowsOK, RowOK, Exists, Rename
<1> QED
  BY <1>1, <1>2 DEF TypeInv, ClientsOK, JobsOK, RestOK, Rename, bootVars

-----------------------------------------------------------------------------
(* Jobs.                                                                     *)

LEMMA AcquireTyped ==
  ASSUME TypeInv, NEW w \in Worker, Acquire(w)
  PROVE  TypeInv'
<1>1. JobsOK'
  BY StepTyped DEF TypeInv, Acquire, bootVars
<1> QED
  BY <1>1 DEF TypeInv, RowsOK, RowOK, ClientsOK, RestOK, Acquire, bootVars

LEMMA InstallTyped ==
  ASSUME TypeInv, NEW w \in Worker, Install(w)
  PROVE  TypeInv'
<1>1. JobsOK'
  BY StepTyped DEF TypeInv, Install, bootVars
<1> QED
  BY <1>1 DEF TypeInv, RowsOK, RowOK, ClientsOK, RestOK, Install, bootVars

LEMMA InstalledTyped ==
  ASSUME TypeInv, NEW w \in Worker, Installed(w)
  PROVE  TypeInv'
<1>1. JobsOK'
  BY StepTyped DEF TypeInv, Installed, bootVars
<1>2. present' \subseteq Package
  BY Busy DEF TypeInv, RestOK, Installed
<1> QED
  BY <1>1, <1>2 DEF TypeInv, RowsOK, RowOK, ClientsOK, RestOK, Installed, bootVars

\* The permit goes on, and the job is free or turns to the next row.
LEMMA ReleaseEffect ==
  ASSUME JobsOK, NEW w \in Worker, Release(w)
  PROVE  /\ JobsOK' /\ \A v \in Worker \ {w} : job'[v] = job[v]
         /\ \/ job'[w] = Free /\ todo' = todo /\ (w = Boot => todo = {})
            \/ w = Boot /\ \E d \in todo :
                 todo' = todo \ {d} /\ job'[w] = [stage |-> "spawned", dep |-> d]
         /\ released \in BOOLEAN => released' \in BOOLEAN
         /\ line' = Tail(line)
<1>1. CASE w = Boot /\ todo # {}
  <2>1. PICK d \in todo : /\ todo' = todo \ {d}
                          /\ job' = [job EXCEPT ![w] = [stage |-> "spawned", dep |-> d]]
                          /\ released' = released
    BY <1>1 DEF Release
  <2>2. [stage |-> "spawned", dep |-> d] \in JobRec
    BY DEF JobsOK, JobRec
  <2>3. line' = Tail(line)
    BY DEF Release
  <2>4. job' \in [Worker -> {Free} \cup JobRec] /\ job'[w] = [stage |-> "spawned", dep |-> d]
        /\ \A v \in Worker \ {w} : job'[v] = job[v]
    BY <2>1, <2>2 DEF JobsOK
  <2>5. JobsOK'
    BY <2>1, <2>4 DEF JobsOK
  <2> QED
    BY <1>1, <2>1, <2>3, <2>4, <2>5
<1>2. CASE ~(w = Boot /\ todo # {})
  <2>1. job' = [job EXCEPT ![w] = Free] /\ todo' = todo /\ released' = (released \/ w = Boot)
    BY <1>2 DEF Release
  <2>2. released \in BOOLEAN => released' \in BOOLEAN
    BY <2>1
  <2>3. line' = Tail(line)
    BY DEF Release
  <2>4. JobsOK' /\ job'[w] = Free /\ \A v \in Worker \ {w} : job'[v] = job[v]
    BY <2>1 DEF JobsOK
  <2> QED
    BY <1>2, <2>1, <2>2, <2>3, <2>4
<1> QED
  BY <1>1, <1>2

LEMMA ReportTyped ==
  ASSUME TypeInv, NEW w \in Worker, Report(w)
  PROVE  TypeInv'
<1> DEFINE i == job[w].dep.id
<1>1. i \in Id
  BY Busy DEF TypeInv, Report
<1>2. JobsOK' /\ released' \in BOOLEAN
  BY ReleaseEffect DEF TypeInv, RestOK, Report
<1>3. RowsOK' /\ stuck' \subseteq Id
  <2>1. CASE SetStatus(i, IF job[w].stage = "good" THEN "installed" ELSE "failed") /\ UNCHANGED stuck
    BY <1>1, <2>1, StatusTyped DEF TypeInv, RestOK
  <2>2. CASE Lose(i)
    BY <1>1, <2>2 DEF Lose, TypeInv, RowsOK, RowOK, RestOK
  <2> QED
    BY <2>1, <2>2 DEF Report
<1> QED
  BY <1>2, <1>3 DEF TypeInv, ClientsOK, RestOK, Report

-----------------------------------------------------------------------------
(* Deletes, dropped requests, crashes.                                       *)

LEMMA WaitPermitTyped ==
  ASSUME TypeInv, NEW c \in Client, WaitPermit(c)
  PROVE  TypeInv'
<1>1. ClientsOK'
  BY GoToTyped DEF TypeInv, WaitPermit, OneRow
<1> QED
  BY <1>1 DEF TypeInv, RowsOK, RowOK, JobsOK, RestOK, WaitPermit, bootVars

LEMMA UninstallTyped ==
  ASSUME TypeInv, NEW c \in Client, Uninstall(c)
  PROVE  TypeInv'
<1>1. PICK d \in Dep : client[c].deps = {d} /\ d.id \in Id /\ d.name \in Package
  BY OneDep DEF TypeInv, Uninstall, OneRow
<1>2. ClientsOK'
  BY GoToTyped DEF TypeInv, Uninstall, OneRow
<1>3. RowsOK' /\ tainted' \subseteq Package
  <2>1. CASE SetStatus(d.id, "removing")
             /\ tainted' = tainted \cup {e.name : e \in {b \in client[c].deps : ~Exists(b.id)}}
    BY <1>1, <2>1, StatusTyped DEF TypeInv, RestOK
  <2>2. CASE UNCHANGED <<rows, tainted>>
    BY <2>2 DEF TypeInv, RowsOK, RowOK, RestOK
  <2> QED
    BY <1>1, <2>1, <2>2 DEF Uninstall
<1> QED
  BY <1>2, <1>3 DEF TypeInv, JobsOK, RestOK, Uninstall, bootVars

LEMMA UninstalledTyped ==
  ASSUME TypeInv, NEW c \in Client, Uninstalled(c)
  PROVE  TypeInv'
<1>1. ClientsOK'
  BY GoToTyped DEF TypeInv, Uninstalled, OneRow
<1>2. present' \subseteq Package
  BY DEF TypeInv, RestOK, Uninstalled
<1> QED
  BY <1>1, <1>2 DEF TypeInv, RowsOK, RowOK, JobsOK, RestOK, Uninstalled, bootVars

LEMMA MarkRemovedTyped ==
  ASSUME TypeInv, NEW c \in Client, MarkRemoved(c)
  PROVE  TypeInv'
<1>1. PICK d \in Dep : client[c].deps = {d} /\ d.id \in Id
  BY OneDep DEF TypeInv, MarkRemoved, OneRow
<1>2. ClientsOK'
  BY GoToTyped DEF TypeInv, MarkRemoved, OneRow
<1>3. RowsOK'
  <2>1. CASE SetStatus(d.id, "removed")
    BY <1>1, <2>1, StatusTyped DEF TypeInv
  <2>2. CASE UNCHANGED rows
    BY <2>2 DEF TypeInv, RowsOK, RowOK
  <2> QED
    BY <1>1, <2>1, <2>2 DEF MarkRemoved
<1> QED
  BY <1>2, <1>3 DEF TypeInv, JobsOK, RestOK, MarkRemoved, bootVars

\* A row is erased, or the query fails.
LEMMA EraseEffect ==
  ASSUME TypeInv, NEW c \in Client, Erase(c)
  PROVE  \E d \in Dep :
           /\ client[c].deps = {d} /\ d.id \in Id
           /\ \/ /\ rows' = [rows EXCEPT ![d.id] = [st |-> "gone", name |-> None]]
                 /\ stuck' = stuck \ {d.id}
              \/ Lose(d.id)
BY OneDep DEF TypeInv, Erase, OneRow

LEMMA EraseTyped ==
  ASSUME TypeInv, NEW c \in Client, Erase(c)
  PROVE  TypeInv'
<1>1. ClientsOK'
  BY DoneTyped DEF TypeInv, Erase
<1>2. RowsOK' /\ stuck' \subseteq Id
  BY EraseEffect DEF TypeInv, RowsOK, RowOK, Row, RestOK, Lose
<1> QED
  BY <1>1, <1>2 DEF TypeInv, JobsOK, RestOK, Erase, bootVars

\* The rows of a reinstall or a delete.
LEMMA IdsOne ==
  ASSUME ClientsOK, NEW c \in Client, NEW d \in Dep, client[c].stage \in OneRow,
         client[c].deps = {d}
  PROVE  Ids(c) = {d.id}
BY DEF ClientsOK, ReqOK, OneRow, Ids

\* What dropping a request does to the rows.
LEMMA LeaveEffect ==
  ASSUME TypeInv, NEW c \in Client, Leave(c)
  PROVE  \/ UNCHANGED rows
         \/ \E d \in Dep, s \in {"installing", "removing"} :
              /\ client[c].deps = {d} /\ d.id \in Id /\ d.id \in Ids(c)
              /\ SetStatus(d.id, s)
<1>1. CASE client[c].stage \in {"mark", "waiting"}
  <2>1. PICK d \in Dep : client[c].deps = {d} /\ d.id \in Id
    BY <1>1, OneDep DEF TypeInv, OneRow
  <2>2. Ids(c) = {d.id}
    BY <1>1, <2>1, IdsOne DEF TypeInv, OneRow
  <2>3. UNCHANGED rows \/ SetStatus(d.id, "installing") \/ SetStatus(d.id, "removing")
    BY <2>2 DEF Leave
  <2> QED
    BY <2>1, <2>2, <2>3
<1> QED
  BY <1>1 DEF Leave

LEMMA LeaveTyped ==
  ASSUME TypeInv, NEW c \in Client, Leave(c)
  PROVE  TypeInv'
<1>1. ClientsOK'
  BY DoneTyped DEF TypeInv, Leave
<1>2. RowsOK'
  <2>1. CASE UNCHANGED rows
    BY <2>1 DEF TypeInv, RowsOK, RowOK
  <2>2. CASE \E d \in Dep, s \in {"installing", "removing"} : d.id \in Id /\ SetStatus(d.id, s)
    BY <2>2, StatusTyped DEF TypeInv
  <2> QED
    BY <2>1, <2>2, LeaveEffect
<1>3. stuck' \subseteq Id
  BY DependenceAssumption DEF TypeInv, RestOK, ClientsOK, Req, Ids, Dep, Leave
<1>4. orphans' \subseteq Package /\ tainted' \subseteq Package
  <2>1. {d.name : d \in client[c].deps} \subseteq Package
    BY DEF TypeInv, ClientsOK, Req, Dep
  <2> QED
    BY <2>1 DEF TypeInv, RestOK, Leave
<1> QED
  BY <1>1, <1>2, <1>3, <1>4 DEF TypeInv, JobsOK, RestOK, Leave, bootVars

LEMMA OrphanEndsTyped ==
  ASSUME TypeInv, NEW n \in Package, OrphanEnds(n)
  PROVE  TypeInv'
<1>1. present' \subseteq Package /\ orphans' \subseteq Package
  BY DEF TypeInv, RestOK, OrphanEnds
<1> QED
  BY <1>1 DEF TypeInv, RowsOK, RowOK, JobsOK, ClientsOK, RestOK, OrphanEnds, bootVars

LEMMA CrashTyped ==
  ASSUME TypeInv, Crash
  PROVE  TypeInv'
<1>1. present' \subseteq Package
  <2>1. {job[w].dep.name : w \in {v \in Worker : job[v].stage = "running"}} \subseteq Package
    BY Busy DEF TypeInv
  <2> QED
    BY <2>1 DEF TypeInv, RestOK, Crash
<1>2. ClientsOK'
  BY DEF ClientsOK, ReqOK, Req, Idle, OneRow, Crash
<1>3. JobsOK'
  BY DEF JobsOK, Crash
<1>4. crashes' \in 0..MaxCrash
  BY DependenceAssumption DEF TypeInv, RestOK, Crash
<1> QED
  BY <1>1, <1>2, <1>3, <1>4 DEF TypeInv, RowsOK, RowOK, RestOK, Crash

LEMMA RestartTyped ==
  ASSUME TypeInv, Restart
  PROVE  TypeInv'
<1> DEFINE again == {i \in Id : Exists(i) /\ rows[i].st # "removed"}
           deps == {Copy(i) : i \in again}
<1>1. deps \subseteq Dep
  BY CopyTyped DEF TypeInv
<1>2. RowsOK'
  BY DEF TypeInv, RowsOK, RowOK, Row, Exists, Restart
<1>3. JobsOK' /\ released' \in BOOLEAN
  <2>1. CASE deps = {}
    BY <2>1 DEF TypeInv, JobsOK, RestOK, Restart
  <2>2. CASE deps # {}
    <3>1. PICK d \in deps : /\ todo' = deps \ {d} /\ released' = released
                            /\ job' = [job EXCEPT ![Boot] = [stage |-> "spawned", dep |-> d]]
      BY <2>2 DEF Restart
    <3>2. [stage |-> "spawned", dep |-> d] \in JobRec
      BY <1>1, <3>1 DEF JobRec
    <3> QED
      BY <1>1, <3>1, <3>2 DEF TypeInv, JobsOK, RestOK
  <2> QED
    BY <2>1, <2>2
<1> QED
  BY <1>2, <1>3 DEF TypeInv, ClientsOK, RestOK, Restart

-----------------------------------------------------------------------------
(* The line.                                                                 *)

InQueue == {"queued", "running", "good", "bad"}
Commands == {"running", "good", "bad"}
Removing == {"uninstall", "uninstalled", "erase"}

\* While the server is down nothing goes on.
Down == ~up => /\ \A w \in Worker : job[w] = Free
               /\ \A c \in Client : client[c] = Idle
               /\ line = <<>> /\ todo = {} /\ orphans = {}

Inv == TypeInv /\ Placed /\ Down

\* A request that moves, while it is not in the line or without leaving its place.
LEMMA ClientPlaced ==
  ASSUME Placed, UNCHANGED <<line, job>>, NEW c \in Client,
         \A b \in Client \ {c} : client'[b] = client[b],
         client'[c].stage \in AtPermit <=> client[c].stage \in AtPermit,
         client'[c].stage \in Removing => client[c].stage \in Removing \/ Holds(c)
  PROVE  Placed'
<1>1. \A b \in Client : InLine(line', b) <=> client'[b].stage \in AtPermit
  BY DEF Placed
<1>2. OneAtATime'
  BY DEF Placed, OneAtATime, Holds, Removing
<1> QED
  BY <1>1, <1>2 DEF Placed

\* The same of a job.
LEMMA JobPlaced ==
  ASSUME Placed, UNCHANGED <<line, client>>, NEW w \in Worker,
         \A v \in Worker \ {w} : job'[v] = job[v],
         job'[w].stage \in InQueue <=> job[w].stage \in InQueue,
         job'[w].stage \in Commands => job[w].stage \in Commands \/ Holds(w)
  PROVE  Placed'
<1>1. \A v \in Worker : InLine(line', v) <=> job'[v].stage \in InQueue
  BY DEF Placed, InQueue
<1>2. OneAtATime'
  BY DEF Placed, OneAtATime, Holds, Commands
<1> QED
  BY <1>1, <1>2 DEF Placed, InQueue

\* The head of the line is the only one that runs a command.
LEMMA OnlyHead ==
  ASSUME Placed, NEW w \in Worker, job[w].stage \in Commands
  PROVE  /\ line # <<>> /\ Head(line) = w /\ Holds(w)
         /\ \A v \in Worker \ {w} : job[v].stage \notin Commands
         /\ \A c \in Client : client[c].stage \notin Removing
<1>1. w \notin Client
  BY DependenceAssumption DEF Worker
<1> QED
  BY <1>1 DEF Placed, OneAtATime, Holds, Commands, Removing

LEMMA OnlyHeadClient ==
  ASSUME Placed, NEW c \in Client, client[c].stage \in Removing
  PROVE  /\ line # <<>> /\ Head(line) = c /\ Holds(c)
         /\ \A w \in Worker : job[w].stage \notin Commands
         /\ \A b \in Client \ {c} : client[b].stage \notin Removing
<1>1. c \notin Worker
  BY DependenceAssumption DEF Worker
<1> QED
  BY <1>1 DEF Placed, OneAtATime, Holds, Commands, Removing

LEMMA JobAppends ==
  ASSUME Placed, TypeInv, NEW w \in Worker, Acquire(w)
  PROVE  Placed'
<1>1. /\ job[w].stage = "spawned" /\ job'[w].stage = "queued"
      /\ \A v \in Worker \ {w} : job'[v] = job[v]
      /\ line' = Append(line, w) /\ client' = client
  BY StepTyped DEF TypeInv, Acquire, bootVars
<1>2. line \in Seq(Worker \cup Client) /\ Distinct(line) /\ ~InLine(line, w) /\ w \notin Client
  BY <1>1, DependenceAssumption DEF Placed, Worker
<1>3. /\ line' \in Seq(Worker \cup Client) /\ Distinct(line')
      /\ \A y : InLine(line', y) <=> InLine(line, y) \/ y = w
      /\ line # <<>> => line' # <<>> /\ Head(line') = Head(line)
  BY <1>1, <1>2, LineAppend
<1>4. \A v \in Worker : InLine(line', v) <=> job'[v].stage \in {"queued", "running", "good", "bad"}
  BY <1>1, <1>3 DEF Placed
<1>5. \A c \in Client : InLine(line', c) <=> client'[c].stage \in AtPermit
  BY <1>1, <1>2, <1>3 DEF Placed
<1>6. OneAtATime'
  BY <1>1, <1>3 DEF Placed, OneAtATime, Holds
<1> QED
  BY <1>3, <1>4, <1>5, <1>6 DEF Placed

LEMMA ClientAppends ==
  ASSUME Placed, TypeInv, NEW c \in Client, WaitPermit(c)
  PROVE  Placed'
<1>1. /\ client[c].stage = "delete" /\ client'[c].stage = "waiting"
      /\ \A b \in Client \ {c} : client'[b] = client[b]
      /\ line' = Append(line, c) /\ job' = job
  BY GoToTyped DEF TypeInv, WaitPermit, OneRow
<1>2. line \in Seq(Worker \cup Client) /\ Distinct(line) /\ ~InLine(line, c) /\ c \notin Worker
  BY <1>1, DependenceAssumption DEF Placed, Worker, AtPermit
<1>3. /\ line' \in Seq(Worker \cup Client) /\ Distinct(line')
      /\ \A y : InLine(line', y) <=> InLine(line, y) \/ y = c
      /\ line # <<>> => line' # <<>> /\ Head(line') = Head(line)
  BY <1>1, <1>2, LineAppend
<1>4. \A v \in Worker : InLine(line', v) <=> job'[v].stage \in {"queued", "running", "good", "bad"}
  BY <1>1, <1>2, <1>3 DEF Placed
<1>5. \A b \in Client : InLine(line', b) <=> client'[b].stage \in AtPermit
  BY <1>1, <1>3 DEF Placed, AtPermit
<1>6. OneAtATime'
  BY <1>1, <1>3 DEF Placed, OneAtATime, Holds
<1> QED
  BY <1>3, <1>4, <1>5, <1>6 DEF Placed

LEMMA JobLeavesLine ==
  ASSUME Placed, TypeInv, NEW w \in Worker, Report(w)
  PROVE  Placed'
<1>1. /\ job[w].stage \in Commands
      /\ \A v \in Worker \ {w} : job'[v] = job[v]
      /\ job'[w].stage \notin InQueue
      /\ line' = Tail(line) /\ client' = client
  <2>1. job[w].stage \in Commands /\ Release(w) /\ client' = client
    BY DEF Report, Commands
  <2>2. \A v \in Worker \ {w} : job'[v] = job[v]
    BY <2>1, ReleaseEffect DEF TypeInv
  <2>3. job'[w] = Free \/ \E d \in todo : job'[w] = [stage |-> "spawned", dep |-> d]
    BY <2>1, ReleaseEffect DEF TypeInv
  <2>4. job'[w].stage = "free" \/ job'[w].stage = "spawned"
    <3>1. CASE job'[w] = Free
      BY <3>1 DEF Free
    <3>2. CASE \E d \in todo : job'[w] = [stage |-> "spawned", dep |-> d]
      BY <3>2
    <3> QED
      BY <2>3, <3>1, <3>2
  <2>5. line' = Tail(line)
    BY <2>1 DEF Release
  <2> QED
    BY <2>1, <2>2, <2>4, <2>5 DEF InQueue
<1>2. /\ line # <<>> /\ Head(line) = w /\ w \notin Client
      /\ \A v \in Worker \ {w} : job[v].stage \notin Commands
      /\ \A c \in Client : client[c].stage \notin Removing
  BY <1>1, OnlyHead, DependenceAssumption DEF Worker
<1>3. /\ line' \in Seq(Worker \cup Client) /\ Distinct(line')
      /\ \A y : InLine(line', y) <=> InLine(line, y) /\ y # w
  BY <1>1, <1>2, LineTail DEF Placed
<1>4. \A v \in Worker : InLine(line', v) <=> job'[v].stage \in {"queued", "running", "good", "bad"}
  BY <1>1, <1>3 DEF Placed, InQueue
<1>5. \A c \in Client : InLine(line', c) <=> client'[c].stage \in AtPermit
  BY <1>1, <1>2, <1>3 DEF Placed
<1>6. OneAtATime'
  BY <1>1, <1>2 DEF OneAtATime, Commands, InQueue, Removing
<1> QED
  BY <1>3, <1>4, <1>5, <1>6 DEF Placed

LEMMA ClientLeavesLine ==
  ASSUME Placed, TypeInv, NEW c \in Client, Erase(c)
  PROVE  Placed'
<1>1. /\ client[c].stage = "erase" /\ client'[c].stage = "idle"
      /\ \A b \in Client \ {c} : client'[b] = client[b]
      /\ line' = Tail(line) /\ job' = job
  BY DoneTyped DEF TypeInv, Erase, Idle
<1>2. /\ line # <<>> /\ Head(line) = c /\ c \notin Worker
      /\ \A w \in Worker : job[w].stage \notin Commands
      /\ \A b \in Client \ {c} : client[b].stage \notin Removing
  BY <1>1, OnlyHeadClient, DependenceAssumption DEF Worker, Removing
<1>3. /\ line' \in Seq(Worker \cup Client) /\ Distinct(line')
      /\ \A y : InLine(line', y) <=> InLine(line, y) /\ y # c
  BY <1>1, <1>2, LineTail DEF Placed
<1>4. \A v \in Worker : InLine(line', v) <=> job'[v].stage \in {"queued", "running", "good", "bad"}
  BY <1>1, <1>2, <1>3 DEF Placed
<1>5. \A b \in Client : InLine(line', b) <=> client'[b].stage \in AtPermit
  BY <1>1, <1>3 DEF Placed, AtPermit
<1>6. OneAtATime'
  BY <1>1, <1>2 DEF OneAtATime, Commands, Removing
<1> QED
  BY <1>3, <1>4, <1>5, <1>6 DEF Placed

LEMMA ClientGivesUp ==
  ASSUME Placed, TypeInv, NEW c \in Client, Leave(c)
  PROVE  Placed'
<1>1. /\ client'[c].stage = "idle" /\ \A b \in Client \ {c} : client'[b] = client[b]
      /\ job' = job /\ c \notin Worker
  BY DoneTyped, DependenceAssumption DEF TypeInv, Leave, Idle, Worker
<1>2. /\ line' \in Seq(Worker \cup Client) /\ Distinct(line')
      /\ \A y : InLine(line', y) <=> InLine(line, y) /\ y # c
      /\ \A y : y # c /\ Holds(y) => line' # <<>> /\ Head(line') = y
  <2>1. CASE \E k \in DOMAIN line :
               line[k] = c /\ line' = SubSeq(line, 1, k - 1) \o SubSeq(line, k + 1, Len(line))
    <3>1. PICK k \in DOMAIN line :
            line[k] = c /\ line' = Removed(line, k)
      BY <2>1 DEF Removed
    <3>2. line \in Seq(Worker \cup Client) /\ Distinct(line)
      BY DEF Placed
    <3>3. /\ line' \in Seq(Worker \cup Client) /\ Distinct(line')
          /\ \A y : InLine(line', y) <=> InLine(line, y) /\ y # line[k]
          /\ Head(line) # line[k] => line' # <<>> /\ Head(line') = Head(line)
      BY <3>1, <3>2, LineRemove
    <3> QED
      BY <3>1, <3>3 DEF Holds
  <2>2. CASE (\A k \in DOMAIN line : line[k] # c) /\ UNCHANGED line
    BY <2>2 DEF Placed, InLine, Holds
  <2> QED
    BY <2>1, <2>2 DEF Leave, GiveUpPlace
<1>3. \A v \in Worker : InLine(line', v) <=> job'[v].stage \in {"queued", "running", "good", "bad"}
  BY <1>1, <1>2 DEF Placed
<1>4. \A b \in Client : InLine(line', b) <=> client'[b].stage \in AtPermit
  BY <1>1, <1>2 DEF Placed, AtPermit
<1>5. OneAtATime'
  <2>1. ASSUME NEW w \in Worker, job'[w].stage \in {"running", "good", "bad"} PROVE Holds(w)'
    BY <2>1, <1>1, <1>2 DEF Placed, OneAtATime, Holds
  <2>2. ASSUME NEW b \in Client, client'[b].stage \in {"uninstall", "uninstalled", "erase"}
        PROVE  Holds(b)'
    BY <2>2, <1>1, <1>2 DEF Placed, OneAtATime, Holds
  <2> QED
    BY <2>1, <2>2 DEF OneAtATime
<1> QED
  BY <1>2, <1>3, <1>4, <1>5 DEF Placed

\* Requests that create, reinstall or ask for a delete are not in the line.
LEMMA ServePlaced ==
  ASSUME Inv, NEW c \in Client, Request(c) \/ Serve(c)
  PROVE  Placed'
<1> USE DEF Inv
<1>1. ASSUME NEW names \in SUBSET Package, Create(c, names) PROVE Placed'
  <2>1. /\ client[c].stage = "idle" /\ client'[c].stage = "insert"
        /\ \A b \in Client \ {c} : client'[b] = client[b]
    BY <1>1 DEF TypeInv, ClientsOK, Create, Idle
  <2> QED
    BY <1>1, <2>1, ClientPlaced DEF Create, AtPermit, Removing
<1>2. ASSUME NEW i \in Id, Reinstall(c, i) PROVE Placed'
  <2>1. /\ client[c].stage = "idle" /\ client'[c].stage = "mark"
        /\ \A b \in Client \ {c} : client'[b] = client[b]
    BY <1>2 DEF TypeInv, ClientsOK, Reinstall, Idle
  <2> QED
    BY <1>2, <2>1, ClientPlaced DEF Reinstall, AtPermit, Removing
<1>3. ASSUME NEW i \in Id, Delete(c, i) PROVE Placed'
  <2>1. /\ client[c].stage = "idle" /\ client'[c].stage = "delete"
        /\ \A b \in Client \ {c} : client'[b] = client[b]
    BY <1>3 DEF TypeInv, ClientsOK, Delete, Idle
  <2> QED
    BY <1>3, <2>1, ClientPlaced DEF Delete, AtPermit, Removing
<1>4. CASE Insert(c)
  <2>1. /\ client[c].stage = "insert" /\ client'[c].stage = "fetch"
        /\ \A b \in Client \ {c} : client'[b] = client[b]
    BY <1>4 DEF TypeInv, ClientsOK, Req, Insert
  <2> QED
    BY <1>4, <2>1, ClientPlaced DEF Insert, AtPermit, Removing
<1>5. CASE Fetch(c)
  <2>1. /\ client[c].stage = "fetch" /\ client'[c].stage \in {"spawn", "insert"}
        /\ \A b \in Client \ {c} : client'[b] = client[b]
    <3>1. client[c].stage = "fetch"
      BY <1>5 DEF Fetch
    <3>2. client'[c].stage \in {"spawn", "insert"}
      <4> DEFINE x == client[c].deps \cup {Copy(client[c].at)}
      <4>1. client'[c] = [stage |-> IF client[c].names = {} THEN "spawn" ELSE "insert",
                          names |-> client[c].names, at |-> None, deps |-> x]
        BY <1>5, FetchEffect
      <4> HIDE DEF x
      <4> QED
        BY <4>1
    <3> QED
      BY <1>5, <3>1, <3>2, FetchEffect
  <2> QED
    BY <1>5, <2>1, ClientPlaced DEF Fetch, AtPermit, Removing
<1>6. CASE CreateFails(c) \/ MarkFails(c)
  <2>1. /\ client[c].stage \in {"insert", "fetch", "mark"} /\ client'[c].stage = "idle"
        /\ \A b \in Client \ {c} : client'[b] = client[b]
    BY <1>6, DoneTyped DEF TypeInv, CreateFails, MarkFails, Idle
  <2> QED
    BY <1>6, <2>1, ClientPlaced DEF CreateFails, MarkFails, AtPermit, Removing
<1>7. CASE Mark(c)
  <2>1. /\ client[c].stage = "mark" /\ client'[c].stage = "spawn"
        /\ \A b \in Client \ {c} : client'[b] = client[b]
    BY <1>7, GoToTyped DEF TypeInv, Mark, OneRow
  <2> QED
    BY <1>7, <2>1, ClientPlaced DEF Mark, AtPermit, Removing
<1>8. CASE Spawn(c)
  <2>1. PICK d \in client[c].deps, j \in Job :
          /\ d \in Dep /\ j \in Worker /\ job[j] = Free
          /\ job' = [job EXCEPT ![j] = [stage |-> "spawned", dep |-> d]]
          /\ \/ client[c].deps = {d} /\ client'[c] = Idle
             \/ client'[c] = [client[c] EXCEPT !.deps = @ \ {d}]
          /\ \A b \in Client \ {c} : client'[b] = client[b]
    BY <1>8, SpawnEffect
  <2>2. client[c].stage = "spawn" /\ client'[c].stage \in {"idle", "spawn"}
    <3>1. client[c].stage = "spawn" /\ client[c] \in Req
      BY <1>8 DEF Spawn, TypeInv, ClientsOK
    <3>2. client'[c] = Idle => client'[c].stage = "idle"
      BY DEF Idle
    <3>3. client'[c] = [client[c] EXCEPT !.deps = @ \ {d}] => client'[c].stage = "spawn"
      BY <3>1 DEF Req
    <3> QED
      BY <2>1, <3>1, <3>2, <3>3
  <2>3. /\ job[j].stage = "free" /\ job'[j].stage = "spawned"
        /\ \A v \in Worker \ {j} : job'[v] = job[v]
    BY <2>1 DEF TypeInv, JobsOK, Free
  <2>4. line' = line /\ line \in Seq(Worker \cup Client) /\ Distinct(line)
    BY <1>8 DEF Spawn, Placed
  <2>5. \A v \in Worker : InLine(line', v) <=> job'[v].stage \in {"queued", "running", "good", "bad"}
    BY <2>3, <2>4 DEF Placed
  <2>6. \A b \in Client : InLine(line', b) <=> client'[b].stage \in AtPermit
    BY <2>1, <2>2, <2>4 DEF Placed, AtPermit
  <2>7. OneAtATime'
    BY <2>1, <2>2, <2>3, <2>4 DEF Placed, OneAtATime, Holds
  <2> QED
    BY <2>4, <2>5, <2>6, <2>7 DEF Placed
<1>9. CASE WaitPermit(c)
  BY <1>9, ClientAppends
<1>10. CASE Uninstall(c)
  <2>1. /\ client[c].stage = "waiting" /\ Holds(c) /\ client'[c].stage \in {"uninstall", "erase"}
        /\ \A b \in Client \ {c} : client'[b] = client[b]
    BY <1>10, GoToTyped DEF TypeInv, Uninstall, OneRow
  <2> QED
    BY <1>10, <2>1, ClientPlaced DEF Uninstall, AtPermit, Removing
<1>11. CASE Uninstalled(c)
  <2>1. /\ client[c].stage = "uninstall" /\ client'[c].stage \in {"uninstalled", "erase"}
        /\ \A b \in Client \ {c} : client'[b] = client[b]
    BY <1>11, GoToTyped DEF TypeInv, Uninstalled, OneRow
  <2> QED
    BY <1>11, <2>1, ClientPlaced DEF Uninstalled, AtPermit, Removing
<1>12. CASE MarkRemoved(c)
  <2>1. /\ client[c].stage = "uninstalled" /\ client'[c].stage = "erase"
        /\ \A b \in Client \ {c} : client'[b] = client[b]
    BY <1>12, GoToTyped DEF TypeInv, MarkRemoved, OneRow
  <2> QED
    BY <1>12, <2>1, ClientPlaced DEF MarkRemoved, AtPermit, Removing
<1>13. CASE Erase(c)
  BY <1>13, ClientLeavesLine
<1> QED
  BY <1>1, <1>2, <1>3, <1>4, <1>5, <1>6, <1>7, <1>8, <1>9, <1>10, <1>11, <1>12, <1>13
     DEF Request, Serve

LEMMA WorkPlaced ==
  ASSUME Inv, NEW w \in Worker, Work(w)
  PROVE  Placed'
<1> USE DEF Inv
<1>1. CASE Acquire(w)
  BY <1>1, JobAppends
<1>2. CASE Install(w)
  <2>1. /\ job[w].stage = "queued" /\ Holds(w) /\ job'[w].stage = "running"
        /\ \A v \in Worker \ {w} : job'[v] = job[v]
    BY <1>2, StepTyped DEF TypeInv, Install, bootVars
  <2> QED
    BY <1>2, <2>1, JobPlaced DEF Install, InQueue, Commands
<1>3. CASE Installed(w)
  <2>1. /\ job[w].stage = "running" /\ job'[w].stage \in {"good", "bad"}
        /\ \A v \in Worker \ {w} : job'[v] = job[v]
    BY <1>3, StepTyped DEF TypeInv, Installed, bootVars
  <2> QED
    BY <1>3, <2>1, JobPlaced DEF Installed, InQueue, Commands
<1>4. CASE Report(w)
  BY <1>4, JobLeavesLine
<1> QED
  BY <1>1, <1>2, <1>3, <1>4 DEF Work

LEMMA OthersPlaced ==
  ASSUME Inv
  PROVE  /\ \A i \in Id, n \in Package : Rename(i, n) => Placed'
         /\ \A n \in Package : OrphanEnds(n) => Placed'
         /\ Crash => Placed'
         /\ Restart => Placed'
<1> USE DEF Inv
<1>1. UNCHANGED <<job, line, client>> => Placed'
  BY DEF Placed, OneAtATime, Holds
<1>2. Crash => Placed'
  <2> SUFFICES ASSUME Crash PROVE Placed'
    OBVIOUS
  <2>1. line' = <<>> /\ \A w \in Worker : job'[w].stage = "free"
    BY DEF Crash, Free
  <2>2. \A c \in Client : client'[c].stage = "idle"
    BY DEF Crash, Idle
  <2>3. \A x : ~InLine(line', x)
    BY <2>1 DEF InLine
  <2>4. line' \in Seq(Worker \cup Client) /\ Distinct(line')
    BY <2>1 DEF Distinct
  <2> QED
    BY <2>1, <2>2, <2>3, <2>4 DEF Placed, OneAtATime, AtPermit
<1>3. Restart => Placed'
  <2> SUFFICES ASSUME Restart PROVE Placed'
    OBVIOUS
  <2>1. Boot \in Worker /\ job[Boot].stage = "free" /\ UNCHANGED <<line, client>>
    BY DEF Worker, Down, Restart, Free
  <2>2. job' = job \/ \E d : job' = [job EXCEPT ![Boot] = [stage |-> "spawned", dep |-> d]]
    BY DEF Restart
  <2>3. CASE job' = job
    BY <2>1, <2>3, <1>1
  <2>4. CASE \E d : job' = [job EXCEPT ![Boot] = [stage |-> "spawned", dep |-> d]]
    <3>1. job'[Boot].stage = "spawned" /\ \A v \in Worker \ {Boot} : job'[v] = job[v]
      BY <2>4, <2>1 DEF TypeInv, JobsOK
    <3> QED
      BY <3>1, <2>1, JobPlaced DEF InQueue, Commands
  <2> QED
    BY <2>2, <2>3, <2>4
<1> QED
  BY <1>1, <1>2, <1>3 DEF Rename, OrphanEnds

-----------------------------------------------------------------------------
(* The invariant of types and of the line.                                   *)

\* Nothing moves while the server is down: whoever would is idle.
LEMMA DownKept ==
  ASSUME Inv, Next
  PROVE  Down'
<1> USE DEF Inv
<1>1. CASE up' = TRUE
  BY <1>1 DEF Down
<1>2. CASE Crash
  BY <1>2 DEF Crash, Down
<1>3. ASSUME NEW c \in Client, Request(c) \/ Serve(c) \/ Leave(c), ~up PROVE FALSE
  <2>1. client[c].stage = "idle"
    BY <1>3 DEF Down, Idle
  <2> QED
    BY <1>3, <2>1 DEF Request, Serve, Leave, Create, Reinstall, Delete, Insert, Fetch, CreateFails,
       Mark, MarkFails, Spawn, WaitPermit, Uninstall, Uninstalled, MarkRemoved, Erase
<1>4. ASSUME NEW w \in Worker, Work(w), ~up PROVE FALSE
  <2>1. job[w].stage = "free"
    BY <1>4 DEF Down, Free
  <2> QED
    BY <1>4, <2>1 DEF Work, Acquire, Install, Installed, Report
<1>5. ASSUME NEW i \in Id, NEW n \in Package, Rename(i, n), ~up PROVE FALSE
  BY <1>5 DEF Rename
<1>6. ASSUME NEW n \in Package, OrphanEnds(n), ~up PROVE FALSE
  BY <1>6 DEF OrphanEnds, Down
<1>7. Crash \/ Restart \/ up
  BY <1>3, <1>4, <1>5, <1>6 DEF Next
<1>8. Crash \/ up' = TRUE \/ up' = up
  BY DEF Next, Request, Serve, Leave, Create, Reinstall, Delete, Insert, Fetch, CreateFails,
     Mark, MarkFails, Spawn, WaitPermit, Uninstall, Uninstalled, MarkRemoved, Erase,
     Work, Acquire, Install, Installed, Report, Rename, OrphanEnds, Restart, bootVars
<1> QED
  BY <1>1, <1>2, <1>7, <1>8 DEF Down, Restart

LEMMA TypeKept ==
  ASSUME Inv, Next
  PROVE  TypeInv'
<1> USE DEF Inv
<1>1. ASSUME NEW c \in Client, Request(c) PROVE TypeInv'
  BY <1>1, CreateTyped, ReinstallTyped, DeleteTyped DEF Request
<1>2. ASSUME NEW c \in Client, Serve(c) PROVE TypeInv'
  BY <1>2, InsertTyped, FetchTyped, CreateFailsTyped, MarkTyped, MarkFailsTyped, SpawnTyped,
     WaitPermitTyped, UninstallTyped, UninstalledTyped, MarkRemovedTyped, EraseTyped DEF Serve
<1>3. ASSUME NEW w \in Worker, Work(w) PROVE TypeInv'
  BY <1>3, AcquireTyped, InstallTyped, InstalledTyped, ReportTyped DEF Work
<1> QED
  BY <1>1, <1>2, <1>3, LeaveTyped, RenameTyped, OrphanEndsTyped, CrashTyped, RestartTyped DEF Next

LEMMA InvInit == Init => Inv
<1> SUFFICES ASSUME Init PROVE Inv
  OBVIOUS
<1>1. Placed
  <2>1. \A x : ~InLine(line, x)
    BY DEF Init, InLine
  <2>2. line \in Seq(Worker \cup Client) /\ Distinct(line)
    BY DEF Init, Distinct
  <2>3. \A w \in Worker : job[w].stage = "free"
    BY DEF Init, Free
  <2>4. \A c \in Client : client[c].stage = "idle"
    BY DEF Init, Idle
  <2> QED
    BY <2>1, <2>2, <2>3, <2>4 DEF Placed, OneAtATime, AtPermit
<1>2. Down
  BY DEF Init, Down
<1> QED
  BY <1>1, <1>2, TypeInvInit DEF Inv

LEMMA InvNext == Inv /\ [Next]_vars => Inv'
<1> SUFFICES ASSUME Inv, [Next]_vars PROVE Inv'
  OBVIOUS
<1>1. CASE UNCHANGED vars
  BY <1>1 DEF Inv, TypeInv, RowsOK, RowOK, JobsOK, ClientsOK, RestOK, Placed, OneAtATime, Holds,
     Down, vars
<1>2. CASE Next
  <2>1. ASSUME NEW c \in Client, Leave(c) PROVE Placed'
    BY <2>1, ClientGivesUp DEF Inv
  <2>2. Placed'
    BY <1>2, <2>1, ServePlaced, WorkPlaced, OthersPlaced DEF Next
  <2> QED
    BY <1>2, <2>2, TypeKept, DownKept DEF Inv
<1> QED
  BY <1>1, <1>2

LEMMA InvHolds == Spec => []Inv
BY InvInit, InvNext, PTL DEF Spec

-----------------------------------------------------------------------------
(* One command at a time.                                                    *)

LEMMA InvTypes == Inv => TypeOK
BY DEF Inv, TypeInv, RowsOK, RowOK, JobsOK, JobRec, ClientsOK, Req, RestOK, Placed, TypeOK

\* Every variable keeps its type.
THEOREM TypeCorrect == Spec => []TypeOK
BY InvHolds, InvTypes, PTL

\* Of the jobs and the deletes whose client is still there, only the head of the line runs a
\* package command, whatever requests are dropped from it (delete and install_dependency in
\* src/services/dependence.rs).
THEOREM OneAtATimeHolds == Spec => []OneAtATime
<1>1. Inv => OneAtATime
  BY DEF Inv, Placed
<1> QED
  BY <1>1, InvHolds, PTL

-----------------------------------------------------------------------------
(* Nothing is forgotten.                                                     *)

ByJob(i) == \E w \in Worker : job[w] # Free /\ job[w].dep.id = i
ByTodo(i) == \E d \in todo : d.id = i

\* A request that is about to mark its row does not count: the query may fail, and it
\* ends without a trace.
ByClient(c, i) == client[c].stage # "mark" /\ i \in Ids(c)

HandedOver(i) == ByJob(i) \/ ByTodo(i) \/ \E c \in Client : ByClient(c, i)

Waits(i) == rows[i].st \in {"installing", "removing"}

Pending == up => \A i \in Id \ stuck : Waits(i) => HandedOver(i)

LEMMA WaitsExists == \A i : Waits(i) => Exists(i)
BY DEF Waits, Exists

LEMMA IdleHasNone == \A c \in Client : client[c] = Idle => Ids(c) = {}
BY DEF Idle, Ids

\* Requests that move without letting go of a row.
LEMMA ClientPending ==
  ASSUME Pending, UNCHANGED <<rows, stuck, job, todo, up>>, NEW c \in Client,
         \A b \in Client \ {c} : client'[b] = client[b],
         client[c].stage = "mark" \/ Ids(c) = {} \/ (client'[c].stage # "mark" /\ Ids(c) \subseteq Ids(c)')
  PROVE  Pending'
<1> SUFFICES ASSUME up', NEW i \in Id \ stuck', Waits(i)' PROVE HandedOver(i)'
  BY DEF Pending
<1>1. HandedOver(i)
  BY DEF Pending, Waits
<1>2. CASE ByJob(i) \/ ByTodo(i)
  BY <1>2 DEF ByJob, ByTodo, HandedOver
<1>3. ASSUME NEW b \in Client, ByClient(b, i) PROVE ByClient(b, i)'
  BY <1>3 DEF ByClient, Ids
<1> QED
  BY <1>1, <1>2, <1>3 DEF HandedOver

\* Requests that change the status of the row they hold.
LEMMA StatusPending ==
  ASSUME TypeInv, Pending, UNCHANGED <<stuck, job, todo, up>>, NEW c \in Client, NEW d \in Dep,
         NEW s \in {"installing", "removing", "removed"}, SetStatus(d.id, s), d.id \in Id,
         \A b \in Client \ {c} : client'[b] = client[b],
         client'[c].stage # "mark", d.id \in Ids(c)', Ids(c) \subseteq Ids(c)'
  PROVE  Pending'
<1> SUFFICES ASSUME up', NEW i \in Id \ stuck', Waits(i)' PROVE HandedOver(i)'
  BY DEF Pending
<1>1. CASE i = d.id
  BY <1>1 DEF HandedOver, ByClient
<1>2. CASE i # d.id
  <2>1. rows'[i] = rows[i]
    BY <1>2, StatusTyped DEF TypeInv
  <2>2. HandedOver(i)
    BY <2>1 DEF Pending, Waits
  <2>3. ASSUME NEW b \in Client, ByClient(b, i) PROVE ByClient(b, i)'
    BY <2>3 DEF ByClient, Ids
  <2> QED
    BY <2>2, <2>3 DEF HandedOver, ByJob, ByTodo
<1> QED
  BY <1>1, <1>2

\* Requests that end, noting the rows they held.
LEMMA EndPending ==
  ASSUME Pending, UNCHANGED <<job, todo, up>>, NEW c \in Client,
         \A b \in Client \ {c} : client'[b] = client[b],
         stuck \subseteq stuck', \A i \in Id \ Ids(c) : rows'[i] = rows[i],
         \A i \in Ids(c) \cap Id : i \in stuck' \/ ~Waits(i)'
  PROVE  Pending'
<1> SUFFICES ASSUME up', NEW i \in Id \ stuck', Waits(i)' PROVE HandedOver(i)'
  BY DEF Pending
<1>1. i \notin Ids(c) /\ rows'[i] = rows[i]
  OBVIOUS
<1>2. HandedOver(i)
  BY <1>1 DEF Pending, Waits
<1>3. ASSUME NEW b \in Client, ByClient(b, i) PROVE ByClient(b, i)'
  BY <1>1, <1>3 DEF ByClient, Ids
<1> QED
  BY <1>2, <1>3 DEF HandedOver, ByJob, ByTodo

LEMMA RequestPending ==
  ASSUME Inv, Pending, NEW c \in Client, Request(c)
  PROVE  Pending'
<1>1. ASSUME NEW names \in SUBSET Package, Create(c, names) PROVE Pending'
  <2>1. Ids(c) = {} /\ \A b \in Client \ {c} : client'[b] = client[b]
    BY <1>1, IdleHasNone DEF Inv, TypeInv, ClientsOK, Create
  <2> QED
    BY <1>1, <2>1, ClientPending DEF Create, bootVars
<1>2. ASSUME NEW i \in Id, Reinstall(c, i) PROVE Pending'
  <2>1. Ids(c) = {} /\ \A b \in Client \ {c} : client'[b] = client[b]
    BY <1>2, IdleHasNone DEF Inv, TypeInv, ClientsOK, Reinstall
  <2> QED
    BY <1>2, <2>1, ClientPending DEF Reinstall, bootVars
<1>3. ASSUME NEW i \in Id, Delete(c, i) PROVE Pending'
  <2>1. Ids(c) = {} /\ \A b \in Client \ {c} : client'[b] = client[b]
    BY <1>3, IdleHasNone DEF Inv, TypeInv, ClientsOK, Delete
  <2> QED
    BY <1>3, <2>1, ClientPending DEF Delete, bootVars
<1> QED
  BY <1>1, <1>2, <1>3 DEF Request

LEMMA InsertPending ==
  ASSUME Inv, Pending, NEW c \in Client, Insert(c)
  PROVE  Pending'
<1>1. PICK k \in Id, n \in client[c].names :
        /\ rows[k].st = "unborn"
        /\ rows' = [rows EXCEPT ![k] = [st |-> "installing", name |-> n]]
        /\ client' = [client EXCEPT ![c].stage = "fetch", ![c].at = k, ![c].names = @ \ {n}]
  BY DEF Insert
<1>2. client[c] \in Req /\ client[c].at = None
  BY DEF Inv, TypeInv, ClientsOK, ReqOK, Insert
<1>3. client'[c] = [stage |-> "fetch", names |-> client[c].names \ {n}, at |-> k,
                    deps |-> client[c].deps]
  BY <1>1, <1>2 DEF Inv, TypeInv, ClientsOK, Req
<1>4. client'[c].stage = "fetch" /\ k \in Ids(c)' /\ Ids(c) \subseteq Ids(c)'
  BY <1>2, <1>3, DependenceAssumption DEF Ids
<1>5. \A b \in Client \ {c} : client'[b] = client[b]
  BY <1>1 DEF Inv, TypeInv, ClientsOK
<1> SUFFICES ASSUME up', NEW i \in Id \ stuck', Waits(i)' PROVE HandedOver(i)'
  BY DEF Pending
<1>6. CASE i = k
  BY <1>4, <1>6 DEF HandedOver, ByClient
<1>7. CASE i # k
  <2>1. rows'[i] = rows[i]
    BY <1>1, <1>7 DEF Inv, TypeInv, RowsOK
  <2>2. HandedOver(i)
    BY <2>1 DEF Pending, Waits, Insert, bootVars
  <2>3. ASSUME NEW b \in Client, ByClient(b, i) PROVE ByClient(b, i)'
    BY <2>3, <1>4, <1>5 DEF ByClient, Ids
  <2>4. ByJob(i) \/ ByTodo(i) => HandedOver(i)'
    BY DEF ByJob, ByTodo, HandedOver, Insert, bootVars
  <2> QED
    BY <2>2, <2>3, <2>4 DEF HandedOver
<1> QED
  BY <1>6, <1>7

LEMMA FetchPending ==
  ASSUME Inv, Pending, NEW c \in Client, Fetch(c)
  PROVE  Pending'
<1> DEFINE x == client[c].deps \cup {Copy(client[c].at)}
<1>1. /\ client'[c] = [stage |-> IF client[c].names = {} THEN "spawn" ELSE "insert",
                       names |-> client[c].names, at |-> None, deps |-> x]
      /\ client[c].at \in Id /\ \A b \in Client \ {c} : client'[b] = client[b]
  BY FetchEffect DEF Inv
<1>2. Copy(client[c].at).id = client[c].at
  BY DEF Copy
<1>3. {d.id : d \in x} = {d.id : d \in client[c].deps} \cup {client[c].at}
  BY <1>2
<1> HIDE DEF x
<1>4. client'[c].stage # "mark" /\ client'[c].deps = x
  BY <1>1
<1>5. Ids(c) \subseteq Ids(c)'
  BY <1>3, <1>4 DEF Ids
<1> QED
  BY <1>1, <1>4, <1>5, ClientPending DEF Fetch, bootVars

LEMMA SpawnPending ==
  ASSUME Inv, Pending, NEW c \in Client, Spawn(c)
  PROVE  Pending'
<1>1. PICK d \in client[c].deps, j \in Job :
        /\ d \in Dep /\ j \in Worker /\ job[j] = Free
        /\ job' = [job EXCEPT ![j] = [stage |-> "spawned", dep |-> d]]
        /\ \/ client[c].deps = {d} /\ client'[c] = Idle
           \/ client'[c] = [client[c] EXCEPT !.deps = @ \ {d}]
        /\ \A b \in Client \ {c} : client'[b] = client[b]
  BY SpawnEffect DEF Inv
<1>2. client[c] \in Req /\ client[c].at = None /\ client[c].stage = "spawn"
  BY DEF Inv, TypeInv, ClientsOK, ReqOK, Spawn
<1>3. /\ job'[j] = [stage |-> "spawned", dep |-> d] /\ job'[j] # Free
      /\ \A v \in Worker \ {j} : job'[v] = job[v]
  BY <1>1 DEF Inv, TypeInv, JobsOK, Free
<1> SUFFICES ASSUME up', NEW i \in Id \ stuck', Waits(i)' PROVE HandedOver(i)'
  BY DEF Pending
<1>4. HandedOver(i)
  BY DEF Pending, Waits, Spawn, bootVars
<1>5. CASE i = d.id
  BY <1>1, <1>3, <1>5 DEF HandedOver, ByJob
<1>6. CASE i # d.id
  <2>1. CASE ByJob(i)
    BY <2>1, <1>1, <1>3 DEF HandedOver, ByJob
  <2>2. CASE ByTodo(i)
    BY <2>2 DEF HandedOver, ByTodo, Spawn, bootVars
  <2>3. ASSUME ByClient(c, i) PROVE ByClient(c, i)'
    <3>1. PICK e \in client[c].deps : e.id = i
      BY <2>3, <1>2 DEF ByClient, Ids
    <3>2. e # d /\ client'[c] = [client[c] EXCEPT !.deps = @ \ {d}]
      BY <1>1, <1>6, <3>1
    <3>3. client'[c].stage = "spawn" /\ client'[c].deps = client[c].deps \ {d}
      BY <1>2, <3>2 DEF Req
    <3> QED
      BY <3>1, <3>2, <3>3 DEF ByClient, Ids
  <2>4. ASSUME NEW b \in Client \ {c}, ByClient(b, i) PROVE ByClient(b, i)'
    BY <2>4, <1>1 DEF ByClient, Ids
  <2> QED
    BY <1>4, <2>1, <2>2, <2>3, <2>4 DEF HandedOver
<1> QED
  BY <1>5, <1>6

\* What a request in one of the stages of a reinstall or a delete holds on to, as it moves.
LEMMA GoToIds ==
  ASSUME Inv, NEW c \in Client, client[c].stage \in OneRow,
         NEW s \in OneRow \cup {"spawn"}, GoTo(c, s)
  PROVE  Ids(c)' = Ids(c) /\ client'[c].stage = s /\ \A b \in Client \ {c} : client'[b] = client[b]
BY GoToTyped DEF Inv, TypeInv, Ids

LEMMA MovePending ==
  ASSUME Inv, Pending, NEW c \in Client,
         Mark(c) \/ WaitPermit(c) \/ Uninstall(c) \/ Uninstalled(c) \/ MarkRemoved(c)
  PROVE  Pending'
<1>1. client[c].stage \in OneRow
  BY DEF Mark, WaitPermit, Uninstall, Uninstalled, MarkRemoved, OneRow
<1>2. PICK d \in Dep : client[c].deps = {d} /\ d.id \in Id /\ Ids(c) = {d.id}
  BY <1>1, OneDep, IdsOne DEF Inv, TypeInv
<1>3. PICK s \in {"spawn", "waiting", "uninstall", "uninstalled", "erase"} : GoTo(c, s)
  BY DEF Mark, WaitPermit, Uninstall, Uninstalled, MarkRemoved
<1>4. /\ Ids(c)' = Ids(c) /\ client'[c].stage # "mark"
      /\ \A b \in Client \ {c} : client'[b] = client[b]
  BY <1>1, <1>3, GoToIds DEF OneRow
<1>5. UNCHANGED <<stuck, job, todo, up>>
  BY DEF Mark, WaitPermit, Uninstall, Uninstalled, MarkRemoved, bootVars
<1>6. UNCHANGED rows \/ \E t \in {"installing", "removing", "removed"} : SetStatus(d.id, t)
  BY <1>2 DEF Mark, WaitPermit, Uninstall, Uninstalled, MarkRemoved
<1>7. CASE UNCHANGED rows
  BY <1>4, <1>5, <1>7, ClientPending
<1>8. CASE \E t \in {"installing", "removing", "removed"} : SetStatus(d.id, t)
  BY <1>2, <1>4, <1>5, <1>8, StatusPending DEF Inv
<1> QED
  BY <1>6, <1>7, <1>8

LEMMA FailPending ==
  ASSUME Inv, Pending, NEW c \in Client, CreateFails(c) \/ MarkFails(c)
  PROVE  Pending'
<1>1. \A b \in Client \ {c} : client'[b] = client[b]
  BY DoneTyped DEF Inv, TypeInv, CreateFails, MarkFails
<1>2. CASE CreateFails(c)
  <2>1. \A i \in Ids(c) \cap Id : i \in stuck' \/ ~Waits(i)'
    <3>1. \A i : Waits(i)' => Exists(i)
      BY <1>2 DEF Waits, Exists, CreateFails
    <3> QED
      BY <3>1, <1>2 DEF CreateFails
  <2>2. stuck \subseteq stuck' /\ rows' = rows /\ UNCHANGED <<job, todo, up>>
    BY <1>2 DEF CreateFails, bootVars
  <2> QED
    BY <1>1, <2>1, <2>2, EndPending
<1>3. CASE MarkFails(c)
  BY <1>1, <1>3, ClientPending DEF MarkFails, bootVars
<1> QED
  BY <1>2, <1>3

LEMMA ErasePending ==
  ASSUME Inv, Pending, NEW c \in Client, Erase(c)
  PROVE  Pending'
<1>1. PICK d \in Dep :
        /\ client[c].deps = {d} /\ d.id \in Id
        /\ \/ /\ rows' = [rows EXCEPT ![d.id] = [st |-> "gone", name |-> None]]
              /\ stuck' = stuck \ {d.id}
           \/ Lose(d.id)
  BY EraseEffect DEF Inv
<1>2. Ids(c) = {d.id}
  BY <1>1, IdsOne DEF Inv, TypeInv, Erase, OneRow
<1>3. \A b \in Client \ {c} : client'[b] = client[b]
  BY DoneTyped DEF Inv, TypeInv, Erase
<1>4. ~Waits(d.id)' \/ d.id \in stuck'
  BY <1>1, WaitsExists DEF Waits, Exists, Lose, Inv, TypeInv, RowsOK
<1> SUFFICES ASSUME up', NEW i \in Id \ stuck', Waits(i)' PROVE HandedOver(i)'
  BY DEF Pending
<1>5. i # d.id
  BY <1>4
<1>6. rows'[i] = rows[i] /\ i \notin stuck
  BY <1>1, <1>5 DEF Lose, Inv, TypeInv, RowsOK
<1>7. HandedOver(i)
  BY <1>6 DEF Pending, Waits, Erase, bootVars
<1>8. ASSUME NEW b \in Client, ByClient(b, i) PROVE ByClient(b, i)'
  BY <1>8, <1>2, <1>3, <1>5 DEF ByClient, Ids
<1>9. ByJob(i) \/ ByTodo(i) => HandedOver(i)'
  BY DEF ByJob, ByTodo, HandedOver, Erase, bootVars
<1> QED
  BY <1>7, <1>8, <1>9 DEF HandedOver

LEMMA LeavePending ==
  ASSUME Inv, Pending, NEW c \in Client, Leave(c)
  PROVE  Pending'
<1>1. \A b \in Client \ {c} : client'[b] = client[b]
  BY DoneTyped DEF Inv, TypeInv, Leave
<1>2. /\ \A i \in Id \ Ids(c) : rows'[i] = rows[i]
      /\ \A i \in Id : Exists(i)' => Exists(i)
  <2>1. CASE UNCHANGED rows
    BY <2>1 DEF Exists
  <2>2. CASE \E d \in Dep, s \in {"installing", "removing"} :
               d.id \in Id /\ d.id \in Ids(c) /\ SetStatus(d.id, s)
    BY <2>2, StatusTyped DEF Inv, TypeInv
  <2> QED
    BY <2>1, <2>2, LeaveEffect DEF Inv
<1>3. \A i \in Ids(c) \cap Id : i \in stuck' \/ ~Waits(i)'
  <2>1. \A i : Waits(i)' => Exists(i)'
    BY DEF Waits, Exists
  <2> QED
    BY <2>1, <1>2 DEF Leave
<1>4. stuck \subseteq stuck' /\ UNCHANGED <<job, todo, up>>
  BY DEF Leave, bootVars
<1> QED
  BY <1>1, <1>2, <1>3, <1>4, EndPending

LEMMA ReportPending ==
  ASSUME Inv, Pending, NEW w \in Worker, Report(w)
  PROVE  Pending'
<1>1. PICK k \in Id : k = job[w].dep.id
  BY Busy DEF Inv, TypeInv, Report
<1>2. Release(w) /\ client' = client /\ up' = up
  BY DEF Report
<1>3. /\ \A v \in Worker \ {w} : job'[v] = job[v]
      /\ \/ job'[w] = Free /\ todo' = todo
         \/ \E d \in todo : todo' = todo \ {d} /\ job'[w] = [stage |-> "spawned", dep |-> d]
  BY <1>2, ReleaseEffect DEF Inv, TypeInv
<1>4. /\ \A i \in Id \ {k} : rows'[i] = rows[i]
      /\ stuck \subseteq stuck'
      /\ k \in stuck' \/ ~Waits(k)'
  <2>1. CASE SetStatus(k, IF job[w].stage = "good" THEN "installed" ELSE "failed") /\ UNCHANGED stuck
    <3>1. PICK s \in {"installed", "failed"} : SetStatus(k, s)
      BY <2>1
    <3>2. rows'[k].st = IF Exists(k) THEN s ELSE rows[k].st
      BY <3>1, <1>1, StatusTyped DEF Inv, TypeInv
    <3>3. ~Waits(k)'
      BY <3>2 DEF Waits, Exists
    <3> QED
      BY <2>1, <3>1, <3>3, <1>1, StatusTyped DEF Inv, TypeInv
  <2>2. CASE Lose(k)
    BY <2>2, <1>1 DEF Lose, Waits, Exists
  <2> QED
    BY <2>1, <2>2, <1>1 DEF Report
<1> SUFFICES ASSUME up', NEW i \in Id \ stuck', Waits(i)' PROVE HandedOver(i)'
  BY DEF Pending
<1>5. i # k /\ HandedOver(i)
  BY <1>2, <1>4 DEF Pending, Waits
<1>6. CASE ByJob(i)
  BY <1>1, <1>3, <1>5, <1>6 DEF ByJob, HandedOver
<1>7. CASE ByTodo(i)
  <2>1. PICK e \in todo : e.id = i
    BY <1>7 DEF ByTodo
  <2>2. CASE e \in todo'
    BY <2>1, <2>2 DEF ByTodo, HandedOver
  <2>3. CASE e \notin todo'
    <3>1. job'[w] = [stage |-> "spawned", dep |-> e]
      BY <1>3, <2>1, <2>3
    <3>2. job'[w] # Free /\ job'[w].dep.id = i
      BY <3>1, <2>1 DEF Free
    <3> QED
      BY <3>2 DEF ByJob, HandedOver
  <2> QED
    BY <2>2, <2>3
<1>8. ASSUME NEW c \in Client, ByClient(c, i) PROVE ByClient(c, i)'
  BY <1>2, <1>8 DEF ByClient, Ids
<1> QED
  BY <1>5, <1>6, <1>7, <1>8 DEF HandedOver

\* Jobs that move on keep their row.
LEMMA StepPending ==
  ASSUME Inv, Pending, NEW w \in Worker, Acquire(w) \/ Install(w) \/ Installed(w)
  PROVE  Pending'
<1>1. /\ job[w].stage # "free" /\ UNCHANGED <<rows, client, todo, up, stuck>>
      /\ \E s \in {"queued", "running", "good", "bad"} : Step(w, s)
  BY DEF Acquire, Install, Installed, bootVars
<1>2. /\ job'[w].dep = job[w].dep /\ job'[w] # Free
      /\ \A v \in Worker \ {w} : job'[v] = job[v]
  BY <1>1, StepTyped DEF Inv, TypeInv
<1>3. \A i : HandedOver(i) => HandedOver(i)'
  BY <1>1, <1>2 DEF HandedOver, ByJob, ByTodo, ByClient, Ids
<1> QED
  BY <1>1, <1>3 DEF Pending, Waits

\* A start takes every row in hand that waits.
LEMMA RestartPending ==
  ASSUME Inv, Restart
  PROVE  Pending'
<1> DEFINE again == {i \in Id : Exists(i) /\ rows[i].st # "removed"}
           deps == {Copy(i) : i \in again}
<1> SUFFICES ASSUME NEW i \in Id, Waits(i)' PROVE HandedOver(i)'
  BY DEF Pending
<1>1. i \in again
  <2>1. rows'[i] = IF i \in again THEN [rows[i] EXCEPT !.st = "installing"] ELSE rows[i]
    BY DEF Restart
  <2> QED
    BY <2>1 DEF Waits, Exists
<1>2. Copy(i) \in deps /\ Copy(i).id = i
  BY <1>1 DEF Copy
<1>3. PICK d \in deps : /\ todo' = deps \ {d}
                        /\ job' = [job EXCEPT ![Boot] = [stage |-> "spawned", dep |-> d]]
  BY <1>2 DEF Restart
<1>4. CASE d = Copy(i)
  <2>1. job'[Boot] = [stage |-> "spawned", dep |-> d] /\ Boot \in Worker
    BY <1>3 DEF Inv, TypeInv, JobsOK, Worker
  <2>2. job'[Boot] # Free /\ job'[Boot].dep.id = i
    BY <2>1, <1>2, <1>4 DEF Free
  <2> QED
    BY <2>1, <2>2 DEF HandedOver, ByJob
<1>5. CASE d # Copy(i)
  BY <1>2, <1>3, <1>5 DEF HandedOver, ByTodo
<1> QED
  BY <1>4, <1>5

LEMMA PendingNext == Inv /\ Pending /\ [Next]_vars => Pending'
<1> SUFFICES ASSUME Inv, Pending, [Next]_vars PROVE Pending'
  OBVIOUS
<1>1. CASE UNCHANGED vars
  BY <1>1 DEF Pending, Waits, HandedOver, ByJob, ByTodo, ByClient, Ids, vars
<1>2. ASSUME NEW c \in Client, Serve(c) PROVE Pending'
  BY <1>2, InsertPending, FetchPending, FailPending, SpawnPending, MovePending, ErasePending DEF Serve
<1>3. ASSUME NEW w \in Worker, Work(w) PROVE Pending'
  BY <1>3, StepPending, ReportPending DEF Work
<1>4. ASSUME NEW i \in Id, NEW n \in Package, Rename(i, n) PROVE Pending'
  <2>1. \A k \in Id : rows'[k].st = rows[k].st
    BY <1>4 DEF Inv, TypeInv, RowsOK, RowOK, Row, Rename
  <2> QED
    BY <1>4, <2>1 DEF Pending, Waits, HandedOver, ByJob, ByTodo, ByClient, Ids, Rename, bootVars
<1>5. ASSUME NEW n \in Package, OrphanEnds(n) PROVE Pending'
  BY <1>5 DEF Pending, Waits, HandedOver, ByJob, ByTodo, ByClient, Ids, OrphanEnds, bootVars
<1>6. CASE Crash
  BY <1>6 DEF Crash, Pending
<1> QED
  BY <1>1, <1>2, <1>3, <1>4, <1>5, <1>6, RequestPending, LeavePending, RestartPending DEF Next

\* A row that waits is in somebody's hands: of a job, of the startup job or of a request
\* that will hand it to one or note it.
THEOREM NothingForgottenHolds == Spec => []NothingForgotten
<1>1. Init => Pending
  BY DEF Init, Pending, Waits
<1>2. Inv /\ Pending => NothingForgotten
  BY DEF Pending, NothingForgotten, HandedOver, ByJob, ByTodo, ByClient, Ids, InHand, Waits
<1> QED
  BY <1>1, <1>2, InvHolds, PendingNext, PTL DEF Spec

-----------------------------------------------------------------------------
(* "Installed" means installed.                                              *)

\* The copies of rows that jobs and requests work on.
Held(d) ==
  \/ \E w \in Worker : job[w].stage # "free" /\ job[w].dep = d
  \/ d \in todo
  \/ \E c \in Client : d \in client[c].deps

\* A copy is of a row there was, which has had its name since unless both are tainted.
Faithful(d) ==
  /\ rows[d.id].st # "unborn"
  /\ Exists(d.id) /\ rows[d.id].name # d.name => {d.name, rows[d.id].name} \subseteq tainted

CopiesFaithful == \A d \in Dep : Held(d) => Faithful(d)

\* Two rows with one name taint it.
OneRowEach ==
  \A i, k \in Id : i # k /\ Exists(i) /\ Exists(k) /\ rows[i].name = rows[k].name
                  => rows[i].name \in tainted

\* A job that has installed its package, and has still to say so.
GoodIsPresent ==
  \A w \in Worker : job[w].stage = "good" =>
    job[w].dep.name \in present \/ job[w].dep.name \in tainted

\* While a package is uninstalled its row says something else than "installed".
UninstallKnown ==
  \A c \in Client : client[c].stage = "uninstall" =>
    \A d \in client[c].deps :
      d.name \in tainted \/ (Exists(d.id) /\ rows[d.id].st # "installed")

OrphansTainted == orphans \subseteq tainted

Honest ==
  /\ CopiesFaithful /\ OneRowEach /\ UninstallKnown /\ OrphansTainted
  /\ GoodIsPresent /\ InstalledIsPresent

\* Rows change their status, or go.
Steady ==
  /\ tainted \subseteq tainted'
  /\ \A i \in Id : /\ rows'[i].st = "unborn" <=> rows[i].st = "unborn"
                   /\ Exists(i)' => Exists(i) /\ rows'[i].name = rows[i].name

\* Copies that were not held before are new.
FreshCopies ==
  \A d \in Dep : Held(d)' => Held(d) \/ \E i \in Id : Exists(i) /\ d = Copy(i)

LEMMA CopiesKept ==
  ASSUME CopiesFaithful, Steady, FreshCopies
  PROVE  CopiesFaithful'
<1> SUFFICES ASSUME NEW d \in Dep, Held(d)' PROVE Faithful(d)'
  BY DEF CopiesFaithful
<1>1. d.id \in Id
  BY DEF Dep
<1>2. Faithful(d)
  <2>1. CASE Held(d)
    BY <2>1 DEF CopiesFaithful
  <2>2. CASE \E i \in Id : Exists(i) /\ d = Copy(i)
    BY <2>2 DEF Faithful, Copy, Exists
  <2> QED
    BY <2>1, <2>2 DEF FreshCopies
<1> QED
  BY <1>1, <1>2 DEF Faithful, Steady

LEMMA RowsKept ==
  ASSUME OneRowEach, Steady
  PROVE  OneRowEach'
BY DEF OneRowEach, Steady

LEMMA UninstallKept ==
  ASSUME UninstallKnown, ClientsOK, tainted \subseteq tainted',
         \A c \in Client : client'[c].stage = "uninstall" => client'[c] = client[c],
         \A c \in Client : client'[c].stage = "uninstall" =>
           \A i \in Id : Exists(i) => Exists(i)' /\ (rows'[i].st = "installed" => rows[i].st = "installed")
  PROVE  UninstallKnown'
<1> SUFFICES ASSUME NEW c \in Client, client'[c].stage = "uninstall", NEW d \in client'[c].deps
             PROVE  d.name \in tainted' \/ (Exists(d.id)' /\ rows'[d.id].st # "installed")
  BY DEF UninstallKnown
<1>1. client'[c] = client[c] /\ d.id \in Id
  BY DEF ClientsOK, Req, Dep
<1>2. d.name \in tainted \/ (Exists(d.id) /\ rows[d.id].st # "installed")
  BY <1>1 DEF UninstallKnown
<1> QED
  BY <1>1, <1>2

LEMMA PresentKept ==
  ASSUME InstalledIsPresent, up' => up, tainted \subseteq tainted', Steady,
         \A n : n \in present => n \in present' \/ n \in tainted',
         \A i \in Id : rows'[i].st = "installed" => rows[i].st = "installed"
  PROVE  InstalledIsPresent'
<1> SUFFICES ASSUME up', NEW i \in Id, rows'[i].st = "installed"
             PROVE  rows'[i].name \in present' \/ rows'[i].name \in tainted'
  BY DEF InstalledIsPresent
<1>1. rows[i].st = "installed" /\ rows'[i].name = rows[i].name
  BY DEF Steady, Exists
<1> QED
  BY <1>1 DEF InstalledIsPresent

LEMMA GoodKept ==
  ASSUME GoodIsPresent, tainted \subseteq tainted',
         \A n : n \in present => n \in present' \/ n \in tainted',
         \A w \in Worker : job'[w].stage = "good" => job'[w].dep = job[w].dep /\ job[w].stage = "good"
  PROVE  GoodIsPresent'
BY DEF GoodIsPresent

\* Steps that neither install nor uninstall.
LEMMA HonestKept ==
  ASSUME Inv, Honest, Steady, FreshCopies, up' => up,
         \A n : n \in present => n \in present' \/ n \in tainted',
         \A n : n \in orphans' => n \in orphans \/ n \in tainted',
         \A i \in Id : rows'[i].st = "installed" => rows[i].st = "installed",
         \A w \in Worker : job'[w].stage = "good" => job'[w].dep = job[w].dep /\ job[w].stage = "good",
         \A c \in Client : client'[c].stage = "uninstall" => client'[c] = client[c],
         \A c \in Client : client'[c].stage = "uninstall" => \A i \in Id : Exists(i) => Exists(i)'
  PROVE  Honest'
<1>1. CopiesFaithful' /\ OneRowEach'
  BY CopiesKept, RowsKept DEF Honest
<1>2. UninstallKnown'
  BY UninstallKept DEF Honest, Inv, TypeInv, Steady
<1>3. OrphansTainted'
  BY DEF Honest, OrphansTainted, Steady
<1>4. GoodIsPresent'
  BY GoodKept DEF Honest, Steady
<1>5. InstalledIsPresent'
  BY PresentKept DEF Honest, Steady
<1> QED
  BY <1>1, <1>2, <1>3, <1>4, <1>5 DEF Honest

LEMMA SteadySame ==
  ASSUME UNCHANGED rows, tainted \subseteq tainted'
  PROVE  Steady /\ \A i \in Id : Exists(i) => Exists(i)'
BY DEF Steady, Exists

LEMMA SteadyStatus ==
  ASSUME RowsOK, NEW k \in Id, NEW s \in {"installing", "installed", "failed", "removing", "removed"},
         SetStatus(k, s), tainted \subseteq tainted'
  PROVE  /\ Steady /\ \A i \in Id : Exists(i) => Exists(i)'
         /\ \A i \in Id : rows'[i].st = "installed" =>
              rows[i].st = "installed" \/ (s = "installed" /\ i = k /\ Exists(k))
<1>1. /\ \A i \in Id : rows'[i].name = rows[i].name /\ (Exists(i)' <=> Exists(i))
      /\ \A i \in Id : i # k => rows'[i] = rows[i]
      /\ rows'[k].st = IF Exists(k) THEN s ELSE rows[k].st
  BY StatusTyped
<1> QED
  BY <1>1 DEF Steady, Exists

LEMMA ClientFresh ==
  ASSUME UNCHANGED <<job, todo>>, NEW c \in Client,
         \A b \in Client \ {c} : client'[b] = client[b],
         \A d \in client'[c].deps : d \in client[c].deps \/ \E i \in Id : Exists(i) /\ d = Copy(i)
  PROVE  FreshCopies
BY DEF FreshCopies, Held

LEMMA JobFresh ==
  ASSUME UNCHANGED client, todo' \subseteq todo, NEW w \in Worker,
         \A v \in Worker \ {w} : job'[v] = job[v],
         job'[w].stage # "free" =>
           (job[w].stage # "free" /\ job'[w].dep = job[w].dep) \/ job'[w].dep \in todo
  PROVE  FreshCopies
BY DEF FreshCopies, Held

LEMMA RequestHonest ==
  ASSUME Inv, Honest, NEW c \in Client, Request(c)
  PROVE  Honest'
<1>1. PICK q \in Req : /\ client' = [client EXCEPT ![c] = q] /\ q.stage \in {"insert", "mark", "delete"}
                       /\ \A d \in q.deps : \E i \in Id : Exists(i) /\ d = Copy(i)
  <2>1. ASSUME NEW names \in SUBSET Package, Create(c, names)
        PROVE  \E q \in Req : /\ client' = [client EXCEPT ![c] = q] /\ q.stage = "insert" /\ q.deps = {}
    <3> DEFINE q == [Idle EXCEPT !.stage = "insert", !.names = names]
    <3>1. q \in Req /\ q.stage = "insert" /\ q.deps = {}
      BY DEF Req, Idle
    <3> QED
      BY <2>1, <3>1 DEF Create
  <2>2. ASSUME NEW i \in Id, NEW s \in {"mark", "delete"}, Exists(i),
               client' = [client EXCEPT ![c] = [Idle EXCEPT !.stage = s, !.deps = {Copy(i)}]]
        PROVE  \E q \in Req : /\ client' = [client EXCEPT ![c] = q] /\ q.stage = s /\ q.deps = {Copy(i)}
    <3> DEFINE q == [Idle EXCEPT !.stage = s, !.deps = {Copy(i)}]
    <3>1. q \in Req /\ q.stage = s /\ q.deps = {Copy(i)}
      BY <2>2, CopyTyped DEF Req, Idle, Inv, TypeInv
    <3> QED
      BY <2>2, <3>1
  <2>3. CASE \E names \in SUBSET Package : Create(c, names)
    BY <2>1, <2>3
  <2>4. CASE \E i \in Id : Reinstall(c, i)
    <3>1. PICK i \in Id : Exists(i) /\ client' = [client EXCEPT ![c] = [Idle EXCEPT !.stage = "mark", !.deps = {Copy(i)}]]
      BY <2>4 DEF Reinstall
    <3>2. \E q \in Req : /\ client' = [client EXCEPT ![c] = q] /\ q.stage = "mark" /\ q.deps = {Copy(i)}
      BY <3>1, <2>2
    <3> QED
      BY <3>1, <3>2
  <2>5. CASE \E i \in Id : Delete(c, i)
    <3>1. PICK i \in Id : Exists(i) /\ client' = [client EXCEPT ![c] = [Idle EXCEPT !.stage = "delete", !.deps = {Copy(i)}]]
      BY <2>5 DEF Delete
    <3>2. \E q \in Req : /\ client' = [client EXCEPT ![c] = q] /\ q.stage = "delete" /\ q.deps = {Copy(i)}
      BY <3>1, <2>2
    <3> QED
      BY <3>1, <3>2
  <2> QED
    BY <2>3, <2>4, <2>5 DEF Request
<1>2. client'[c] = q /\ \A b \in Client \ {c} : client'[b] = client[b]
  BY <1>1 DEF Inv, TypeInv, ClientsOK
<1>3. UNCHANGED <<rows, present, job, orphans, todo, up, tainted>>
  BY DEF Request, Create, Reinstall, Delete, bootVars
<1>4. FreshCopies
  BY <1>1, <1>2, <1>3, ClientFresh
<1>5. \A b \in Client : client'[b].stage = "uninstall" => client'[b] = client[b]
  BY <1>1, <1>2
<1> QED
  BY <1>3, <1>4, <1>5, SteadySame, HonestKept

\* Requests that end.
LEMMA DoneHonest ==
  ASSUME Inv, Honest, NEW c \in Client, Done(c), Steady, UNCHANGED <<present, job, todo, up>>,
         \A n : n \in orphans' => n \in orphans \/ n \in tainted',
         \A i \in Id : rows'[i].st = "installed" => rows[i].st = "installed",
         \A b \in Client \ {c} : client[b].stage = "uninstall" => \A i \in Id : Exists(i) => Exists(i)'
  PROVE  Honest'
<1>1. client'[c] = Idle /\ \A b \in Client \ {c} : client'[b] = client[b]
  BY DoneTyped DEF Inv, TypeInv
<1>2. client'[c].deps = {} /\ client'[c].stage = "idle"
  BY <1>1 DEF Idle
<1>3. FreshCopies
  BY <1>1, <1>2, ClientFresh
<1>4. \A b \in Client : client'[b].stage = "uninstall" => client'[b] = client[b] /\ b # c
  BY <1>1, <1>2
<1> QED
  BY <1>3, <1>4, HonestKept

LEMMA EndsHonest ==
  ASSUME Inv, Honest, NEW c \in Client, CreateFails(c) \/ MarkFails(c) \/ Leave(c)
  PROVE  Honest'
<1>1. Done(c) /\ tainted \subseteq tainted' /\ UNCHANGED <<present, job, todo, up>>
  BY DEF CreateFails, MarkFails, Leave, bootVars
<1>2. \A n : n \in orphans' => n \in orphans \/ n \in tainted'
  BY DEF CreateFails, MarkFails, Leave
<1>3. UNCHANGED rows \/ \E d \in Dep, s \in {"installing", "removing"} : d.id \in Id /\ SetStatus(d.id, s)
  BY LeaveEffect DEF Inv, CreateFails, MarkFails
<1>4. CASE UNCHANGED rows
  BY <1>1, <1>2, <1>4, SteadySame, DoneHonest
<1>5. CASE \E d \in Dep, s \in {"installing", "removing"} : d.id \in Id /\ SetStatus(d.id, s)
  <2>1. PICK d \in Dep, s \in {"installing", "removing"} : d.id \in Id /\ SetStatus(d.id, s)
    BY <1>5
  <2>2. Steady /\ (\A i \in Id : Exists(i) => Exists(i)')
        /\ (\A i \in Id : rows'[i].st = "installed" => rows[i].st = "installed")
    BY <1>1, <2>1, SteadyStatus DEF Inv, TypeInv
  <2> QED
    BY <1>1, <1>2, <2>2, DoneHonest
<1> QED
  BY <1>3, <1>4, <1>5

LEMMA EraseHonest ==
  ASSUME Inv, Honest, NEW c \in Client, Erase(c)
  PROVE  Honest'
<1>1. PICK d \in Dep :
        /\ client[c].deps = {d} /\ d.id \in Id
        /\ rows' = [rows EXCEPT ![d.id] = [st |-> "gone", name |-> None]] \/ rows' = rows
  BY EraseEffect DEF Inv, Lose
<1>2. Done(c) /\ UNCHANGED <<present, job, todo, up, orphans, tainted>>
  BY DEF Erase, bootVars
<1>3. \A b \in Client \ {c} : client[b].stage # "uninstall"
  BY OnlyHeadClient DEF Inv, Erase, Removing
<1>4. rows[d.id].st # "unborn"
  BY <1>1 DEF Honest, CopiesFaithful, Held, Faithful
<1>5. Steady /\ \A i \in Id : rows'[i].st = "installed" => rows[i].st = "installed"
  BY <1>1, <1>2, <1>4 DEF Steady, Exists, Inv, TypeInv, RowsOK
<1> QED
  BY <1>2, <1>3, <1>5, DoneHonest

\* A new row that has the name of another taints it.
LEMMA InsertHonest ==
  ASSUME Inv, Honest, NEW c \in Client, Insert(c)
  PROVE  Honest'
<1>1. PICK k \in Id, n \in client[c].names :
        /\ rows[k].st = "unborn"
        /\ rows' = [rows EXCEPT ![k] = [st |-> "installing", name |-> n]]
        /\ tainted' = IF Named(n) = {} THEN tainted ELSE tainted \cup {n}
        /\ client' = [client EXCEPT ![c].stage = "fetch", ![c].at = k, ![c].names = @ \ {n}]
  BY DEF Insert
<1>2. client'[c] = [stage |-> "fetch", names |-> client[c].names \ {n}, at |-> k,
                    deps |-> client[c].deps]
  BY <1>1 DEF Inv, TypeInv, ClientsOK, Req
<1>3. /\ client'[c].stage = "fetch" /\ client'[c].deps = client[c].deps
      /\ \A b \in Client \ {c} : client'[b] = client[b]
  BY <1>1, <1>2 DEF Inv, TypeInv, ClientsOK
<1>4. /\ rows'[k].st = "installing" /\ rows'[k].name = n /\ ~Exists(k)
      /\ \A i \in Id \ {k} : rows'[i] = rows[i]
  BY <1>1 DEF Inv, TypeInv, RowsOK, Exists
<1>5. UNCHANGED <<present, job, todo, up, orphans>> /\ tainted \subseteq tainted'
  BY <1>1 DEF Insert, bootVars
<1>6. CopiesFaithful'
  <2> SUFFICES ASSUME NEW d \in Dep, Held(d)' PROVE Faithful(d)'
    BY DEF CopiesFaithful
  <2>1. Held(d)
    BY <1>3, <1>5 DEF Held
  <2>2. Faithful(d) /\ d.id \in Id
    BY <2>1 DEF Honest, CopiesFaithful, Dep
  <2>3. d.id # k
    BY <2>2, <1>1 DEF Faithful
  <2> QED
    BY <2>2, <2>3, <1>4, <1>5 DEF Faithful, Exists
<1>7. OneRowEach'
  <2> SUFFICES ASSUME NEW i \in Id, NEW j \in Id, i # j, Exists(i)', Exists(j)',
                      rows'[i].name = rows'[j].name
               PROVE  rows'[i].name \in tainted'
    BY DEF OneRowEach
  <2>1. CASE i # k /\ j # k
    BY <2>1, <1>4, <1>5 DEF Honest, OneRowEach, Exists
  <2>2. CASE i = k
    <3>1. j \in Named(n)
      BY <2>2, <1>4 DEF Named, Exists
    <3> QED
      BY <3>1, <2>2, <1>1, <1>4
  <2>3. CASE j = k
    <3>1. i \in Named(n)
      BY <2>3, <1>4 DEF Named, Exists
    <3> QED
      BY <3>1, <2>3, <1>1, <1>4
  <2> QED
    BY <2>1, <2>2, <2>3
<1>8. UninstallKnown'
  <2>1. \A b \in Client : client'[b].stage = "uninstall" => client'[b] = client[b]
    BY <1>3
  <2>2. \A i \in Id : Exists(i) => Exists(i)' /\ (rows'[i].st = "installed" => rows[i].st = "installed")
    BY <1>4 DEF Exists
  <2> QED
    BY <2>1, <2>2, <1>5, UninstallKept DEF Honest, Inv, TypeInv
<1>9. OrphansTainted' /\ GoodIsPresent'
  BY <1>5, GoodKept DEF Honest, OrphansTainted
<1>10. InstalledIsPresent'
  <2> SUFFICES ASSUME up', NEW i \in Id, rows'[i].st = "installed"
               PROVE  rows'[i].name \in present' \/ rows'[i].name \in tainted'
    BY DEF InstalledIsPresent
  <2>1. i # k
    BY <1>4
  <2> QED
    BY <2>1, <1>4, <1>5 DEF Honest, InstalledIsPresent
<1> QED
  BY <1>6, <1>7, <1>8, <1>9, <1>10 DEF Honest

LEMMA FetchHonest ==
  ASSUME Inv, Honest, NEW c \in Client, Fetch(c)
  PROVE  Honest'
<1>1. PICK x : /\ client'[c] = [stage |-> IF client[c].names = {} THEN "spawn" ELSE "insert",
                                names |-> client[c].names, at |-> None, deps |-> x]
               /\ x = client[c].deps \cup {Copy(client[c].at)}
  BY FetchEffect DEF Inv
<1>2. client'[c].deps = x /\ client'[c].stage # "uninstall"
  BY <1>1
<1>3. /\ client[c].at \in Id /\ Exists(client[c].at)
      /\ \A b \in Client \ {c} : client'[b] = client[b]
  BY FetchEffect DEF Inv, Fetch
<1>4. UNCHANGED <<rows, present, job, todo, up, orphans, tainted>>
  BY DEF Fetch, bootVars
<1>5. FreshCopies
  BY <1>1, <1>2, <1>3, <1>4, ClientFresh
<1>6. \A b \in Client : client'[b].stage = "uninstall" => client'[b] = client[b]
  BY <1>2, <1>3
<1> QED
  BY <1>4, <1>5, <1>6, SteadySame, HonestKept

LEMMA SpawnHonest ==
  ASSUME Inv, Honest, NEW c \in Client, Spawn(c)
  PROVE  Honest'
<1>1. PICK d \in client[c].deps, j \in Job :
        /\ d \in Dep /\ j \in Worker /\ job[j] = Free
        /\ job' = [job EXCEPT ![j] = [stage |-> "spawned", dep |-> d]]
        /\ \/ client[c].deps = {d} /\ client'[c] = Idle
           \/ client'[c] = [client[c] EXCEPT !.deps = @ \ {d}]
        /\ \A b \in Client \ {c} : client'[b] = client[b]
  BY SpawnEffect DEF Inv
<1>2. client'[c].stage # "uninstall" /\ client'[c].deps \subseteq client[c].deps
  <2>1. client[c] \in Req /\ client[c].stage = "spawn"
    BY DEF Inv, TypeInv, ClientsOK, Spawn
  <2>2. CASE client'[c] = Idle
    BY <2>2 DEF Idle
  <2>3. CASE client'[c] = [client[c] EXCEPT !.deps = @ \ {d}]
    BY <2>1, <2>3 DEF Req
  <2> QED
    BY <1>1, <2>2, <2>3
<1>3. /\ job'[j].stage = "spawned" /\ job'[j].dep = d
      /\ \A v \in Worker \ {j} : job'[v] = job[v]
  BY <1>1 DEF Inv, TypeInv, JobsOK
<1>4. UNCHANGED <<rows, present, todo, up, orphans, tainted>>
  BY DEF Spawn, bootVars
<1>5. FreshCopies
  <2>1. Held(d)
    BY DEF Held
  <2>2. ASSUME NEW e \in Dep, Held(e)' PROVE Held(e)
    <3>1. CASE \E w \in Worker : job'[w].stage # "free" /\ job'[w].dep = e
      BY <3>1, <2>1, <1>3 DEF Held
    <3>2. CASE e \in todo'
      BY <3>2, <1>4 DEF Held
    <3>3. CASE \E b \in Client : e \in client'[b].deps
      BY <3>3, <1>1, <1>2 DEF Held
    <3> QED
      BY <2>2, <3>1, <3>2, <3>3 DEF Held
  <2> QED
    BY <2>2 DEF FreshCopies
<1>6. \A b \in Client : client'[b].stage = "uninstall" => client'[b] = client[b]
  BY <1>1, <1>2
<1>7. \A w \in Worker : job'[w].stage = "good" => job'[w].dep = job[w].dep /\ job[w].stage = "good"
  BY <1>3
<1> QED
  BY <1>4, <1>5, <1>6, <1>7, SteadySame, HonestKept

\* A reinstall or a delete moves without a word to the package manager.
LEMMA MoveHonest ==
  ASSUME Inv, Honest, NEW c \in Client, Mark(c) \/ WaitPermit(c) \/ MarkRemoved(c)
  PROVE  Honest'
<1>1. client[c].stage \in OneRow
  BY DEF Mark, WaitPermit, MarkRemoved, OneRow
<1>2. PICK d \in Dep : client[c].deps = {d} /\ d.id \in Id
  BY <1>1, OneDep DEF Inv, TypeInv
<1>3. PICK s \in {"spawn", "waiting", "erase"} : GoTo(c, s)
  BY DEF Mark, WaitPermit, MarkRemoved
<1>4. /\ client'[c].stage = s /\ client'[c].deps = client[c].deps
      /\ \A b \in Client \ {c} : client'[b] = client[b]
  BY <1>1, <1>3, GoToTyped DEF Inv, TypeInv, OneRow
<1>5. UNCHANGED <<present, job, todo, up, orphans, tainted>>
  BY DEF Mark, WaitPermit, MarkRemoved, bootVars
<1>6. UNCHANGED rows \/ \E t \in {"installing", "removed"} : SetStatus(d.id, t)
  BY <1>2 DEF Mark, WaitPermit, MarkRemoved
<1>7. /\ Steady /\ \A i \in Id : Exists(i) => Exists(i)'
      /\ \A i \in Id : rows'[i].st = "installed" => rows[i].st = "installed"
  <2>1. CASE UNCHANGED rows
    BY <2>1, <1>5, SteadySame
  <2>2. CASE \E t \in {"installing", "removed"} : SetStatus(d.id, t)
    <3>1. PICK t \in {"installing", "removed"} : SetStatus(d.id, t)
      BY <2>2
    <3> QED
      BY <3>1, <1>2, <1>5, SteadyStatus DEF Inv, TypeInv
  <2> QED
    BY <1>6, <2>1, <2>2
<1>8. FreshCopies
  BY <1>4, <1>5, ClientFresh
<1>9. \A b \in Client : client'[b].stage = "uninstall" => client'[b] = client[b]
  BY <1>4
<1> QED
  BY <1>5, <1>7, <1>8, <1>9, HonestKept

\* The row of a package that is uninstalled says so, or the package is tainted.
LEMMA UninstallHonest ==
  ASSUME Inv, Honest, NEW c \in Client, Uninstall(c)
  PROVE  Honest'
<1>1. PICK d \in Dep : client[c].deps = {d} /\ d.id \in Id
  BY OneDep DEF Inv, TypeInv, Uninstall, OneRow
<1>2. PICK s \in {"uninstall", "erase"} :
        /\ GoTo(c, s)
        /\ \/ /\ SetStatus(d.id, "removing")
              /\ tainted' = tainted \cup {e.name : e \in {b \in client[c].deps : ~Exists(b.id)}}
           \/ s = "erase" /\ UNCHANGED <<rows, tainted>>
  BY <1>1 DEF Uninstall
<1>3. /\ client'[c].stage = s /\ client'[c].deps = {d}
      /\ \A b \in Client \ {c} : client'[b] = client[b]
  BY <1>1, <1>2, GoToTyped DEF Inv, TypeInv, OneRow, Uninstall
<1>4. UNCHANGED <<present, job, todo, up, orphans>> /\ tainted \subseteq tainted'
  BY <1>2 DEF Uninstall, bootVars
<1>5. /\ Steady /\ \A i \in Id : Exists(i) => Exists(i)'
      /\ \A i \in Id : rows'[i].st = "installed" => rows[i].st = "installed"
  <2>1. CASE UNCHANGED rows
    BY <2>1, <1>4, SteadySame
  <2>2. CASE SetStatus(d.id, "removing")
    BY <2>2, <1>1, <1>4, SteadyStatus DEF Inv, TypeInv
  <2> QED
    BY <1>2, <2>1, <2>2
<1>6. FreshCopies
  BY <1>1, <1>3, <1>4, ClientFresh
<1>7. CopiesFaithful' /\ OneRowEach' /\ OrphansTainted' /\ GoodIsPresent' /\ InstalledIsPresent'
  BY <1>4, <1>5, <1>6, CopiesKept, RowsKept, GoodKept, PresentKept DEF Honest, OrphansTainted
<1>8. UninstallKnown'
  <2> SUFFICES ASSUME NEW b \in Client, client'[b].stage = "uninstall", NEW e \in client'[b].deps
               PROVE  e.name \in tainted' \/ (Exists(e.id)' /\ rows'[e.id].st # "installed")
    BY DEF UninstallKnown
  <2>1. CASE b = c
    <3>1. /\ e = d /\ SetStatus(d.id, "removing")
          /\ tainted' = tainted \cup {a.name : a \in {b1 \in client[c].deps : ~Exists(b1.id)}}
      BY <2>1, <1>2, <1>3
    <3>2. CASE Exists(d.id)
      BY <3>1, <3>2, <1>1, <1>5, StatusTyped DEF Inv, TypeInv
    <3>3. CASE ~Exists(d.id)
      BY <3>1, <3>3, <1>1
    <3> QED
      BY <3>2, <3>3
  <2>2. CASE b # c
    <3>1. client[b].stage = "uninstall" /\ e \in client[b].deps /\ e.id \in Id
      BY <2>2, <1>3 DEF Inv, TypeInv, ClientsOK, Req, Dep
    <3>2. e.name \in tainted \/ (Exists(e.id) /\ rows[e.id].st # "installed")
      BY <3>1 DEF Honest, UninstallKnown
    <3> QED
      BY <3>1, <3>2, <1>4, <1>5
  <2> QED
    BY <2>1, <2>2
<1> QED
  BY <1>7, <1>8 DEF Honest

\* The package goes, and no row that is not tainted says it is there.
LEMMA UninstalledHonest ==
  ASSUME Inv, Honest, NEW c \in Client, Uninstalled(c)
  PROVE  Honest'
<1>1. PICK d \in Dep : client[c].deps = {d} /\ d.id \in Id
  BY OneDep DEF Inv, TypeInv, Uninstalled, OneRow
<1>2. PICK s \in {"uninstalled", "erase"} : GoTo(c, s)
  BY DEF Uninstalled
<1>3. /\ client'[c].stage = s /\ client'[c].deps = {d}
      /\ \A b \in Client \ {c} : client'[b] = client[b]
  BY <1>1, <1>2, GoToTyped DEF Inv, TypeInv, OneRow, Uninstalled
<1>4. UNCHANGED <<rows, job, todo, up, orphans, tainted>>
  BY DEF Uninstalled, bootVars
<1>5. /\ \A w \in Worker : job[w].stage # "good"
      /\ \A b \in Client \ {c} : client[b].stage # "uninstall"
  BY OnlyHeadClient DEF Inv, Uninstalled, Removing, Commands
<1>6. Steady /\ FreshCopies
  BY <1>1, <1>3, <1>4, SteadySame, ClientFresh
<1>7. CopiesFaithful' /\ OneRowEach' /\ OrphansTainted'
  BY <1>4, <1>6, CopiesKept, RowsKept DEF Honest, OrphansTainted
<1>8. UninstallKnown' /\ GoodIsPresent'
  BY <1>3, <1>4, <1>5 DEF UninstallKnown, GoodIsPresent
<1>9. InstalledIsPresent'
  <2> SUFFICES ASSUME up', NEW i \in Id, rows'[i].st = "installed",
                      rows[i].name \in present, rows[i].name \notin present'
               PROVE  rows[i].name \in tainted
    BY <1>4 DEF Honest, InstalledIsPresent
  <2>1. rows[i].name = d.name
    BY <1>1 DEF Uninstalled
  <2>2. CASE d.name \in tainted
    BY <2>1, <2>2
  <2>3. CASE d.name \notin tainted
    <3>1. Exists(d.id) /\ rows[d.id].st # "installed"
      BY <1>1, <2>3 DEF Honest, UninstallKnown, Uninstalled
    <3>2. rows[d.id].name = d.name
      BY <1>1, <2>3, <3>1 DEF Honest, CopiesFaithful, Held, Faithful
    <3>3. i # d.id /\ Exists(i)
      BY <1>4, <3>1 DEF Exists
    <3> QED
      BY <1>1, <2>1, <3>1, <3>2, <3>3 DEF Honest, OneRowEach
  <2> QED
    BY <2>2, <2>3
<1> QED
  BY <1>7, <1>8, <1>9 DEF Honest

LEMMA RenameHonest ==
  ASSUME Inv, Honest, NEW i \in Id, NEW n \in Package, Rename(i, n)
  PROVE  Honest'
<1>1. /\ Exists(i) /\ tainted' = tainted \cup {rows[i].name, n}
      /\ UNCHANGED <<present, job, todo, client, up, orphans>>
  BY DEF Rename, bootVars
<1>2. /\ rows'[i].name = n
      /\ \A k \in Id : rows'[k].st = rows[k].st
      /\ \A k \in Id \ {i} : rows'[k] = rows[k]
  BY DEF Rename, Inv, TypeInv, RowsOK, RowOK, Row
<1>3. CopiesFaithful'
  <2> SUFFICES ASSUME NEW d \in Dep, Held(d)' PROVE Faithful(d)'
    BY DEF CopiesFaithful
  <2>1. Faithful(d) /\ d.id \in Id
    BY <1>1 DEF Honest, CopiesFaithful, Held, Dep
  <2> QED
    BY <2>1, <1>1, <1>2 DEF Faithful, Exists
<1>4. OneRowEach'
  BY <1>1, <1>2 DEF Honest, OneRowEach, Exists
<1>5. UninstallKnown'
  <2>1. \A k \in Id : Exists(k) => Exists(k)' /\ (rows'[k].st = "installed" => rows[k].st = "installed")
    BY <1>2 DEF Exists
  <2> QED
    BY <2>1, <1>1, UninstallKept DEF Honest, Inv, TypeInv
<1>6. OrphansTainted' /\ GoodIsPresent'
  BY <1>1, GoodKept DEF Honest, OrphansTainted
<1>7. InstalledIsPresent'
  BY <1>1, <1>2 DEF Honest, InstalledIsPresent
<1> QED
  BY <1>3, <1>4, <1>5, <1>6, <1>7 DEF Honest

LEMMA StepHonest ==
  ASSUME Inv, Honest, NEW w \in Worker, Acquire(w) \/ Install(w) \/ Installed(w)
  PROVE  Honest'
<1>1. PICK s \in {"queued", "running", "good", "bad"} :
        /\ Step(w, s) /\ job[w].stage # "free"
        /\ UNCHANGED <<rows, client, todo, up, orphans, tainted>>
        /\ IF s = "good" THEN present' = present \cup {job[w].dep.name} ELSE present' = present
  BY DEF Acquire, Install, Installed, bootVars
<1>2. /\ job'[w].stage = s /\ job'[w].dep = job[w].dep
      /\ \A v \in Worker \ {w} : job'[v] = job[v]
  BY <1>1, StepTyped DEF Inv, TypeInv
<1>3. Steady /\ FreshCopies /\ present \subseteq present'
  BY <1>1, <1>2, SteadySame, JobFresh
<1>4. CopiesFaithful' /\ OneRowEach' /\ OrphansTainted' /\ InstalledIsPresent'
  BY <1>1, <1>3, CopiesKept, RowsKept, PresentKept DEF Honest, OrphansTainted
<1>5. UninstallKnown'
  BY <1>1 DEF Honest, UninstallKnown, Exists
<1>6. GoodIsPresent'
  BY <1>1, <1>2, <1>3 DEF Honest, GoodIsPresent
<1> QED
  BY <1>4, <1>5, <1>6 DEF Honest

\* What a job reports about the row of its copy is true of the name the row has now.
LEMMA ReportHonest ==
  ASSUME Inv, Honest, NEW w \in Worker, Report(w)
  PROVE  Honest'
<1>1. PICK d \in Dep : d = job[w].dep /\ d.id \in Id
  BY Busy DEF Inv, TypeInv, Report
<1>2. /\ Release(w) /\ job[w].stage \in {"good", "bad"}
      /\ UNCHANGED <<present, client, up, orphans, tainted>>
  BY DEF Report
<1>3. /\ \A v \in Worker \ {w} : job'[v] = job[v]
      /\ \/ job'[w] = Free /\ todo' = todo
         \/ \E e \in todo : todo' = todo \ {e} /\ job'[w] = [stage |-> "spawned", dep |-> e]
  BY <1>2, ReleaseEffect DEF Inv, TypeInv
<1>4. /\ todo' \subseteq todo
      /\ job'[w].stage = "free" \/ (job'[w].stage = "spawned" /\ job'[w].dep \in todo)
  <2>1. CASE job'[w] = Free /\ todo' = todo
    BY <2>1 DEF Free
  <2>2. CASE \E e \in todo : todo' = todo \ {e} /\ job'[w] = [stage |-> "spawned", dep |-> e]
    BY <2>2
  <2> QED
    BY <1>3, <2>1, <2>2
<1>5. FreshCopies
  BY <1>2, <1>3, <1>4, JobFresh
<1>6. /\ \A v \in Worker \ {w} : job[v].stage # "good"
      /\ \A c \in Client : client[c].stage # "uninstall"
  BY <1>2, OnlyHead DEF Inv, Commands, Removing
<1>7. /\ Steady
      /\ \A i \in Id : rows'[i].st = "installed" =>
           rows[i].st = "installed" \/ (job[w].stage = "good" /\ i = d.id /\ Exists(d.id))
  <2>1. CASE UNCHANGED rows
    BY <2>1, <1>2, SteadySame
  <2>2. CASE SetStatus(d.id, IF job[w].stage = "good" THEN "installed" ELSE "failed")
    <3>1. PICK s \in {"installed", "failed"} :
            SetStatus(d.id, s) /\ (s = "installed" => job[w].stage = "good")
      BY <2>2
    <3> QED
      BY <3>1, <1>1, <1>2, SteadyStatus DEF Inv, TypeInv
  <2> QED
    BY <1>1, <2>1, <2>2 DEF Report, Lose
<1>8. CopiesFaithful' /\ OneRowEach' /\ OrphansTainted'
  BY <1>2, <1>5, <1>7, CopiesKept, RowsKept DEF Honest, OrphansTainted
<1>9. UninstallKnown' /\ GoodIsPresent'
  BY <1>2, <1>3, <1>4, <1>6 DEF UninstallKnown, GoodIsPresent
<1>10. InstalledIsPresent'
  <2> SUFFICES ASSUME up', NEW i \in Id, rows'[i].st = "installed"
               PROVE  rows'[i].name \in present \/ rows'[i].name \in tainted
    BY <1>2 DEF InstalledIsPresent
  <2>1. rows'[i].name = rows[i].name
    BY <1>7 DEF Steady, Exists
  <2>2. CASE rows[i].st = "installed"
    BY <2>1, <2>2, <1>2 DEF Honest, InstalledIsPresent
  <2>3. CASE job[w].stage = "good" /\ i = d.id /\ Exists(d.id)
    <3>1. d.name \in present \/ d.name \in tainted
      BY <2>3, <1>1 DEF Honest, GoodIsPresent
    <3>2. rows[i].name = d.name \/ rows[i].name \in tainted
      <4>1. Held(d)
        BY <2>3, <1>1 DEF Held
      <4> QED
        BY <4>1, <2>3 DEF Honest, CopiesFaithful, Faithful
    <3> QED
      BY <2>1, <3>1, <3>2
  <2> QED
    BY <2>2, <2>3, <1>7
<1> QED
  BY <1>8, <1>9, <1>10 DEF Honest

\* After a start no row says "installed" until its job is done.
LEMMA StartHonest ==
  ASSUME Inv, Honest, Crash \/ Restart
  PROVE  Honest'
<1>1. CASE Crash
  <2>1. \A w \in Worker : job'[w].stage = "free"
    BY <1>1 DEF Crash, Free
  <2>2. \A c \in Client : client'[c].stage = "idle" /\ client'[c].deps = {}
    BY <1>1 DEF Crash, Idle
  <2>3. todo' = {} /\ orphans' = {} /\ up' = FALSE /\ UNCHANGED <<rows, tainted>>
    BY <1>1 DEF Crash
  <2> QED
    BY <2>1, <2>2, <2>3 DEF Honest, CopiesFaithful, Held, OneRowEach, Exists, UninstallKnown,
       OrphansTainted, GoodIsPresent, InstalledIsPresent
<1>2. CASE Restart
  <2> DEFINE again == {i \in Id : Exists(i) /\ rows[i].st # "removed"}
             deps == {Copy(i) : i \in again}
  <2>1. /\ rows' = [i \in Id |-> IF i \in again THEN [rows[i] EXCEPT !.st = "installing"]
                                 ELSE rows[i]]
        /\ ~up /\ UNCHANGED <<client, orphans, tainted>>
    BY <1>2 DEF Restart
  <2>2. /\ \A i \in Id : rows'[i].name = rows[i].name /\ (Exists(i)' <=> Exists(i))
        /\ \A i \in Id : rows'[i].st = "unborn" <=> rows[i].st = "unborn"
        /\ \A i \in Id : rows'[i].st # "installed"
    BY <2>1 DEF Inv, TypeInv, RowsOK, RowOK, Row, Exists
  <2>3. /\ \A w \in Worker : job[w].stage = "free"
        /\ \A c \in Client : client[c].stage = "idle" /\ client[c].deps = {}
        /\ todo = {} /\ orphans = {}
    BY <2>1 DEF Inv, Down, Free, Idle
  <2>4. /\ todo' \subseteq deps
        /\ \A w \in Worker : \/ job'[w].stage = "free"
                             \/ job'[w].stage = "spawned" /\ job'[w].dep \in deps
    <3>1. CASE deps = {}
      BY <3>1, <1>2, <2>3 DEF Restart
    <3>2. CASE deps # {}
      <4>1. PICK d \in deps : /\ todo' = deps \ {d}
                              /\ job' = [job EXCEPT ![Boot] = [stage |-> "spawned", dep |-> d]]
        BY <1>2, <3>2 DEF Restart
      <4>2. Boot \in Worker /\ job'[Boot].stage = "spawned" /\ job'[Boot].dep = d
            /\ \A v \in Worker \ {Boot} : job'[v] = job[v]
        BY <4>1 DEF Inv, TypeInv, JobsOK, Worker
      <4> QED
        BY <2>3, <4>1, <4>2
    <3> QED
      BY <3>1, <3>2
  <2>5. Steady
    BY <2>1, <2>2 DEF Steady
  <2>6. FreshCopies
    <3>1. \A d \in deps : \E i \in Id : Exists(i) /\ d = Copy(i)
      OBVIOUS
    <3> HIDE DEF deps
    <3> QED
      BY <2>1, <2>3, <2>4, <3>1 DEF FreshCopies, Held
  <2>7. CopiesFaithful' /\ OneRowEach'
    BY <2>5, <2>6, CopiesKept, RowsKept DEF Honest
  <2>8. UninstallKnown' /\ OrphansTainted' /\ GoodIsPresent' /\ InstalledIsPresent'
    BY <2>1, <2>2, <2>3, <2>4 DEF UninstallKnown, OrphansTainted, GoodIsPresent, InstalledIsPresent
  <2> QED
    BY <2>7, <2>8 DEF Honest
<1> QED
  BY <1>1, <1>2

LEMMA HonestInit == Init => Honest
<1> SUFFICES ASSUME Init PROVE Honest
  OBVIOUS
<1>1. \A w \in Worker : job[w].stage = "free"
  BY DEF Init, Free
<1>2. \A c \in Client : client[c].stage = "idle" /\ client[c].deps = {}
  BY DEF Init, Idle
<1>3. \A i \in Id : rows[i].st = "unborn"
  BY DEF Init
<1> QED
  BY <1>1, <1>2, <1>3 DEF Init, Honest, CopiesFaithful, Held, OneRowEach, Exists, UninstallKnown,
     OrphansTainted, GoodIsPresent, InstalledIsPresent

LEMMA HonestNext == Inv /\ Honest /\ [Next]_vars => Honest'
<1> SUFFICES ASSUME Inv, Honest, [Next]_vars PROVE Honest'
  OBVIOUS
<1>1. CASE UNCHANGED vars
  <2>1. Steady /\ FreshCopies
    BY <1>1, SteadySame DEF vars, FreshCopies, Held
  <2> QED
    BY <1>1, <2>1, SteadySame, HonestKept DEF vars
<1>2. ASSUME NEW c \in Client, Serve(c) PROVE Honest'
  BY <1>2, InsertHonest, FetchHonest, EndsHonest, SpawnHonest, MoveHonest, UninstallHonest,
     UninstalledHonest, EraseHonest DEF Serve
<1>3. ASSUME NEW c \in Client, Request(c) \/ Leave(c) PROVE Honest'
  BY <1>3, RequestHonest, EndsHonest
<1>4. ASSUME NEW w \in Worker, Work(w) PROVE Honest'
  BY <1>4, StepHonest, ReportHonest DEF Work
<1>5. ASSUME NEW n \in Package, OrphanEnds(n) PROVE Honest'
  <2>1. /\ UNCHANGED <<rows, job, todo, client, up, tainted>>
        /\ orphans' \subseteq orphans /\ \A m : m \in present => m \in present' \/ m \in tainted'
    BY <1>5 DEF OrphanEnds, bootVars, Honest, OrphansTainted
  <2>2. Steady /\ FreshCopies
    BY <2>1, SteadySame DEF FreshCopies, Held
  <2> QED
    BY <2>1, <2>2, SteadySame, HonestKept
<1> QED
  BY <1>1, <1>2, <1>3, <1>4, <1>5, RenameHonest, StartHonest DEF Next

\* A row says "installed" only if its package is there or its name is tainted: the copies
\* are faithful, rows share no name, and while one package is uninstalled no other job
\* is between its command and its report.
THEOREM InstalledIsPresentHolds == Spec => []InstalledIsPresent
<1>1. Honest => InstalledIsPresent
  BY DEF Honest
<1> QED
  BY <1>1, HonestInit, HonestNext, InvHolds, PTL DEF Spec
=============================================================================
