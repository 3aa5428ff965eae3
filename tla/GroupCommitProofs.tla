------------------------- MODULE GroupCommitProofs -------------------------
(***************************************************************************)
(* Theorems about GroupCommit, for any number of callers and any batch.    *)
(***************************************************************************)
EXTENDS GroupCommit, SequenceTheorems, TLAPS

----------------------------------------------------------------------------
(* Parts of a queue *)

Distinct(q) == \A i, j \in DOMAIN q : q[i] = q[j] => i = j

LEMMA MembersOf ==
    ASSUME NEW q \in Seq(Requests)
    PROVE  /\ Len(q) \in Nat /\ DOMAIN q = 1..Len(q)
           /\ \A r : r \in Members(q) <=> \E i \in 1..Len(q) : r = q[i]
           /\ Members(q) \subseteq Requests
           /\ q = <<>> <=> Members(q) = {}
<1>1. Len(q) \in Nat /\ DOMAIN q = 1..Len(q)
  BY LenProperties
<1>2. \A r : r \in Members(q) <=> \E i \in 1..Len(q) : r = q[i]
  BY <1>1 DEF Members
<1>3. Members(q) \subseteq Requests
  BY <1>1, <1>2, ElementOfSeq
<1>4. q = <<>> <=> Members(q) = {}
  <2>1. q = <<>> <=> Len(q) = 0
    BY EmptySeq
  <2>2. Len(q) # 0 => q[1] \in Members(q)
    BY <1>1, <1>2
  <2>3. Len(q) = 0 => Members(q) = {}
    BY <1>2
  <2> QED
    BY <2>1, <2>2, <2>3
<1> QED
  BY <1>1, <1>2, <1>3, <1>4

LEMMA EmptyIs == <<>> \in Seq(Requests) /\ Members(<<>>) = {} /\ Distinct(<<>>) /\ Len(<<>>) = 0
  BY EmptySeq DEF Members, Distinct

\* What is drained and what stays make up the queue, with nothing in both.
LEMMA Parts ==
    ASSUME NEW q \in Seq(Requests), NEW n \in Nat
    PROVE  /\ FirstOf(q, n) \in Seq(Requests) /\ RestOf(q, n) \in Seq(Requests)
           /\ Len(FirstOf(q, n)) <= n
           /\ Members(FirstOf(q, n)) \cup Members(RestOf(q, n)) = Members(q)
           /\ Distinct(q) => /\ Distinct(FirstOf(q, n)) /\ Distinct(RestOf(q, n))
                             /\ Members(FirstOf(q, n)) \cap Members(RestOf(q, n)) = {}
<1> DEFINE k == Smaller(n, Len(q))
           f == FirstOf(q, n)
           r == RestOf(q, n)
<1>1. /\ Len(q) \in Nat /\ DOMAIN q = 1..Len(q) /\ k \in Nat /\ k <= Len(q) /\ k <= n
      /\ \A i \in 1..Len(q) : q[i] \in Requests
  BY LenProperties, ElementOfSeq DEF Smaller
<1> HIDE DEF k
<1>2. /\ f \in Seq(Requests) /\ Len(f) = k /\ \A i \in 1..k : f[i] = q[i]
  <2>1. \A i \in 1..k : q[i] \in Requests
    BY <1>1
  <2>2. /\ SubSeq(q, 1, k) \in Seq(Requests)
        /\ Len(SubSeq(q, 1, k)) = IF 1 <= k THEN k - 1 + 1 ELSE 0
        /\ \A i \in 1..(k - 1 + 1) : SubSeq(q, 1, k)[i] = q[1 + i - 1]
    BY <1>1, <2>1, SubSeqProperties
  <2>3. f = SubSeq(q, 1, k)
    BY DEF FirstOf, k
  <2> HIDE DEF f
  <2> QED
    BY <1>1, <2>2, <2>3
<1>3. /\ r \in Seq(Requests) /\ Len(r) = Len(q) - k /\ \A i \in 1..(Len(q) - k) : r[i] = q[k + i]
  <2>1. \A i \in (k + 1)..Len(q) : q[i] \in Requests
    BY <1>1
  <2>2. /\ SubSeq(q, k + 1, Len(q)) \in Seq(Requests)
        /\ Len(SubSeq(q, k + 1, Len(q))) = IF k + 1 <= Len(q) THEN Len(q) - (k + 1) + 1 ELSE 0
        /\ \A i \in 1..(Len(q) - (k + 1) + 1) : SubSeq(q, k + 1, Len(q))[i] = q[(k + 1) + i - 1]
    BY <1>1, <2>1, SubSeqProperties
  <2>3. r = SubSeq(q, k + 1, Len(q))
    BY DEF RestOf, k
  <2>4. /\ Len(q) - (k + 1) + 1 = Len(q) - k
        /\ \A i \in 1..(Len(q) - k) : (k + 1) + i - 1 = k + i
        /\ ~(k + 1 <= Len(q)) => Len(q) - k = 0
    <3> HIDE DEF r
    <3>0. k \in Int /\ Len(q) \in Int /\ k <= Len(q)
      BY <1>1
    <3>1. Len(q) - (k + 1) + 1 = Len(q) - k
      BY <3>0
    <3>2. \A i \in Int : (k + 1) + i - 1 = k + i
      BY <3>0
    <3>3. ~(k + 1 <= Len(q)) => Len(q) - k = 0
      BY <3>0
    <3> QED
      BY <3>1, <3>2, <3>3
  <2> HIDE DEF r
  <2> QED
    BY <2>2, <2>3, <2>4
<1> HIDE DEF f, r
<1>4. DOMAIN f = 1..k /\ DOMAIN r = 1..(Len(q) - k)
  BY <1>2, <1>3, LenProperties
<1>5. Members(f) \cup Members(r) = Members(q)
  <2>1. ASSUME NEW x \in Members(q) PROVE x \in Members(f) \cup Members(r)
    <3>1. PICK i \in 1..Len(q) : x = q[i]
      BY <1>1 DEF Members
    <3>2. CASE i <= k
      <4>1. i \in DOMAIN f /\ x = f[i]
        BY <1>1, <1>2, <1>4, <3>1, <3>2
      <4> QED
        BY <4>1 DEF Members
    <3>3. CASE i > k
      <4>1. i - k \in 1..(Len(q) - k) /\ k + (i - k) = i
        BY <1>1, <3>1, <3>3
      <4>2. x = r[i - k]
        BY <1>3, <3>1, <4>1
      <4> QED
        BY <1>4, <4>1, <4>2 DEF Members
    <3> QED
      BY <1>1, <3>2, <3>3
  <2>2. ASSUME NEW x \in Members(f) PROVE x \in Members(q)
    BY <1>1, <1>2, <1>4 DEF Members
  <2>3. ASSUME NEW x \in Members(r) PROVE x \in Members(q)
    <3>1. PICK i \in 1..(Len(q) - k) : x = r[i]
      BY <1>4 DEF Members
    <3>2. k + i \in 1..Len(q) /\ x = q[k + i]
      BY <1>1, <1>3, <3>1
    <3> QED
      BY <1>1, <3>2 DEF Members
  <2> QED
    BY <2>1, <2>2, <2>3
<1>6. ASSUME Distinct(q) PROVE Distinct(f) /\ Distinct(r) /\ Members(f) \cap Members(r) = {}
  <2>0. \A i, j \in 1..Len(q) : q[i] = q[j] => i = j
    BY <1>1, <1>6 DEF Distinct
  <2>1. Distinct(f)
    BY <1>1, <1>2, <1>4, <2>0 DEF Distinct
  <2>2. Distinct(r)
    <3> SUFFICES ASSUME NEW i \in 1..(Len(q) - k), NEW j \in 1..(Len(q) - k), r[i] = r[j]
                 PROVE  i = j
      BY <1>4 DEF Distinct
    <3>1. k + i \in 1..Len(q) /\ k + j \in 1..Len(q) /\ q[k + i] = q[k + j]
      BY <1>1, <1>3
    <3>2. k + i = k + j
      BY <2>0, <3>1
    <3> QED
      BY <1>1, <3>2
  <2>3. ASSUME NEW x \in Members(f), x \in Members(r) PROVE FALSE
    <3>1. PICK i \in 1..k : x = q[i]
      BY <1>2, <1>4 DEF Members
    <3>2. PICK j \in 1..(Len(q) - k) : x = r[j]
      BY <1>4, <2>3 DEF Members
    <3>3. k + j \in 1..Len(q) /\ x = q[k + j] /\ i \in 1..Len(q)
      BY <1>1, <1>3, <3>1, <3>2
    <3>4. i = k + j
      BY <2>0, <3>1, <3>3
    <3> QED
      BY <1>1, <3>1, <3>2, <3>4
  <2> QED
    BY <2>1, <2>2, <2>3
<1>7. Len(f) <= n
  BY <1>1, <1>2
<1> QED
  BY <1>2, <1>3, <1>5, <1>6, <1>7 DEF f, r

LEMMA Queueing ==
    ASSUME NEW q \in Seq(Requests), NEW r \in Requests
    PROVE  /\ Append(q, r) \in Seq(Requests)
           /\ Members(Append(q, r)) = Members(q) \cup {r}
           /\ Distinct(q) /\ r \notin Members(q) => Distinct(Append(q, r))
<1> DEFINE a == Append(q, r)
           n == Len(q)
<1>1. /\ n \in Nat /\ DOMAIN q = 1..n /\ a \in Seq(Requests) /\ Len(a) = n + 1
      /\ \A i \in 1..n : a[i] = q[i] /\ a[n + 1] = r
  BY AppendProperties, LenProperties
<1>2. DOMAIN a = 1..(n + 1)
  BY <1>1, LenProperties
<1> HIDE DEF a, n
<1>3. a[n + 1] = r
  BY AppendProperties DEF a, n
<1>4. Members(a) = Members(q) \cup {r}
  <2>1. Members(a) = {a[i] : i \in 1..(n + 1)} /\ Members(q) = {q[i] : i \in 1..n}
    BY <1>1, <1>2 DEF Members
  <2>2. \A i \in 1..(n + 1) : i \in 1..n \/ i = n + 1
    BY <1>1
  <2>3. \A i \in 1..n : i \in 1..(n + 1)
    BY <1>1
  <2>4. n + 1 \in 1..(n + 1)
    BY <1>1
  <2> QED
    BY <1>1, <1>3, <2>1, <2>2, <2>3, <2>4
<1>5. ASSUME Distinct(q), r \notin Members(q) PROVE Distinct(a)
  <2>1. \A i \in 1..n : q[i] # r
    BY <1>1, <1>5 DEF Members
  <2>2. \A i, j \in 1..n : q[i] = q[j] => i = j
    BY <1>1, <1>5 DEF Distinct
  <2> QED
    BY <1>1, <1>2, <1>3, <2>1, <2>2 DEF Distinct
<1> QED
  BY <1>1, <1>4, <1>5 DEF a

LEMMA Taking ==
    ASSUME NEW q \in Seq(Requests), q # <<>>
    PROVE  /\ Head(q) \in Members(q) /\ Tail(q) \in Seq(Requests)
           /\ Members(q) = Members(Tail(q)) \cup {Head(q)}
           /\ Distinct(q) => Distinct(Tail(q)) /\ Head(q) \notin Members(Tail(q))
<1> DEFINE t == Tail(q)
           n == Len(q)
<1>1. /\ n \in Nat /\ n # 0 /\ DOMAIN q = 1..n /\ t \in Seq(Requests) /\ Len(t) = n - 1
      /\ \A i \in 1..Len(t) : t[i] = q[i + 1]
  BY HeadTailProperties, LenProperties, EmptySeq
<1>2. Head(q) = q[1]
  BY <1>1
<1>3. DOMAIN t = 1..(n - 1)
  BY <1>1, LenProperties
<1> HIDE DEF t, n
<1>4. Members(q) = Members(t) \cup {q[1]}
  <2>1. Members(t) = {t[i] : i \in 1..(n - 1)} /\ Members(q) = {q[i] : i \in 1..n}
    BY <1>1, <1>3 DEF Members
  <2>2. ASSUME NEW x \in Members(q) PROVE x \in Members(t) \cup {q[1]}
    <3>1. PICK i \in 1..n : x = q[i]
      BY <2>1, <2>2
    <3>2. i # 1 => i - 1 \in 1..(n - 1) /\ (i - 1) + 1 = i
      BY <1>1, <3>1
    <3> QED
      BY <1>1, <2>1, <3>1, <3>2
  <2>3. \A i \in 1..(n - 1) : i + 1 \in 1..n
    BY <1>1
  <2>4. 1 \in 1..n
    BY <1>1
  <2> QED
    BY <1>1, <2>1, <2>2, <2>3, <2>4
<1>5. ASSUME Distinct(q) PROVE Distinct(t) /\ q[1] \notin Members(t)
  <2>1. \A i, j \in 1..n : q[i] = q[j] => i = j
    BY <1>1, <1>5 DEF Distinct
  <2>2. \A i \in 1..(n - 1) : i + 1 \in 1..n /\ i + 1 # 1
    BY <1>1
  <2>3. \A i \in 1..(n - 1) : t[i] = q[i + 1]
    BY <1>1
  <2>4. q[1] \notin Members(t)
    BY <1>1, <1>3, <2>1, <2>2, <2>3 DEF Members
  <2>5. Distinct(t)
    <3> SUFFICES ASSUME NEW i \in 1..(n - 1), NEW j \in 1..(n - 1), t[i] = t[j]
                 PROVE  i = j
      BY <1>3 DEF Distinct
    <3>1. i + 1 = j + 1
      BY <2>1, <2>2, <2>3
    <3> QED
      BY <1>1, <3>1
  <2> QED
    BY <2>4, <2>5
<1> QED
  BY <1>1, <1>2, <1>4, <1>5 DEF t

LEMMA Joining ==
    ASSUME NEW p \in Seq(Requests), NEW q \in Seq(Requests)
    PROVE  /\ p \o q \in Seq(Requests) /\ Len(p \o q) = Len(p) + Len(q)
           /\ Members(p \o q) = Members(p) \cup Members(q)
<1> DEFINE c == p \o q
           m == Len(p)
           n == Len(q)
<1>1. /\ m \in Nat /\ n \in Nat /\ DOMAIN p = 1..m /\ DOMAIN q = 1..n
      /\ c \in Seq(Requests) /\ Len(c) = m + n
      /\ \A i \in 1..(m + n) : c[i] = IF i <= m THEN p[i] ELSE q[i - m]
  BY ConcatProperties, LenProperties
<1>2. DOMAIN c = 1..(m + n)
  BY <1>1, LenProperties
<1> HIDE DEF c, m, n
<1>3. ASSUME NEW x \in Members(c) PROVE x \in Members(p) \cup Members(q)
  <2>1. PICK i \in 1..(m + n) : x = c[i]
    BY <1>2 DEF Members
  <2>2. i <= m => i \in 1..m
    BY <1>1
  <2>3. ~(i <= m) => i - m \in 1..n
    BY <1>1
  <2> QED
    BY <1>1, <2>1, <2>2, <2>3 DEF Members
<1>4. ASSUME NEW x \in Members(p) PROVE x \in Members(c)
  <2>1. PICK i \in 1..m : x = p[i]
    BY <1>1 DEF Members
  <2>2. i \in 1..(m + n) /\ i <= m
    BY <1>1, <2>1
  <2> QED
    BY <1>1, <1>2, <2>1, <2>2 DEF Members
<1>5. ASSUME NEW x \in Members(q) PROVE x \in Members(c)
  <2>1. PICK i \in 1..n : x = q[i]
    BY <1>1 DEF Members
  <2>2. m + i \in 1..(m + n) /\ ~(m + i <= m) /\ (m + i) - m = i
    BY <1>1, <2>1
  <2>3. c[m + i] = q[i]
    BY <1>1, <2>2
  <2> QED
    BY <1>2, <2>1, <2>2, <2>3 DEF Members
<1> QED
  BY <1>1, <1>3, <1>4, <1>5 DEF c, m, n

----------------------------------------------------------------------------
(* The inductive invariant *)

GroupTypes ==
    /\ pc \in [Requests -> {"new", "waiting", "leader", "leading", "handing over", "waking",
                            "answered", "gone"}]
    /\ queue \in Seq(Requests)
    /\ lock \in Requests \cup {None}
    /\ inside \subseteq Requests
    /\ settled \in [Requests -> BOOLEAN]
    /\ outcome \in [Requests -> Results \cup {"none"}]
    /\ phase \in {"idle", "begin", "taking", "running", "ending", "ended"}
    /\ batch \in Seq(Requests)
    /\ todo \in Seq(Requests)
    /\ wrote \in BOOLEAN
    /\ failed \in BOOLEAN
    /\ memory \subseteq Requests
    /\ durable \subseteq Requests
    /\ unusable \in BOOLEAN

\* One thread at a time has the governor's lock: the leader while a unit runs, or
\* a caller that took it for itself, who does not lead.
Exclusive ==
    /\ phase # "idle" => lock \in Requests /\ pc[lock] = "leading"
    /\ \A r \in inside : lock = r /\ pc[r] \in {"new", "answered"}

\* What waits is in one place only.
Queued ==
    /\ Distinct(queue) /\ Distinct(todo)
    /\ Members(queue) \cap Members(batch) = {}
    /\ Members(todo) \subseteq Members(batch)
    /\ Len(batch) <= BATCH
    /\ phase \in {"idle", "begin", "ended"} => batch = <<>>
    /\ phase # "running" => todo = <<>>

\* Who waits, or is being run, has not been answered.
Unanswered ==
    \A r \in Requests : r \in Members(queue) \cup Members(batch) =>
        ~settled[r] /\ pc[r] \in {"waiting", "leader", "leading", "gone"}

\* A request whose work has not run has no outcome and wrote nothing.
Pending(r) == r \in Members(queue) \/ r \in Members(todo) \/ pc[r] = "new"

NothingYet ==
    \A r \in Requests : Pending(r) =>
        outcome[r] = "none" /\ r \notin memory /\ r \notin durable

\* Until the unit ends, the database has nothing of what it carries.
Uncommitted ==
    \A r \in Requests : r \in Members(batch) /\ r \notin Members(todo) =>
        /\ outcome[r] # "none"
        /\ r \notin durable
        /\ outcome[r] = "value" => r \in memory
        /\ outcome[r] \in {"refused", "storage error"} => r \notin memory

\* The view is the database, but for what the unit in hand wrote.
ViewIsDurable ==
    ~unusable =>
        /\ durable \subseteq memory
        /\ memory \ durable \subseteq Members(batch)
        /\ ~wrote => memory = durable

\* An unreadable view is open to no unit.
UnitUsable == phase \in {"taking", "running", "ending"} => ~unusable

Told(r) ==
    /\ outcome[r] = "value" => r \in durable
    /\ outcome[r] \in {"refused", "storage error"} => r \notin durable
    /\ outcome[r] # "none"

SettledTold ==
    \A r \in Requests :
        /\ settled[r] \/ pc[r] = "answered" => Told(r)
        /\ pc[r] \in {"handing over", "waking"} => settled[r]
        /\ pc[r] = "new" => ~settled[r]

GroupInv ==
    /\ GroupTypes /\ Exclusive /\ Queued /\ Unanswered /\ NothingYet /\ Uncommitted /\ ViewIsDurable
    /\ UnitUsable /\ SettledTold

----------------------------------------------------------------------------
(* A caller's own steps *)

\* _submit queues one request and leaves the unit, the ledger and the outcomes
\* alone.
LEMMA SubmitStep ==
    ASSUME GroupInv, NEW r \in Requests, Submit(r)
    PROVE  GroupInv'
<1>1. GroupTypes'
  BY Queueing DEF GroupInv, GroupTypes, Submit, unit, ledger, section
<1>2. r \notin Members(queue) /\ r \notin Members(batch) /\ ~settled[r]
  BY DEF GroupInv, GroupTypes, Submit, Unanswered, SettledTold
<1>3. /\ Members(queue)' = Members(queue) \cup {r} /\ Distinct(queue)'
  BY <1>2, Queueing DEF GroupInv, GroupTypes, Submit, Queued
<1>4. Exclusive'
  BY DEF GroupInv, GroupTypes, Submit, Owned, Exclusive, unit, section
<1>5. Queued' /\ Unanswered'
  <2>1. Queued'
    <3>1. UNCHANGED <<phase, batch, todo>>
      BY DEF Submit, unit
    <3>2. Members(batch)' = Members(batch) /\ Members(todo)' = Members(todo) /\ Distinct(todo)' = Distinct(todo)
      BY <3>1 DEF Members, Distinct
    <3> QED
      BY <1>2, <1>3, <3>1, <3>2 DEF GroupInv, Queued
  <2>2. Unanswered'
    BY <1>2, <1>3 DEF GroupInv, GroupTypes, Submit, Unanswered, Queued, unit
  <2> QED
    BY <2>1, <2>2
<1>6. NothingYet'
  BY <1>3 DEF GroupInv, GroupTypes, Submit, NothingYet, Pending, unit, ledger
<1>7. Uncommitted' /\ ViewIsDurable' /\ UnitUsable'
  BY DEF GroupInv, Submit, Uncommitted, ViewIsDurable, UnitUsable, unit, ledger
<1>8. SettledTold'
  BY DEF GroupInv, GroupTypes, Submit, SettledTold, Told, ledger
<1> QED
  BY <1>1, <1>4, <1>5, <1>6, <1>7, <1>8 DEF GroupInv

LEMMA WokenStep ==
    ASSUME GroupInv, NEW r \in Requests, Woken(r) \/ Interrupted(r)
    PROVE  GroupInv'
<1>1. GroupTypes'
  BY DEF GroupInv, GroupTypes, Woken, Interrupted, unit, ledger, section
<1>2. Exclusive'
  BY DEF GroupInv, GroupTypes, Woken, Interrupted, Exclusive, unit, section
<1>3. Queued' /\ Unanswered'
  <2>1. Queued'
    BY DEF GroupInv, GroupTypes, Woken, Interrupted, Queued, unit
  <2>2. Unanswered'
    BY DEF GroupInv, GroupTypes, Woken, Interrupted, Unanswered, Queued, unit
  <2> QED
    BY <2>1, <2>2
<1>4. NothingYet'
  BY DEF GroupInv, GroupTypes, Woken, Interrupted, NothingYet, Pending, unit, ledger
<1>5. Uncommitted' /\ ViewIsDurable' /\ UnitUsable'
  <2>1. UNCHANGED <<outcome, phase, batch, todo, wrote, memory, durable, unusable>>
    BY DEF Woken, Interrupted, unit, ledger
  <2> QED
    BY <2>1 DEF GroupInv, Uncommitted, ViewIsDurable, UnitUsable, Members
<1>6. SettledTold'
  BY ZenonT(40) DEF GroupInv, GroupTypes, Woken, Interrupted, SettledTold, Told, ledger
<1> QED
  BY <1>1, <1>2, <1>3, <1>4, <1>5, <1>6 DEF GroupInv

LEMMA TakeLockStep ==
    ASSUME GroupInv, NEW r \in Requests, TakeLock(r)
    PROVE  GroupInv'
<1> USE GroupAssumption
<1>1. GroupTypes'
  BY DEF GroupInv, GroupTypes, TakeLock, ledger, section
<1>2. Exclusive'
  BY DEF GroupInv, GroupTypes, TakeLock, Exclusive, section
<1>3. Queued' /\ Unanswered'
  <2>1. Queued'
    BY DEF GroupInv, GroupTypes, TakeLock, Queued, Exclusive
  <2>2. Unanswered'
    BY DEF GroupInv, GroupTypes, TakeLock, Unanswered, Queued, Exclusive
  <2> QED
    BY <2>1, <2>2
<1>4. NothingYet'
  BY DEF GroupInv, GroupTypes, TakeLock, NothingYet, Pending, ledger
<1>5. Uncommitted' /\ ViewIsDurable' /\ UnitUsable'
  BY DEF GroupInv, TakeLock, Uncommitted, ViewIsDurable, UnitUsable, ledger
<1>6. SettledTold'
  BY DEF GroupInv, GroupTypes, TakeLock, SettledTold, Told, ledger
<1> QED
  BY <1>1, <1>2, <1>3, <1>4, <1>5, <1>6 DEF GroupInv

LEMMA LeaveStep ==
    ASSUME GroupInv, NEW r \in Requests, LeadAgainOrLeave(r)
    PROVE  GroupInv'
<1> USE GroupAssumption
<1>0. pc[r] = "leading"
  BY DEF GroupInv, LeadAgainOrLeave, Exclusive
<1>1. GroupTypes'
  BY DEF GroupInv, GroupTypes, LeadAgainOrLeave, ledger, section
<1>2. Exclusive'
  BY <1>0 DEF GroupInv, GroupTypes, LeadAgainOrLeave, Exclusive, section
<1>3. Queued' /\ Unanswered'
  <2>1. Queued'
    BY DEF GroupInv, GroupTypes, LeadAgainOrLeave, Queued
  <2>2. Unanswered'
    BY DEF GroupInv, GroupTypes, LeadAgainOrLeave, Unanswered, Queued
  <2> QED
    BY <2>1, <2>2
<1>4. NothingYet'
  BY DEF GroupInv, GroupTypes, LeadAgainOrLeave, NothingYet, Pending, ledger
<1>5. Uncommitted' /\ ViewIsDurable' /\ UnitUsable'
  BY DEF GroupInv, LeadAgainOrLeave, Uncommitted, ViewIsDurable, UnitUsable, ledger
<1>6. SettledTold'
  BY DEF GroupInv, GroupTypes, LeadAgainOrLeave, SettledTold, Told, ledger
<1> QED
  BY <1>1, <1>2, <1>3, <1>4, <1>5, <1>6 DEF GroupInv

LEMMA HandOverStep ==
    ASSUME GroupInv, NEW r \in Requests, HandOver(r) \/ WakeSuccessor(r)
    PROVE  GroupInv'
<1>0. /\ settled[r] /\ pc[r] \in {"handing over", "waking"}
      /\ \/ pc' = [pc EXCEPT ![r] = "answered"]
         \/ pc' = [pc EXCEPT ![r] = "waking"]
      /\ UNCHANGED <<queue, lock, inside, settled, outcome, unit, ledger>>
  BY DEF GroupInv, SettledTold, HandOver, WakeSuccessor, section
<1>1. GroupTypes'
  BY <1>0 DEF GroupInv, GroupTypes, unit, ledger
<1>2. Exclusive'
  BY <1>0 DEF GroupInv, GroupTypes, Exclusive, unit
<1>3. Queued' /\ Unanswered'
  <2>1. Queued'
    BY <1>0 DEF GroupInv, GroupTypes, Queued, unit
  <2>2. Unanswered'
    BY <1>0 DEF GroupInv, GroupTypes, Unanswered, Queued, unit
  <2> QED
    BY <2>1, <2>2
<1>4. NothingYet'
  BY <1>0 DEF GroupInv, GroupTypes, NothingYet, Pending, unit, ledger
<1>5. Uncommitted' /\ ViewIsDurable' /\ UnitUsable'
  BY <1>0 DEF GroupInv, Uncommitted, ViewIsDurable, UnitUsable, unit, ledger
<1>6. SettledTold'
  BY <1>0 DEF GroupInv, GroupTypes, SettledTold, Told, ledger
<1> QED
  BY <1>1, <1>2, <1>3, <1>4, <1>5, <1>6 DEF GroupInv

LEMMA HoldLockStep ==
    ASSUME GroupInv, NEW r \in Requests, HoldLock(r)
    PROVE  GroupInv'
<1> USE GroupAssumption
<1>1. GroupTypes'
  BY DEF GroupInv, GroupTypes, HoldLock, unit, ledger, section
<1>2. Exclusive'
  BY DEF GroupInv, GroupTypes, HoldLock, Exclusive, unit, section
<1>3. Queued' /\ Unanswered'
  <2>1. Queued'
    BY DEF GroupInv, GroupTypes, HoldLock, Queued, unit
  <2>2. Unanswered'
    BY DEF GroupInv, GroupTypes, HoldLock, Unanswered, Queued, unit
  <2> QED
    BY <2>1, <2>2
<1>4. NothingYet'
  BY DEF GroupInv, GroupTypes, HoldLock, NothingYet, Pending, unit, ledger
<1>5. Uncommitted' /\ ViewIsDurable' /\ UnitUsable'
  BY DEF GroupInv, HoldLock, Uncommitted, ViewIsDurable, UnitUsable, unit, ledger
<1>6. SettledTold'
  BY DEF GroupInv, GroupTypes, HoldLock, SettledTold, Told, ledger
<1> QED
  BY <1>1, <1>2, <1>3, <1>4, <1>5, <1>6 DEF GroupInv

\* Nobody leads while a caller runs alone, so the view is the database and
\* stays so.
LEMMA RunAloneStep ==
    ASSUME GroupInv, NEW r \in Requests, NEW result \in Results, RunAlone(r, result)
    PROVE  GroupInv'
<1> USE GroupAssumption
<1>0. /\ phase = "idle" /\ batch = <<>> /\ lock = r
      /\ r \notin Members(queue) /\ r \notin Members(batch) /\ r \notin Members(todo)
      /\ outcome[r] = "none" /\ r \notin memory /\ r \notin durable
  BY DEF GroupInv, GroupTypes, RunAlone, Owned, Exclusive, Queued, Unanswered, NothingYet, Pending
<1>1. GroupTypes'
  BY DEF GroupInv, GroupTypes, RunAlone, unit, section
<1>2. Exclusive'
  BY <1>0 DEF GroupInv, GroupTypes, RunAlone, Exclusive, unit, section
<1>3. Queued' /\ Unanswered'
  <2>1. Queued'
    BY <1>0 DEF GroupInv, GroupTypes, RunAlone, Queued, unit
  <2>2. Unanswered'
    BY <1>0 DEF GroupInv, GroupTypes, RunAlone, Unanswered, Queued, unit
  <2> QED
    BY <2>1, <2>2
<1>4. NothingYet'
  BY <1>0, ZenonT(40) DEF GroupInv, GroupTypes, RunAlone, NothingYet, Pending, unit
<1>5. Uncommitted' /\ ViewIsDurable' /\ UnitUsable'
  BY <1>0, EmptyIs DEF GroupInv, RunAlone, Uncommitted, ViewIsDurable, UnitUsable, unit
<1>6. SettledTold'
  <2> SUFFICES ASSUME NEW t \in Requests
               PROVE  /\ settled'[t] \/ pc'[t] = "answered" => Told(t)'
                      /\ pc'[t] \in {"handing over", "waking"} => settled'[t]
                      /\ pc'[t] = "new" => ~settled'[t]
    BY DEF SettledTold
  <2>1. /\ pc \in [Requests -> {"new", "waiting", "leader", "leading", "handing over", "waking",
                                "answered", "gone"}]
        /\ outcome \in [Requests -> Results \cup {"none"}]
        /\ outcome' = [outcome EXCEPT ![r] = result] /\ settled' = settled
        /\ pc' = [pc EXCEPT ![r] = "answered"]
    BY DEF GroupInv, GroupTypes, RunAlone
  <2>2. CASE t = r
    <3>1. Told(r)'
      BY <1>0, <2>1 DEF RunAlone, Told, Results
    <3> QED
      BY <2>1, <2>2, <3>1
  <2>3. CASE t # r
    <3>1. pc'[t] = pc[t] /\ outcome'[t] = outcome[t] /\ (t \in durable' <=> t \in durable)
      BY <2>1, <2>3 DEF RunAlone
    <3> QED
      BY <2>1, <3>1 DEF GroupInv, SettledTold, Told
  <2> QED
    BY <2>2, <2>3
<1> QED
  BY <1>1, <1>2, <1>3, <1>4, <1>5, <1>6 DEF GroupInv

LEMMA UnlockStep ==
    ASSUME GroupInv, NEW r \in Requests, Unlock(r)
    PROVE  GroupInv'
<1> USE GroupAssumption
<1>0. /\ UNCHANGED <<pc, queue, settled, outcome, phase, batch, todo, wrote, failed, memory,
                     durable, unusable>>
      /\ r \in inside /\ lock = r /\ pc[r] = "answered" /\ lock' = None /\ inside' = inside \ {r}
  BY DEF GroupInv, Exclusive, Unlock, unit, ledger
<1>1. GroupTypes'
  BY <1>0 DEF GroupInv, GroupTypes
<1>2. Exclusive'
  BY <1>0 DEF GroupInv, Exclusive
<1>3. Queued' /\ Unanswered'
  <2>1. /\ Members(queue)' = Members(queue) /\ Members(batch)' = Members(batch)
        /\ Members(todo)' = Members(todo)
        /\ Distinct(queue)' = Distinct(queue) /\ Distinct(todo)' = Distinct(todo)
    BY <1>0 DEF Members, Distinct
  <2> QED
    BY <1>0, <2>1 DEF GroupInv, Queued, Unanswered
<1>4. NothingYet' /\ Uncommitted' /\ SettledTold'
  BY <1>0 DEF GroupInv, NothingYet, Pending, Uncommitted, SettledTold, Told, Members
<1>5. ViewIsDurable' /\ UnitUsable'
  BY <1>0 DEF GroupInv, ViewIsDurable, UnitUsable, Members
<1> QED
  BY <1>1, <1>2, <1>3, <1>4, <1>5 DEF GroupInv

----------------------------------------------------------------------------
(* The unit of work *)

LEMMA BeginStep ==
    ASSUME GroupInv, BeginUnit
    PROVE  GroupInv'
<1>0. UNCHANGED <<pc, queue, lock, inside, settled, outcome, batch, todo, wrote, failed, memory,
                durable, unusable>>
  BY DEF BeginUnit, caller, section, ledger
<1>1. GroupTypes'
  BY <1>0 DEF GroupInv, GroupTypes, BeginUnit
<1>2. Exclusive'
  BY <1>0 DEF GroupInv, Exclusive, BeginUnit
<1>3. Queued' /\ Unanswered'
  BY <1>0 DEF GroupInv, Queued, Unanswered, BeginUnit, Members, Distinct
<1>4. NothingYet' /\ Uncommitted' /\ SettledTold'
  BY <1>0 DEF GroupInv, NothingYet, Pending, Uncommitted, SettledTold, Told, Members
<1>5. ViewIsDurable' /\ UnitUsable'
  BY <1>0 DEF GroupInv, ViewIsDurable, UnitUsable, Members, BeginUnit
<1> QED
  BY <1>1, <1>2, <1>3, <1>4, <1>5 DEF GroupInv

\* What a unit that did not begin failed: nothing of it was run.
LEMMA BeginFailsStep ==
    ASSUME GroupInv, BeginFails
    PROVE  GroupInv'
<1> DEFINE F == Members(FirstOf(queue, BATCH))
           R == Members(RestOf(queue, BATCH))
<1>0. /\ UNCHANGED <<pc, lock, inside, memory, durable, unusable>>
      /\ settled' = [r \in Requests |-> settled[r] \/ r \in F]
      /\ outcome' = [r \in Requests |-> IF r \in F /\ outcome[r] \in {"none", "value"}
                                        THEN "storage error" ELSE outcome[r]]
      /\ queue' = RestOf(queue, BATCH)
      /\ phase = "begin" /\ phase' = "ended" /\ batch' = <<>> /\ todo' = <<>>
      /\ wrote' = FALSE /\ failed' = FALSE
  BY DEF BeginFails, SettleAll, FailAll, ledger, section
<1>1. /\ queue' \in Seq(Requests) /\ F \cup R = Members(queue) /\ F \cap R = {}
      /\ Members(queue)' = R /\ Distinct(queue)' /\ Distinct(RestOf(queue, BATCH))
      /\ batch = <<>> /\ todo = <<>>
  BY <1>0, Parts, GroupAssumption DEF GroupInv, GroupTypes, Queued
<1>2. /\ Members(batch)' = {} /\ Members(todo)' = {} /\ Distinct(todo)' /\ batch' \in Seq(Requests)
      /\ todo' \in Seq(Requests) /\ Len(batch') = 0 /\ Members(batch) = {} /\ Members(todo) = {}
  BY <1>0, <1>1, EmptyIs
<1> HIDE DEF F, R
<1>3. GroupTypes'
  <2>1. /\ settled' \in [Requests -> BOOLEAN]
        /\ outcome' \in [Requests -> Results \cup {"none"}]
    BY <1>0 DEF GroupInv, GroupTypes, Results
  <2> QED
    BY <1>0, <1>1, <1>2, <2>1 DEF GroupInv, GroupTypes
<1>4. Exclusive'
  BY <1>0 DEF GroupInv, Exclusive
<1>5. Queued'
  BY <1>0, <1>1, <1>2, GroupAssumption DEF GroupInv, Queued
<1>6. Unanswered'
  BY <1>0, <1>1, <1>2 DEF GroupInv, Unanswered
<1>7. NothingYet'
  <2>1. ASSUME NEW r \in Requests, Pending(r)' PROVE Pending(r) /\ r \notin F
    BY <1>0, <1>1, <1>2, <2>1 DEF GroupInv, Pending, Unanswered
  <2> QED
    BY <1>0, <2>1 DEF GroupInv, NothingYet
<1>8. Uncommitted' /\ UnitUsable'
  BY <1>0, <1>2 DEF Uncommitted, UnitUsable
<1>9. ViewIsDurable'
  BY <1>0, <1>2 DEF GroupInv, ViewIsDurable
<1>10. SettledTold'
  <2> SUFFICES ASSUME NEW t \in Requests
               PROVE  /\ settled'[t] \/ pc'[t] = "answered" => Told(t)'
                      /\ pc'[t] \in {"handing over", "waking"} => settled'[t]
                      /\ pc'[t] = "new" => ~settled'[t]
    BY DEF SettledTold
  <2>1. CASE t \in F
    <3>1. /\ outcome[t] = "none" /\ t \notin durable
          /\ pc[t] \in {"waiting", "leader", "leading", "gone"}
      BY <1>1, <2>1 DEF GroupInv, NothingYet, Pending, Unanswered
    <3> QED
      BY <1>0, <2>1, <3>1 DEF Told
  <2>2. CASE t \notin F
    BY <1>0, <2>2 DEF GroupInv, SettledTold, Told
  <2> QED
    BY <2>1, <2>2
<1> QED
  BY <1>3, <1>4, <1>5, <1>6, <1>7, <1>8, <1>9, <1>10 DEF GroupInv

LEMMA TakeStep ==
    ASSUME GroupInv, TakeQueued
    PROVE  GroupInv'
<1> DEFINE room == BATCH - Len(batch)
           taken == FirstOf(queue, room)
           rest == RestOf(queue, room)
<1>0. /\ UNCHANGED <<pc, lock, inside, settled, outcome, wrote, failed, memory, durable, unusable>>
      /\ phase = "taking" /\ todo = <<>> /\ Len(batch) \in Nat /\ Len(batch) <= BATCH
      /\ BATCH \in Nat /\ room \in Nat /\ Members(todo) = {}
  <2>1. batch \in Seq(Requests) /\ Len(batch) <= BATCH /\ (phase = "taking" => todo = <<>>)
    BY DEF GroupInv, GroupTypes, Queued
  <2>2. Len(batch) \in Nat /\ BATCH \in Nat
    BY <2>1, LenProperties, GroupAssumption
  <2>3. room \in Nat
    BY <2>1, <2>2
  <2>4. /\ phase = "taking"
        /\ UNCHANGED <<pc, lock, inside, settled, outcome, wrote, failed, memory, durable, unusable>>
    BY DEF TakeQueued, ledger, section
  <2> QED
    BY <2>1, <2>2, <2>3, <2>4, EmptyIs
<1>1. /\ taken \in Seq(Requests) /\ rest \in Seq(Requests) /\ Len(taken) <= room
      /\ Members(taken) \cup Members(rest) = Members(queue)
      /\ Distinct(taken) /\ Distinct(rest) /\ Members(taken) \cap Members(rest) = {}
  BY <1>0, Parts DEF GroupInv, GroupTypes, Queued
<1>2. CASE /\ taken = <<>> /\ phase' = "ending" /\ UNCHANGED <<batch, todo, queue>>
  <2>1. GroupTypes'
    BY <1>0, <1>2 DEF GroupInv, GroupTypes
  <2>2. Exclusive'
    BY <1>0, <1>2 DEF GroupInv, Exclusive
  <2>3. Queued' /\ Unanswered'
    BY <1>0, <1>2 DEF GroupInv, Queued, Unanswered, Members, Distinct
  <2>4. NothingYet' /\ Uncommitted' /\ SettledTold'
    BY <1>0, <1>2 DEF GroupInv, NothingYet, Pending, Uncommitted, SettledTold, Told, Members
  <2>5. ViewIsDurable' /\ UnitUsable'
    BY <1>0, <1>2 DEF GroupInv, ViewIsDurable, UnitUsable, Members
  <2> QED
    BY <2>1, <2>2, <2>3, <2>4, <2>5 DEF GroupInv
<1>3. CASE /\ taken # <<>> /\ batch' = batch \o taken /\ todo' = taken
           /\ queue' = rest /\ phase' = "running"
  <2>1. /\ batch' \in Seq(Requests) /\ Len(batch') = Len(batch) + Len(taken)
        /\ Members(batch)' = Members(batch) \cup Members(taken)
        /\ Members(todo)' = Members(taken) /\ Members(queue)' = Members(rest)
        /\ Distinct(todo)' /\ Distinct(queue)'
    BY <1>1, <1>3, Joining DEF GroupInv, GroupTypes
  <2>2. Len(batch') <= BATCH
    <3>1. Len(taken) \in Nat
      BY <1>1, LenProperties
    <3> QED
      BY <1>0, <1>1, <2>1, <3>1
  <2>3. Members(queue) \cap Members(batch) = {}
    BY DEF GroupInv, Queued
  <2> HIDE DEF room, taken, rest
  <2>4. GroupTypes'
    BY <1>0, <1>1, <1>3, <2>1 DEF GroupInv, GroupTypes
  <2>5. Exclusive'
    BY <1>0, <1>3 DEF GroupInv, Exclusive
  <2>6. Queued'
    BY <1>1, <1>3, <2>1, <2>2, <2>3 DEF Queued
  <2>7. Unanswered'
    BY <1>0, <1>1, <2>1 DEF GroupInv, Unanswered
  <2>8. NothingYet'
    <3>1. \A r \in Requests : Pending(r)' => Pending(r)
      BY <1>0, <1>1, <2>1 DEF Pending
    <3> QED
      BY <1>0, <3>1 DEF GroupInv, NothingYet
  <2>9. Uncommitted'
    <3>1. \A r \in Requests : r \in Members(batch)' /\ r \notin Members(todo)'
                              => r \in Members(batch) /\ r \notin Members(todo)
      BY <1>0, <2>1
    <3> QED
      BY <1>0, <3>1 DEF GroupInv, Uncommitted
  <2>10. ViewIsDurable' /\ UnitUsable'
    BY <1>0, <1>3, <2>1 DEF GroupInv, ViewIsDurable, UnitUsable
  <2>11. SettledTold'
    BY <1>0 DEF GroupInv, SettledTold, Told
  <2> QED
    BY <2>4, <2>5, <2>6, <2>7, <2>8, <2>9, <2>10, <2>11 DEF GroupInv
<1> QED
  BY <1>2, <1>3 DEF TakeQueued

LEMMA RunStep ==
    ASSUME GroupInv, NEW result \in Results, RunNext(result)
    PROVE  GroupInv'
<1> DEFINE h == Head(todo)
           rest == Tail(todo)
<1>0. /\ UNCHANGED <<pc, queue, lock, inside, settled, batch, durable, unusable>>
      /\ phase = "running" /\ phase' \in {"taking", "running"} /\ (phase' # "running" => rest = <<>>)
      /\ outcome' = [outcome EXCEPT ![h] = result]
      /\ memory' = IF result \in {"value", "denied"} THEN memory \cup {h} ELSE memory
      /\ wrote' = (wrote \/ result # "refused") /\ failed' = (failed \/ result = "storage error")
      /\ todo' = rest /\ ~unusable
  BY DEF RunNext, caller, section, GroupInv, UnitUsable
<1>1. /\ h \in Members(todo) /\ rest \in Seq(Requests) /\ Members(todo) = Members(rest) \cup {h}
      /\ Distinct(rest) /\ h \notin Members(rest)
  BY Taking DEF RunNext, GroupInv, GroupTypes, Queued
<1>2. /\ Members(todo)' = Members(rest) /\ Distinct(todo)' /\ Members(batch)' = Members(batch)
      /\ Members(queue)' = Members(queue) /\ Distinct(queue)' = Distinct(queue)
  BY <1>0, <1>1 DEF Members, Distinct
<1>3. /\ h \in Requests /\ h \in Members(batch) /\ h \notin Members(queue)
      /\ outcome[h] = "none" /\ h \notin memory /\ h \notin durable
      /\ ~settled[h] /\ pc[h] \in {"waiting", "leader", "leading", "gone"}
  <2>1. h \in Requests
    BY <1>1, MembersOf DEF GroupInv, GroupTypes
  <2> QED
    BY <1>1, <2>1 DEF GroupInv, Queued, NothingYet, Pending, Unanswered
<1> HIDE DEF h, rest
<1>4. GroupTypes'
  <2>1. outcome' \in [Requests -> Results \cup {"none"}] /\ memory' \subseteq Requests
    BY <1>0, <1>3 DEF GroupInv, GroupTypes
  <2>2. wrote' \in BOOLEAN /\ failed' \in BOOLEAN
    BY <1>0 DEF GroupInv, GroupTypes
  <2> QED
    BY <1>0, <1>1, <2>1, <2>2 DEF GroupInv, GroupTypes
<1>5. Exclusive'
  BY <1>0 DEF GroupInv, Exclusive
<1>6. Queued'
  BY <1>0, <1>1, <1>2 DEF GroupInv, Queued
<1>7. Unanswered'
  BY <1>0, <1>2 DEF GroupInv, Unanswered
<1>8. outcome \in [Requests -> Results \cup {"none"}]
  BY DEF GroupInv, GroupTypes
<1>9. NothingYet'
  <2>1. ASSUME NEW r \in Requests, Pending(r)' PROVE Pending(r) /\ r # h
    BY <1>0, <1>1, <1>2, <1>3, <2>1 DEF Pending
  <2> QED
    BY <1>0, <1>8, <2>1 DEF GroupInv, NothingYet
<1>10. Uncommitted'
  <2> SUFFICES ASSUME NEW r \in Requests, r \in Members(batch), r \notin Members(rest)
               PROVE  /\ outcome'[r] # "none"
                      /\ r \notin durable'
                      /\ outcome'[r] = "value" => r \in memory'
                      /\ outcome'[r] \in {"refused", "storage error"} => r \notin memory'
    BY <1>2 DEF Uncommitted
  <2>1. CASE r = h
    BY <1>0, <1>3, <1>8, <2>1 DEF Results
  <2>2. CASE r # h
    BY <1>0, <1>1, <1>8, <2>2 DEF GroupInv, Uncommitted
  <2> QED
    BY <2>1, <2>2
<1>11. ViewIsDurable'
  <2>1. /\ durable \subseteq memory /\ memory \ durable \subseteq Members(batch)
        /\ ~wrote => memory = durable
    BY <1>0 DEF GroupInv, ViewIsDurable
  <2>2. wrote \in BOOLEAN
    BY DEF GroupInv, GroupTypes
  <2> QED
    BY <1>0, <1>2, <1>3, <2>1, <2>2 DEF ViewIsDurable
<1>12. UnitUsable'
  BY <1>0 DEF UnitUsable
<1>13. SettledTold'
  <2> SUFFICES ASSUME NEW t \in Requests
               PROVE  /\ settled[t] \/ pc[t] = "answered" => Told(t)'
                      /\ pc[t] \in {"handing over", "waking"} => settled[t]
                      /\ pc[t] = "new" => ~settled[t]
    BY <1>0 DEF SettledTold
  <2>1. settled[t] \/ pc[t] = "answered" => t # h
    BY <1>3
  <2> QED
    BY <1>0, <1>8, <2>1 DEF GroupInv, SettledTold, Told
<1> QED
  BY <1>4, <1>5, <1>6, <1>7, <1>9, <1>10, <1>11, <1>12, <1>13 DEF GroupInv

\* A unit ends: whatever it carried is settled and its figures start afresh.
LEMMA EndStep ==
    ASSUME GroupInv, SettleAll(batch), phase \in {"ending", "running"},
           UNCHANGED <<pc, queue, lock, inside>>,
           memory' \subseteq Requests, durable' \subseteq Requests, unusable' \in BOOLEAN,
           outcome' \in [Requests -> Results \cup {"none"}],
           \A r \in Requests : r \notin Members(batch) =>
              /\ outcome'[r] = outcome[r]
              /\ r \in durable' <=> r \in durable
              /\ r \in memory' => r \in memory,
           \A r \in Members(batch) : Told(r)',
           ~unusable' => memory' = durable'
    PROVE  GroupInv'
<1> DEFINE B == Members(batch)
<1>0. /\ settled' = [r \in Requests |-> settled[r] \/ r \in B]
      /\ phase' = "ended" /\ batch' = <<>> /\ todo' = <<>> /\ wrote' = FALSE /\ failed' = FALSE
  BY DEF SettleAll
<1>1. /\ Members(batch)' = {} /\ Members(todo)' = {} /\ Distinct(todo)' /\ batch' \in Seq(Requests)
      /\ todo' \in Seq(Requests) /\ Len(batch') = 0
      /\ Members(queue)' = Members(queue) /\ Distinct(queue)' = Distinct(queue)
  BY <1>0, EmptyIs DEF Members, Distinct
<1>2. /\ Members(queue) \cap B = {} /\ Members(todo) \subseteq B /\ B \subseteq Requests
      /\ \A r \in Requests : settled[r] \in BOOLEAN
  BY MembersOf DEF GroupInv, GroupTypes, Queued
<1> HIDE DEF B
<1>3. GroupTypes'
  BY <1>0, <1>1 DEF GroupInv, GroupTypes
<1>4. Exclusive'
  BY <1>0 DEF GroupInv, Exclusive
<1>5. Queued'
  BY <1>0, <1>1, GroupAssumption DEF GroupInv, Queued
<1>6. Unanswered'
  BY <1>0, <1>1, <1>2 DEF GroupInv, Unanswered
<1>7. NothingYet'
  <2>1. ASSUME NEW r \in Requests, Pending(r)' PROVE Pending(r) /\ r \notin B
    <3>1. r \in Members(queue) \/ pc[r] = "new"
      BY <1>1, <2>1 DEF Pending
    <3>2. pc[r] = "new" => r \notin B
      BY DEF GroupInv, Unanswered, B
    <3> QED
      BY <1>2, <3>1, <3>2 DEF Pending
  <2> QED
    BY <2>1 DEF GroupInv, NothingYet, B
<1>8. Uncommitted' /\ UnitUsable'
  BY <1>0, <1>1 DEF Uncommitted, UnitUsable
<1>9. ViewIsDurable'
  BY <1>1 DEF ViewIsDurable
<1>10. SettledTold'
  <2> SUFFICES ASSUME NEW t \in Requests
               PROVE  /\ settled'[t] \/ pc'[t] = "answered" => Told(t)'
                      /\ pc'[t] \in {"handing over", "waking"} => settled'[t]
                      /\ pc'[t] = "new" => ~settled'[t]
    BY DEF SettledTold
  <2>1. CASE t \in B
    <3>1. pc[t] \in {"waiting", "leader", "leading", "gone"}
      BY <2>1 DEF GroupInv, Unanswered, B
    <3> QED
      BY <1>0, <2>1, <3>1 DEF B
  <2>2. CASE t \notin B
    <3>1. outcome'[t] = outcome[t] /\ (t \in durable' <=> t \in durable) /\ settled'[t] = settled[t]
      BY <1>0, <1>2, <2>2 DEF B
    <3> QED
      BY <3>1 DEF GroupInv, SettledTold, Told
  <2> QED
    BY <2>1, <2>2
<1> QED
  BY <1>3, <1>4, <1>5, <1>6, <1>7, <1>8, <1>9, <1>10 DEF GroupInv

LEMMA CommitStep ==
    ASSUME GroupInv, CommitUnit
    PROVE  GroupInv'
<1> DEFINE B == Members(batch)
<1>0. /\ UNCHANGED <<pc, queue, lock, inside, outcome, memory, unusable>> /\ durable' = memory
      /\ SettleAll(batch) /\ phase = "ending" /\ ~unusable
      /\ Members(todo) = {} /\ B \subseteq Requests
  BY EmptyIs, MembersOf DEF CommitUnit, section, GroupInv, GroupTypes, Queued, UnitUsable
<1>1. durable \subseteq memory /\ memory \ durable \subseteq B
  BY <1>0 DEF GroupInv, ViewIsDurable
<1>2. \A r \in B : Told(r)'
  BY <1>0 DEF GroupInv, Uncommitted, Told
<1>3. \A r \in Requests : r \notin B => (r \in durable' <=> r \in durable)
  BY <1>0, <1>1
<1> HIDE DEF B
<1>4. memory' \subseteq Requests /\ durable' \subseteq Requests /\ unusable' \in BOOLEAN
      /\ outcome' \in [Requests -> Results \cup {"none"}]
  BY <1>0 DEF GroupInv, GroupTypes
<1> QED
  BY <1>0, <1>2, <1>3, <1>4, EndStep DEF B

LEMMA FailStep ==
    ASSUME GroupInv, UnitFails
    PROVE  GroupInv'
<1> DEFINE B == Members(batch)
<1>0. /\ UNCHANGED <<pc, queue, lock, inside, durable>>
      /\ SettleAll(batch) /\ phase \in {"ending", "running"} /\ ~unusable /\ B \subseteq Requests
      /\ outcome' = [r \in Requests |-> IF r \in B /\ outcome[r] \in {"none", "value"}
                                        THEN "storage error" ELSE outcome[r]]
      /\ Members(todo) \subseteq B
  BY MembersOf DEF UnitFails, section, RollBack, FailAll, GroupInv, GroupTypes, Queued, UnitUsable, ledger
<1>1. /\ durable \subseteq memory
      /\ ~wrote => memory = durable
      /\ wrote \in BOOLEAN /\ unusable \in BOOLEAN
  BY <1>0 DEF GroupInv, GroupTypes, ViewIsDurable
<1>a. \A r \in B : r \notin durable
  BY <1>0 DEF GroupInv, Uncommitted, NothingYet, Pending
<1>b. outcome \in [Requests -> Results \cup {"none"}]
  BY DEF GroupInv, GroupTypes
<1>2. \A r \in B : Told(r)'
  BY <1>0, <1>a, <1>b DEF Told, Results
<1>3. PICK dirtied \in {wrote, wrote \/ phase = "running"} : RollBack(dirtied)
  BY DEF UnitFails
<1>4. /\ ~unusable' => memory' = durable'
      /\ unusable' \in BOOLEAN
  <2>1. dirtied \in BOOLEAN /\ (~dirtied => ~wrote)
    BY <1>1, <1>3
  <2>2. CASE ~dirtied /\ UNCHANGED ledger
    BY <1>0, <1>1, <2>1, <2>2 DEF ledger
  <2>3. CASE memory' = durable /\ UNCHANGED <<durable, unusable>>
    BY <1>1, <2>3
  <2>4. CASE unusable' = TRUE /\ UNCHANGED <<memory, durable>>
    BY <2>4
  <2> QED
    BY <1>3, <2>2, <2>3, <2>4 DEF RollBack
<1>5. memory' \subseteq memory
  <2>1. \/ memory' = memory \/ memory' = durable
    BY <1>3 DEF RollBack, ledger
  <2> QED
    BY <1>1, <2>1
<1>6. /\ memory' \subseteq Requests /\ durable' \subseteq Requests
      /\ outcome' \in [Requests -> Results \cup {"none"}]
  <2>1. "storage error" \in Results
    BY DEF Results
  <2> QED
    BY <1>0, <1>5, <1>b, <2>1 DEF GroupInv, GroupTypes
<1>7. \A r \in Requests : r \notin B => outcome'[r] = outcome[r]
  BY <1>0
<1> HIDE DEF B
<1> QED
  BY <1>0, <1>2, <1>5, <1>4, <1>6, <1>7, EndStep DEF B

----------------------------------------------------------------------------
(* Theorems *)

LEMMA GroupStep == GroupInv /\ [Next]_vars => GroupInv'
<1> SUFFICES ASSUME GroupInv, [Next]_vars PROVE GroupInv'
  OBVIOUS
<1>1. CASE UNCHANGED vars
  <2>0. GroupTypes' /\ Exclusive'
    BY <1>1 DEF vars, GroupInv, GroupTypes, Exclusive
  <2>1. Queued'
    BY <1>1 DEF vars, GroupInv, Queued, Members, Distinct
  <2>2. (Unanswered /\ NothingYet /\ Uncommitted)'
    BY <1>1, ZenonT(40) DEF vars, GroupInv, Unanswered, NothingYet, Pending, Uncommitted, Members
  <2>3. (ViewIsDurable /\ UnitUsable /\ SettledTold)'
    BY <1>1 DEF vars, GroupInv, ViewIsDurable, UnitUsable, SettledTold, Told, Members
  <2> QED
    BY <2>0, <2>1, <2>2, <2>3 DEF GroupInv
<1>2. CASE Lead
  BY <1>2, BeginStep, BeginFailsStep, TakeStep, RunStep, CommitStep, FailStep DEF Lead
<1>3. ASSUME NEW r \in Requests, Step(r) PROVE GroupInv'
  BY <1>3, WokenStep, TakeLockStep, LeaveStep, HandOverStep, UnlockStep, RunAloneStep
  DEF Step
<1>4. ASSUME NEW r \in Requests, Submit(r) \/ HoldLock(r) \/ Interrupted(r) PROVE GroupInv'
  BY <1>4, SubmitStep, HoldLockStep, WokenStep
<1> QED
  BY <1>1, <1>2, <1>3, <1>4 DEF Next

\* The invariant the promises of _submit rest on: one thread has the lock, a
\* request waits in one place, and the view differs from the database only by
\* what the unit in hand has run.
THEOREM GroupInvariant == Spec => []GroupInv
<1>1. Init => GroupInv
  <2> SUFFICES ASSUME Init PROVE GroupInv
    OBVIOUS
  <2> USE GroupAssumption
  <2>0. /\ queue \in Seq(Requests) /\ batch \in Seq(Requests) /\ todo \in Seq(Requests)
        /\ Members(queue) = {} /\ Members(batch) = {} /\ Members(todo) = {}
        /\ Distinct(queue) /\ Distinct(todo) /\ Len(batch) = 0
    BY EmptyIs DEF Init
  <2>1. GroupTypes /\ Exclusive
    BY <2>0 DEF Init, GroupTypes, Exclusive
  <2>2. Queued /\ Unanswered /\ NothingYet /\ Uncommitted
    BY <2>0 DEF Init, Queued, Unanswered, NothingYet, Uncommitted
  <2>3. ViewIsDurable /\ UnitUsable /\ SettledTold
    BY <2>0 DEF Init, ViewIsDurable, UnitUsable, SettledTold
  <2> QED
    BY <2>1, <2>2, <2>3 DEF GroupInv
<1> QED
  BY <1>1, GroupStep, PTL DEF Spec

\* What _submit returns or raises is what the database holds, for any number of
\* callers, however they are batched, whoever leads and however units end.
THEOREM AnswersAreTrue == Spec => []AnswersMatchLedger
<1>1. GroupInv => AnswersMatchLedger
  BY DEF GroupInv, SettledTold, Told, AnswersMatchLedger
<1> QED
  BY <1>1, GroupInvariant, PTL

\* While a thread is inside its section no unit is open, and no other thread runs
\* work of its own: only its own call changes what it sees.
LEMMA SectionStep ==
    ASSUME GroupInv, GroupInv', SectionUndisturbed, [Next]_vars
    PROVE  SectionUndisturbed'
<1> SUFFICES ASSUME NEW r \in inside'
             PROVE  /\ memory' \ {r} = checked'
                    /\ ~unusable' => durable' \ {r} = checked'
  BY DEF SectionUndisturbed
<1> USE GroupAssumption
<1>1. memory' \ {r} = checked'
  <2>1. \A t \in inside : t \in Requests /\ lock = t /\ phase = "idle" /\ memory \ {t} = checked
    BY DEF GroupInv, GroupTypes, Exclusive, SectionUndisturbed
  <2>2. CASE r \in inside /\ UNCHANGED <<section, memory>>
    BY <2>1, <2>2 DEF section
  <2>3. CASE Lead
    BY <2>1, <2>2, <2>3
    DEF Lead, BeginUnit, BeginFails, TakeQueued, RunNext, CommitUnit, UnitFails, caller, section
  <2>4. ASSUME NEW t \in Requests, HoldLock(t) PROVE memory' \ {r} = checked'
    <3>1. inside = {} /\ t \notin memory
      BY <2>1, <2>4 DEF HoldLock, GroupInv, NothingYet, Pending
    <3> QED
      BY <2>4, <3>1 DEF HoldLock, ledger
  <2>5. ASSUME NEW t \in Requests, Unlock(t) PROVE FALSE
    BY <2>1, <2>5 DEF Unlock
  <2>6. ASSUME NEW t \in Requests, NEW result \in Results, RunAlone(t, result)
        PROVE  memory' \ {r} = checked'
    BY <2>1, <2>6 DEF RunAlone, Owned, section
  <2>7. ASSUME NEW t \in Requests,
               Submit(t) \/ Interrupted(t) \/ Woken(t) \/ TakeLock(t) \/ LeadAgainOrLeave(t)
                 \/ HandOver(t) \/ WakeSuccessor(t)
        PROVE  memory' \ {r} = checked'
    BY <2>2, <2>7
    DEF Submit, Interrupted, Woken, TakeLock, LeadAgainOrLeave, HandOver, WakeSuccessor, section,
        ledger
  <2>8. CASE UNCHANGED vars
    BY <2>2, <2>8 DEF vars, section
  <2> QED
    BY <2>3, <2>4, <2>5, <2>6, <2>7, <2>8 DEF Next, Step
<1>2. ASSUME ~unusable' PROVE memory' = durable'
  <2>1. phase' = "idle"
    BY DEF GroupInv, GroupTypes, Exclusive
  <2>2. batch' = <<>>
    BY <2>1 DEF GroupInv, Queued
  <2>3. Members(batch)' = {}
    BY <2>2, EmptyIs DEF Members
  <2> QED
    BY <1>2, <2>3 DEF GroupInv, ViewIsDurable
<1> QED
  BY <1>1, <1>2

\* A caller that took the governor's lock sees no other caller's work from its
\* check to the end of its section, for any number of callers queueing meanwhile:
\* whoever owns the lock neither queues nor leads.
THEOREM HolderUndisturbed == Spec => []SectionUndisturbed
<1>1. Init => SectionUndisturbed
  BY DEF Init, SectionUndisturbed
<1>2. GroupInv /\ GroupInv' /\ SectionUndisturbed /\ [Next]_vars => SectionUndisturbed'
  BY SectionStep
<1> QED
  BY <1>1, <1>2, GroupInvariant, PTL DEF Spec

=============================================================================
