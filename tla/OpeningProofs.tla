--------------------------- MODULE OpeningProofs ---------------------------
(***************************************************************************)
(* Proofs about the rule engine and opening, for any scopes, amounts,      *)
(* kinds of transaction and bounds: what writes commit a replay accepts,   *)
(* the state served is the one a replay of the whole chain derives, every  *)
(* snapshot is of the chain it is stored with, and while a ledger is open  *)
(* its cache rows, and the authorizations it serves, are what its chain    *)
(* implies.                                                                *)
(*                                                                         *)
(* The argument compares views.  Two views are alike when nothing the      *)
(* rules look up in them, and nothing merging them would write, tells them *)
(* apart; alike views accept the same entries and stay alike.  So a view   *)
(* staged over a merged state, or over a decoded snapshot, goes on exactly *)
(* as one replay of the chain from nothing would.                          *)
(*                                                                         *)
(* The rows are compared with the chain's entries: a row names a hold the  *)
(* chain placed, whichever version wrote it, and no two rows name one.     *)
(* An open pairs what rows name and what is open by their ranks, so that   *)
(* every open hold is served under one id, its own row's if it has one.    *)
(***************************************************************************)
EXTENDS Opening, FiniteSums

----------------------------------------------------------------------------
(* What a view says, staged or not *)

ViewFields ==
    Whole \cup {"base", "keeps", "bal", "opened", "closed", "ambiguous", "nodes", "children",
                "rowScopes", "tripped", "events", "spent", "refunded", "counts",
                "spendRefunds", "txn", "settleable", "net"}

Marked(v)  == v.base.ambiguous \cup v.ambiguous
Halted(v)  == Without(Over(v.tripped, v.base.tripped), "RESET")
Counted(v) == Without(Over(v.counts, v.base.counts), 0)

\* What the first n entries refund of every spend their refunds name.
HistoryRefunds(entries, n) ==
    [r \in {entries[i].ref : i \in {j \in 1..n : entries[j].type = "REVERSAL" /\ entries[j].ref # 0}}
        |-> RefundsIn(entries, n, r)]

Refunds(v, entries) ==
    Over(v.spendRefunds,
         IF v.keeps THEN HistoryRefunds(entries, v.base.len) ELSE v.base.spendRefunds)

\* The rules and Merge see the same in both, but for the legacy events and the
\* transaction the view is in.
Alike(v, es, w, fs) ==
    /\ \A f \in Whole \ {"legacy"} : v[f] = w[f]
    /\ v.net = w.net
    /\ OpenHolds(v) = OpenHolds(w)
    /\ Marked(v) = Marked(w)
    /\ MergedNodes(v) = MergedNodes(w)
    /\ Halted(v) = Halted(w)
    /\ \A f \in {"bal", "spent", "refunded"} : Over(v[f], v.base[f]) = Over(w[f], w.base[f])
    /\ Refunds(v, es) = Refunds(w, fs)

----------------------------------------------------------------------------
(* What holds of every view *)

NodeFields == {"parent", "amt", "children", "depth"}

HoldsOK(v) ==
    /\ IsFiniteSet(OpenHolds(v))
    /\ \A h \in OpenHolds(v) : h.id \in 1..v.len
    /\ \A h, g \in OpenHolds(v) : h.id = g.id => h = g
    /\ \A h \in v.opened : h.id > v.base.len
    /\ \A h \in v.base.holds : h.id <= v.base.len

NodesOK(v) ==
    /\ \A s \in DOMAIN v.nodes : DOMAIN v.nodes[s] = NodeFields
    /\ \A s \in DOMAIN v.base.nodes : DOMAIN v.base.nodes[s] = NodeFields
    /\ \A s \in DOMAIN v.nodes \cap DOMAIN v.base.nodes :
         /\ v.nodes[s].parent = v.base.nodes[s].parent
         /\ v.nodes[s].depth = v.base.nodes[s].depth
    /\ DOMAIN v.children \subseteq DOMAIN v.nodes \cup DOMAIN v.base.nodes

WF(v) ==
    /\ DOMAIN v = ViewFields
    /\ v.len \in Nat /\ v.base.len \in 0..v.len /\ v.txn \in 0..v.len
    /\ v.keeps \in BOOLEAN
    /\ HoldsOK(v)
    /\ Counted(v) = Census(OpenHolds(v))
    /\ NodesOK(v)

\* Two views that go on together, whatever entry comes next.
Together(v, es, w, fs) ==
    WF(v) /\ WF(w) /\ Alike(v, es, w, fs)

----------------------------------------------------------------------------
(* What holds of every state of the system *)

IsSeq(s) == s \in Seq(Range(s))

\* Numbered in order, and a refund names an earlier entry.
Chained(c) ==
    /\ IsSeq(c)
    /\ \A i \in 1..Len(c) :
         /\ c[i].seq = i /\ c[i].txn \in 1..i /\ c[i].amt \in Nat /\ c[i].ref \in Nat
         /\ c[i].type = "REVERSAL" /\ c[i].ref # 0 => c[i].ref < i

\* A transaction of the chain ends at n.
Ends(c, n) == n \in 1..Len(c) /\ (n < Len(c) => c[n + 1].txn = n + 1)

\* What is stored of a chain's first n entries.
SnapshotOf(c, l, n, body) ==
    Ends(c, n) /\ body = Encode(StateOf(SubSeq(c, 1, n), l, TRUE))

\* What holds of the chain c and the snapshots s the store holds.
Stored(c, l, k, s) ==
    /\ Chained(c) /\ Len(c) > 0 /\ Replays(c, l)
    /\ \A n \in DOMAIN s : k /\ SnapshotOf(c, l, n, s[n].body)
    /\ \A i \in 1..Len(c) : c[i].type = "CHECKPOINT" => c[i].memo[1] \in DOMAIN s

\* An entry no version before 0.1.2 wrote.
Governed(c) == \E i \in 1..Len(c) : c[i].ver # 1

ChainInv ==
    /\ Stored(chain, legacy, keeps, snaps)
    /\ keeps \in BOOLEAN
    /\ open \/ DOMAIN snaps # {} => Governed(chain)

StateInv == open => st = StateOf(chain, legacy, keeps)

\* A unit being built continues the chain c, and its view a replay of both.
UnitOf(c, l, k, S, built, view) ==
    /\ IsSeq(built) /\ Len(built) > 0
    /\ Chained(c \o built) /\ Replays(c \o built, l) /\ Ends(c \o built, Len(c))
    /\ \A i \in 1..Len(built) : built[i].type # "CHECKPOINT"
    /\ view.base = S /\ view.keeps = k /\ view.legacy = l
    /\ Together(view, c, Replay(c \o built, l, FALSE).view, c \o built)

UnitInv ==
    unit # NoUnit => open /\ UnitOf(chain, legacy, keeps, st, unit.built, unit.view)

MakingInv ==
    \/ making = NoCheckpoint
    \/ /\ DOMAIN making = {"stage", "seq", "body", "signed"}
       /\ open
       /\ making.stage \in {"encoded", "stored"}
       /\ keeps /\ SnapshotOf(chain, legacy, making.seq, making.body)
       /\ making.stage = "stored" => making.seq \in DOMAIN snaps

OpeningInv == ChainInv /\ StateInv /\ UnitInv /\ MakingInv

----------------------------------------------------------------------------
(* Functions staged over functions *)

\* Two functions with the same domain and values are one.
LEMMA SameFunction ==
    ASSUME NEW f, NEW g, f = [k \in DOMAIN f |-> f[k]], g = [k \in DOMAIN g |-> g[k]],
           DOMAIN f = DOMAIN g, \A k \in DOMAIN f : f[k] = g[k]
    PROVE  f = g
<1>1. [k \in DOMAIN f |-> f[k]] = [k \in DOMAIN g |-> g[k]]
  OBVIOUS
<1> QED
  BY <1>1

\* Over: the first map's value where it has one, else the second's.
LEMMA OverAt ==
    ASSUME NEW f, NEW g
    PROVE  \A k : /\ k \in DOMAIN Over(f, g) <=> k \in DOMAIN f \/ k \in DOMAIN g
                  /\ k \in DOMAIN f => Over(f, g)[k] = f[k]
                  /\ k \notin DOMAIN f /\ k \in DOMAIN g => Over(f, g)[k] = g[k]
  BY DEF Over

\* Put: the new value at the key, the old ones elsewhere.
LEMMA PutAt ==
    ASSUME NEW f, NEW k, NEW x
    PROVE  /\ DOMAIN Put(f, k, x) = DOMAIN f \cup {k}
           /\ Put(f, k, x)[k] = x
           /\ \A j \in DOMAIN f : j # k => Put(f, k, x)[j] = f[j]
  BY DEF Put

\* Without: the keys whose value is not the one left out.
LEMMA WithoutAt ==
    ASSUME NEW f, NEW z
    PROVE  \A k : /\ k \in DOMAIN Without(f, z) <=> k \in DOMAIN f /\ f[k] # z
                  /\ k \in DOMAIN Without(f, z) => Without(f, z)[k] = f[k]
  BY DEF Without

\* Writing to the layer on top writes to what both layers say.
LEMMA OverPut ==
    ASSUME NEW f, NEW g, NEW k, NEW x
    PROVE  Over(Put(f, k, x), g) = Put(Over(f, g), k, x)
<1> DEFINE A == Over(Put(f, k, x), g)
           B == Put(Over(f, g), k, x)
<1>1. DOMAIN A = DOMAIN B
  BY DEF Over, Put
<1>2. \A j \in DOMAIN A : A[j] = B[j]
  <2> SUFFICES ASSUME NEW j \in DOMAIN A PROVE A[j] = B[j]
    OBVIOUS
  <2>1. CASE j = k
    BY <2>1 DEF Over, Put
  <2>2. CASE j # k
    BY <2>2 DEF Over, Put
  <2> QED
    BY <2>1, <2>2
<1>3. A = [j \in DOMAIN A |-> A[j]] /\ B = [j \in DOMAIN B |-> B[j]]
  BY DEF Over, Put
<1> QED
  BY <1>1, <1>2, <1>3, SameFunction

\* What is left out may be left out before a write or after it.
LEMMA WithoutPut ==
    ASSUME NEW f, NEW z, NEW k, NEW x
    PROVE  Without(Put(f, k, x), z) = Without(Put(Without(f, z), k, x), z)
<1> DEFINE A == Without(Put(f, k, x), z)
           B == Without(Put(Without(f, z), k, x), z)
<1>1. DOMAIN A = DOMAIN B /\ \A j \in DOMAIN A : A[j] = B[j]
  BY DEF Without, Put
<1>2. A = [j \in DOMAIN A |-> A[j]] /\ B = [j \in DOMAIN B |-> B[j]]
  BY DEF Without
<1> QED
  BY <1>1, <1>2

\* What a view looks up is what it would merge, or the default.
LEMMA Looks ==
    ASSUME NEW v, NEW f, NEW k, NEW d
    PROVE  Look(v, f, k, d) = IF k \in DOMAIN Over(v[f], v.base[f])
                                THEN Over(v[f], v.base[f])[k] ELSE d
  BY DEF Look, Over

\* The rules read a count of open holds as zero where there is none.
LEMMA LooksCounted ==
    ASSUME NEW v, NEW k
    PROVE  Look(v, "counts", k, 0) = IF k \in DOMAIN Counted(v) THEN Counted(v)[k] ELSE 0
  BY DEF Look, Over, Counted, Without

\* Nothing staged over a function is the function.
LEMMA OverNothing ==
    ASSUME NEW f, f = [k \in DOMAIN f |-> f[k]]
    PROVE  Over(<<>>, f) = f
<1>1. DOMAIN <<>> = {}
  OBVIOUS
<1>2. DOMAIN Over(<<>>, f) = DOMAIN f /\ \A k \in DOMAIN f : Over(<<>>, f)[k] = f[k]
  BY <1>1 DEF Over
<1>3. Over(<<>>, f) = [k \in DOMAIN Over(<<>>, f) |-> Over(<<>>, f)[k]]
  BY DEF Over
<1> QED
  BY <1>2, <1>3

\* Leaving out a value twice is leaving it out once.
LEMMA WithoutTwice ==
    ASSUME NEW f, NEW z
    PROVE  Without(Without(f, z), z) = Without(f, z)
<1>1. DOMAIN Without(Without(f, z), z) = DOMAIN Without(f, z)
  BY DEF Without
<1>2. \A j \in DOMAIN Without(f, z) : Without(Without(f, z), z)[j] = Without(f, z)[j]
  BY DEF Without
<1> QED
  BY <1>1, <1>2 DEF Without

\* Trips and resets do not care what was reset before.
LEMMA TrippingOver ==
    ASSUME NEW f, NEW g, NEW ev
    PROVE  Without(Over(Tripping(f, ev), g), "RESET")
             = Without(Tripping(Without(Over(f, g), "RESET"), ev), "RESET")
<1> DEFINE A == Without(Over(Tripping(f, ev), g), "RESET")
           B == Without(Tripping(Without(Over(f, g), "RESET"), ev), "RESET")
           of(s) == {i \in DOMAIN ev : ev[i].scope = s}
           S == {ev[i].scope : i \in DOMAIN ev}
           last(s) == ev[Max(of(s))].type
<1>1. \A s : s \in S <=> of(s) # {}
  OBVIOUS
<1> HIDE DEF S
<1>2. \A h : /\ DOMAIN Tripping(h, ev) = DOMAIN h \cup S
             /\ \A s \in S : Tripping(h, ev)[s] = last(s)
             /\ \A s \in DOMAIN h : s \notin S => Tripping(h, ev)[s] = h[s]
  <2> TAKE h
  <2>1. Tripping(h, ev) = [s \in DOMAIN h \cup S |-> IF of(s) = {} THEN h[s] ELSE last(s)]
    BY DEF Tripping, S
  <2> HIDE DEF of, last
  <2> QED
    BY <2>1, <1>1
<1> HIDE DEF of, last
<1>3. \A s : (s \in DOMAIN A <=> s \in DOMAIN B) /\ (s \in DOMAIN A => A[s] = B[s])
  <2> TAKE s
  <2>1. CASE s \in S
    BY <2>1, <1>2 DEF Without, Over
  <2>2. CASE s \notin S
    <3>1. s \in DOMAIN Over(Tripping(f, ev), g) <=> s \in DOMAIN f \cup DOMAIN g
      BY <2>2, <1>2 DEF Over
    <3>2. s \in DOMAIN f \cup DOMAIN g => Over(Tripping(f, ev), g)[s] = Over(f, g)[s]
      BY <2>2, <1>2 DEF Over
    <3>3. /\ s \in DOMAIN A <=> s \in DOMAIN Without(Over(f, g), "RESET")
          /\ s \in DOMAIN A => A[s] = Without(Over(f, g), "RESET")[s]
      BY <3>1, <3>2, OverAt, WithoutAt
    <3> DEFINE w == Without(Over(f, g), "RESET")
    <3>4. (s \in DOMAIN Tripping(w, ev) <=> s \in DOMAIN w)
          /\ (s \in DOMAIN w => Tripping(w, ev)[s] = w[s])
      BY <2>2, <1>2
    <3>5. s \in DOMAIN Without(Over(f, g), "RESET") => Without(Over(f, g), "RESET")[s] # "RESET"
      BY WithoutAt
    <3> QED
      BY <3>3, <3>4, <3>5, WithoutAt
  <2> QED
    BY <2>1, <2>2
<1>4. A = [j \in DOMAIN A |-> A[j]] /\ B = [j \in DOMAIN B |-> B[j]]
  BY DEF Without
<1> SUFFICES A = B
  OBVIOUS
<1> HIDE DEF A, B
<1>5. DOMAIN A = DOMAIN B
  BY <1>3
<1> QED
  BY <1>3, <1>4, <1>5, SameFunction

----------------------------------------------------------------------------
(* Sequences *)

\* A sequence is the function of its places.
LEMMA SeqFacts ==
    ASSUME NEW s, IsSeq(s)
    PROVE  /\ Len(s) \in Nat /\ DOMAIN s = 1..Len(s)
           /\ s = [i \in 1..Len(s) |-> s[i]]
  BY DEF IsSeq

\* A function on 1..n is a sequence of its values.
LEMMA IsSeqOf ==
    ASSUME NEW n \in Nat, NEW s, DOMAIN s = 1..n, s = [i \in 1..n |-> s[i]]
    PROVE  IsSeq(s) /\ Len(s) = n
<1> DEFINE S == {s[i] : i \in 1..n}
<1>1. s \in [1..n -> S]
  <2> HIDE DEF S
  <2>1. \A i \in 1..n : s[i] \in S
    BY DEF S
  <2> QED
    BY <2>1
<1>2. s \in Seq(S) /\ Len(s) = n
  <2> HIDE DEF S
  <2> QED
    BY <1>1
<1>3. Range(s) = S
  BY DEF Range
<1> QED
  BY <1>2, <1>3 DEF IsSeq

\* A concatenation holds the first sequence, then the second.
LEMMA ConcatFacts ==
    ASSUME NEW s, NEW t, IsSeq(s), IsSeq(t)
    PROVE  /\ IsSeq(s \o t)
           /\ Len(s \o t) = Len(s) + Len(t)
           /\ \A i \in 1..Len(s) : (s \o t)[i] = s[i]
           /\ \A i \in 1..Len(t) : (s \o t)[Len(s) + i] = t[i]
<1> DEFINE S == Range(s) \cup Range(t)
<1>1. s \in Seq(S) /\ t \in Seq(S)
  <2>1. s \in Seq(Range(s)) /\ t \in Seq(Range(t)) /\ Range(s) \subseteq S /\ Range(t) \subseteq S
    BY DEF IsSeq
  <2> HIDE DEF S
  <2> QED
    BY <2>1
<1> HIDE DEF S
<1>2. /\ s \o t \in Seq(S)
      /\ Len(s \o t) = Len(s) + Len(t)
      /\ \A i \in 1..Len(s) : (s \o t)[i] = s[i]
      /\ \A i \in 1..Len(t) : (s \o t)[Len(s) + i] = t[i]
  BY <1>1
<1>3. /\ Len(s \o t) \in Nat /\ DOMAIN (s \o t) = 1..Len(s \o t)
      /\ s \o t = [i \in 1..Len(s \o t) |-> (s \o t)[i]]
  <2> DEFINE u == s \o t
  <2>1. u \in Seq(S)
    BY <1>2
  <2> HIDE DEF u
  <2>2. Len(u) \in Nat /\ DOMAIN u = 1..Len(u) /\ u = [i \in 1..Len(u) |-> u[i]]
    BY <2>1
  <2> QED
    BY <2>2 DEF u
<1> QED
  BY <1>2, <1>3, IsSeqOf

\* A subsequence holds the entries between its ends.
LEMMA SubSeqFacts ==
    ASSUME NEW s, IsSeq(s), NEW a \in 1..(Len(s) + 1), NEW b \in Nat, b <= Len(s), a <= b + 1
    PROVE  /\ IsSeq(SubSeq(s, a, b))
           /\ Len(SubSeq(s, a, b)) = b - a + 1
           /\ \A i \in 1..(b - a + 1) : SubSeq(s, a, b)[i] = s[a + i - 1]
<1>1. s \in Seq(Range(s)) /\ Len(s) \in Nat
  BY DEF IsSeq
<1>2. SubSeq(s, a, b) = [i \in 1..(b - a + 1) |-> s[a + i - 1]]
  BY <1>1
<1>3. /\ b - a + 1 \in Nat /\ DOMAIN SubSeq(s, a, b) = 1..(b - a + 1)
      /\ \A i \in 1..(b - a + 1) : SubSeq(s, a, b)[i] = s[a + i - 1]
  BY <1>1, <1>2
<1>4. SubSeq(s, a, b) = [i \in 1..(b - a + 1) |-> SubSeq(s, a, b)[i]]
  BY <1>2, <1>3
<1>5. IsSeq(SubSeq(s, a, b)) /\ Len(SubSeq(s, a, b)) = b - a + 1
  BY <1>3, <1>4, IsSeqOf
<1> QED
  BY <1>3, <1>5

\* Two sequences with the same elements are the same.
LEMMA SameSeq ==
    ASSUME NEW s, NEW t, IsSeq(s), IsSeq(t), Len(s) = Len(t), \A i \in 1..Len(s) : s[i] = t[i]
    PROVE  s = t
<1>1. DOMAIN s = 1..Len(s) /\ s = [i \in 1..Len(s) |-> s[i]]
      /\ DOMAIN t = 1..Len(t) /\ t = [i \in 1..Len(t) |-> t[i]]
  BY SeqFacts
<1> QED
  BY <1>1

\* What is appended changes no prefix.
LEMMA PrefixStays ==
    ASSUME NEW s, NEW t, IsSeq(s), IsSeq(t), NEW n \in Nat, n <= Len(s)
    PROVE  SubSeq(s \o t, 1, n) = SubSeq(s, 1, n)
<1>1. /\ IsSeq(s \o t) /\ Len(s \o t) = Len(s) + Len(t) /\ Len(s) \in Nat /\ Len(t) \in Nat
      /\ \A i \in 1..Len(s) : (s \o t)[i] = s[i]
  BY ConcatFacts, SeqFacts
<1>2. /\ IsSeq(SubSeq(s, 1, n)) /\ Len(SubSeq(s, 1, n)) = n
      /\ \A i \in 1..n : SubSeq(s, 1, n)[i] = s[i]
  <2>1. 1 \in 1..(Len(s) + 1) /\ n - 1 + 1 = n
    BY <1>1
  <2> QED
    BY <2>1, SubSeqFacts
<1>3. /\ IsSeq(SubSeq(s \o t, 1, n)) /\ Len(SubSeq(s \o t, 1, n)) = n
      /\ \A i \in 1..n : SubSeq(s \o t, 1, n)[i] = (s \o t)[i]
  <2> DEFINE u == s \o t
  <2>1. IsSeq(u) /\ 1 \in 1..(Len(u) + 1) /\ n - 1 + 1 = n /\ n <= Len(u)
    BY <1>1
  <2> HIDE DEF u
  <2>2. /\ IsSeq(SubSeq(u, 1, n)) /\ Len(SubSeq(u, 1, n)) = n
        /\ \A i \in 1..n : SubSeq(u, 1, n)[i] = u[i]
    BY <2>1, SubSeqFacts
  <2> QED
    BY <2>2 DEF u
<1>4. \A i \in 1..n : i \in 1..Len(s)
  BY <1>1
<1> QED
  BY <1>1, <1>2, <1>3, <1>4, SameSeq

\* Concatenating three sequences, either two may go first.
LEMMA ConcatThrice ==
    ASSUME NEW a, NEW b, NEW t, IsSeq(a), IsSeq(b), IsSeq(t)
    PROVE  a \o (b \o t) = (a \o b) \o t
<1> DEFINE w == a \o b
           u == b \o t
<1>1. /\ Len(a) \in Nat /\ Len(b) \in Nat /\ Len(t) \in Nat
      /\ IsSeq(w) /\ Len(w) = Len(a) + Len(b) /\ IsSeq(u) /\ Len(u) = Len(b) + Len(t)
  BY SeqFacts, ConcatFacts
<1>2. /\ \A i \in 1..Len(a) : w[i] = a[i]
      /\ \A i \in 1..Len(b) : w[Len(a) + i] = b[i]
  BY ConcatFacts
<1>3. /\ \A i \in 1..Len(b) : u[i] = b[i]
      /\ \A i \in 1..Len(t) : u[Len(b) + i] = t[i]
  BY ConcatFacts
<1> HIDE DEF w, u
<1>4. /\ IsSeq(w \o t) /\ Len(w \o t) = Len(w) + Len(t)
      /\ \A i \in 1..Len(w) : (w \o t)[i] = w[i]
      /\ \A i \in 1..Len(t) : (w \o t)[Len(w) + i] = t[i]
  BY <1>1, ConcatFacts
<1>5. /\ IsSeq(a \o u) /\ Len(a \o u) = Len(a) + Len(u)
      /\ \A i \in 1..Len(a) : (a \o u)[i] = a[i]
      /\ \A i \in 1..Len(u) : (a \o u)[Len(a) + i] = u[i]
  BY <1>1, ConcatFacts
<1>6. Len(a \o u) = Len(w \o t) /\ Len(a \o u) = Len(a) + Len(b) + Len(t)
  BY <1>1, <1>4, <1>5
<1>7. ASSUME NEW i \in 1..(Len(a) + Len(b) + Len(t)) PROVE (a \o u)[i] = (w \o t)[i]
  <2>1. CASE i \in 1..Len(a)
    <3>1. i \in 1..Len(w)
      BY <1>1, <2>1
    <3> QED
      BY <1>2, <1>4, <1>5, <2>1, <3>1
  <2>2. CASE i \in (Len(a) + 1)..(Len(a) + Len(b))
    <3>1. i - Len(a) \in 1..Len(b) /\ Len(a) + (i - Len(a)) = i
      BY <1>1, <2>2
    <3>2. PICK m \in 1..Len(b) : Len(a) + m = i
      BY <3>1
    <3>3. i \in 1..Len(w) /\ m \in 1..Len(u)
      BY <1>1, <3>2
    <3> QED
      BY <1>2, <1>3, <1>4, <1>5, <3>2, <3>3
  <2>3. CASE i \in (Len(a) + Len(b) + 1)..(Len(a) + Len(b) + Len(t))
    <3>1. i - (Len(a) + Len(b)) \in 1..Len(t) /\ (Len(a) + Len(b)) + (i - (Len(a) + Len(b))) = i
      BY <1>1, <2>3
    <3>2. PICK m \in 1..Len(t) : (Len(a) + Len(b)) + m = i
      BY <3>1
    <3>3. Len(w) + m = i /\ Len(b) + m \in 1..Len(u) /\ Len(a) + (Len(b) + m) = i
      BY <1>1, <3>2
    <3>4. (w \o t)[i] = t[m]
      BY <1>4, <3>2, <3>3
    <3>5. (a \o u)[i] = t[m]
      BY <1>3, <1>5, <3>2, <3>3
    <3> QED
      BY <3>4, <3>5
  <2> QED
    BY <1>1, <2>1, <2>2, <2>3
<1>8. a \o u = w \o t
  BY <1>4, <1>5, <1>6, <1>7, SameSeq
<1> QED
  BY <1>8 DEF u, w

\* The whole of a sequence.
LEMMA WholePrefix ==
    ASSUME NEW s, IsSeq(s)
    PROVE  SubSeq(s, 1, Len(s)) = s
<1>1. Len(s) \in Nat
  BY SeqFacts
<1>2. /\ IsSeq(SubSeq(s, 1, Len(s))) /\ Len(SubSeq(s, 1, Len(s))) = Len(s)
      /\ \A i \in 1..Len(s) : SubSeq(s, 1, Len(s))[i] = s[i]
  <2>1. 1 \in 1..(Len(s) + 1) /\ Len(s) - 1 + 1 = Len(s) /\ Len(s) <= Len(s) /\ 1 <= Len(s) + 1
    BY <1>1
  <2> QED
    BY <1>1, <2>1, SubSeqFacts
<1> QED
  BY <1>2, SameSeq

----------------------------------------------------------------------------
(* Applying a sequence of entries *)

\* One recursion's solution up to n.
Stages(g, n, v, new, entries, writing) ==
    /\ DOMAIN g = 0..n /\ g = [i \in 0..n |-> g[i]]
    /\ g[0] = [ok |-> TRUE, view |-> v]
    /\ \A i \in 1..n : g[i] = Take(g[i - 1], new[i], entries, writing)

\* The views staging goes through, entry by entry, are well defined.
LEMMA StagesExist ==
    ASSUME NEW v, NEW new, NEW entries, NEW writing, NEW len \in Nat
    PROVE  \E g : Stages(g, len, v, new, entries, writing)
<1> DEFINE Bad == {n \in Nat : ~\E g : Stages(g, n, v, new, entries, writing)}
<1> SUFFICES ASSUME Bad # {} PROVE FALSE
  OBVIOUS
<1>1. PICK n \in Bad : \A m \in Bad : n <= m
  <2>1. Bad \in SUBSET Nat
    OBVIOUS
  <2> HIDE DEF Bad
  <2> QED
    BY <2>1, LeastOf
<1>2. n \in Nat /\ ~\E g : Stages(g, n, v, new, entries, writing)
  OBVIOUS
<1>3. n # 0
  <2> DEFINE g == [i \in 0..0 |-> [ok |-> TRUE, view |-> v]]
  <2>1. Stages(g, 0, v, new, entries, writing)
    BY DEF Stages
  <2> HIDE DEF g
  <2> QED
    BY <1>2, <2>1
<1>4. PICK g : Stages(g, n - 1, v, new, entries, writing)
  <2>1. n - 1 \in Nat /\ ~(n <= n - 1)
    BY <1>2, <1>3
  <2> QED
    BY <1>1, <2>1
<1> DEFINE last == Take(g[n - 1], new[n], entries, writing)
           h == [i \in 0..n |-> IF i = n THEN last ELSE g[i]]
<1>5. Stages(h, n, v, new, entries, writing)
  <2>1. DOMAIN h = 0..n /\ h = [i \in 0..n |-> h[i]]
    OBVIOUS
  <2>2. h[0] = [ok |-> TRUE, view |-> v]
    BY <1>2, <1>3, <1>4 DEF Stages
  <2>3. ASSUME NEW i \in 1..n
        PROVE  h[i] = Take(h[i - 1], new[i], entries, writing)
    <3>1. h[i - 1] = g[i - 1]
      BY <1>2, <2>3
    <3>2. CASE i = n
      BY <1>2, <3>1, <3>2
    <3>3. CASE i # n
      <4>1. i \in 1..(n - 1) /\ h[i] = g[i]
        BY <1>2, <2>3, <3>3
      <4> QED
        BY <1>4, <3>1, <4>1 DEF Stages
    <3> QED
      BY <3>2, <3>3
  <2> HIDE DEF h
  <2> QED
    BY <2>1, <2>2, <2>3 DEF Stages
<1> QED
  BY <1>2, <1>5

\* The recursion that Staged is has a solution, so it unfolds.
LEMMA StagedAt ==
    ASSUME NEW v, NEW new, IsSeq(new), NEW entries, NEW writing
    PROVE  Stages(Staged(v, new, entries, writing), Len(new), v, new, entries, writing)
<1> DEFINE Body(after) == [n \in 0..Len(new) |->
                             IF n = 0 THEN [ok |-> TRUE, view |-> v]
                             ELSE Take(after[n - 1], new[n], entries, writing)]
<1>1. Len(new) \in Nat
  BY SeqFacts
<1>2. PICK g : Stages(g, Len(new), v, new, entries, writing)
  BY <1>1, StagesExist
<1>3. g = Body(g)
  <2>1. \A n \in 0..Len(new) : g[n] = Body(g)[n]
    BY <1>1, <1>2 DEF Stages
  <2>2. DOMAIN Body(g) = 0..Len(new) /\ Body(g) = [n \in 0..Len(new) |-> Body(g)[n]]
    OBVIOUS
  <2>3. DOMAIN g = 0..Len(new) /\ g = [n \in 0..Len(new) |-> g[n]]
    BY <1>2 DEF Stages
  <2> HIDE DEF Body
  <2> QED
    BY <2>1, <2>2, <2>3
<1> DEFINE f == Staged(v, new, entries, writing)
<1>4. f = CHOOSE after : after = Body(after)
  BY DEF Staged
<1>5. f = Body(f)
  <2> HIDE DEF f, Body
  <2> QED
    BY <1>3, <1>4
<1>6. DOMAIN f = 0..Len(new) /\ f = [i \in 0..Len(new) |-> f[i]]
  <2> DEFINE b == Body(f)
  <2>1. DOMAIN b = 0..Len(new) /\ b = [i \in 0..Len(new) |-> b[i]]
    OBVIOUS
  <2> HIDE DEF f, b
  <2>2. f = b
    BY <1>5 DEF b
  <2> QED
    BY <2>1, <2>2
<1>7. f[0] = [ok |-> TRUE, view |-> v]
  <2>1. Body(f)[0] = [ok |-> TRUE, view |-> v]
    BY <1>1
  <2> HIDE DEF f, Body
  <2> QED
    BY <1>5, <2>1
<1>8. ASSUME NEW i \in 1..Len(new)
      PROVE  f[i] = Take(f[i - 1], new[i], entries, writing)
  <2>1. Body(f)[i] = Take(f[i - 1], new[i], entries, writing)
    BY <1>1
  <2> HIDE DEF f, Body
  <2> QED
    BY <1>5, <2>1
<1> HIDE DEF f
<1>9. Stages(f, Len(new), v, new, entries, writing)
  BY <1>6, <1>7, <1>8 DEF Stages
<1> QED
  BY <1>9 DEF f

----------------------------------------------------------------------------
(* The fields of a view, and what folding an entry in writes *)

\* An overlay starts with the base's totals and nothing written over it.
LEMMA OverlayFields ==
    ASSUME NEW base, NEW k
    PROVE  LET v == Overlay(base, k) IN
           /\ DOMAIN v = ViewFields
           /\ \A f \in Whole : v[f] = base[f]
           /\ v.base = base /\ v.keeps = k
           /\ v.bal = <<>> /\ v.opened = {} /\ v.closed = {} /\ v.ambiguous = {}
           /\ v.nodes = <<>> /\ v.children = <<>> /\ v.rowScopes = {} /\ v.events = {}
           /\ v.tripped = <<>>
           /\ v.spent = <<>> /\ v.refunded = <<>> /\ v.counts = <<>> /\ v.spendRefunds = <<>>
           /\ v.txn = 0 /\ v.settleable = {} /\ v.net = 0
  BY DEF Overlay, Over, ViewFields, Whole

\* Beginning a transaction touches the transaction and what it may settle.
LEMMA BeginFields ==
    ASSUME NEW v, DOMAIN v = ViewFields, NEW e
    PROVE  LET w == BeginTransaction(v, e) IN
           /\ DOMAIN w = ViewFields
           /\ w.txn = e.txn /\ w.settleable = Settleable(v, e)
           /\ \A f \in ViewFields \ {"txn", "settleable"} : w[f] = v[f]
  BY DEF BeginTransaction, ViewFields

\* Ending one touches the same.
LEMMA EndFields ==
    ASSUME NEW v, DOMAIN v = ViewFields
    PROVE  LET w == EndTransaction(v) IN
           /\ DOMAIN w = ViewFields
           /\ w.txn = 0 /\ w.settleable = {}
           /\ \A f \in ViewFields \ {"txn", "settleable"} : w[f] = v[f]
  BY DEF EndTransaction, ViewFields

\* What FoldMoney writes, and that it writes no more.
MoneyPart ==
    {"bal", "funded", "spentAll", "reversed", "held", "spent", "refunded"}

MoneyChanges(v, e, w) ==
    /\ w.bal = IF e.type \in ZeroValue THEN v.bal ELSE Put(v.bal, e.scope, e.bal)
    /\ w.funded = v.funded + (IF e.type = "FUNDING" THEN e.amt ELSE 0)
    /\ w.spentAll = v.spentAll + (IF e.type = "SPEND" THEN e.amt ELSE 0)
    /\ w.reversed = v.reversed + (IF e.type = "REVERSAL" THEN e.amt ELSE 0)
    /\ w.held = v.held + (CASE e.type = "HOLD" -> e.amt [] e.type = "HOLD_VOID" -> -e.amt
                            [] OTHER -> 0)
    /\ w.spent = IF e.type = "SPEND"
                   THEN Put(v.spent, e.scope, Look(v, "spent", e.scope, 0) + e.amt)
                   ELSE v.spent
    /\ w.refunded = IF e.type = "REVERSAL"
                      THEN Put(v.refunded, e.scope, Look(v, "refunded", e.scope, 0) + e.amt)
                      ELSE v.refunded

MoneyWrites(v, e, w) ==
    /\ DOMAIN w = ViewFields /\ MoneyChanges(v, e, w)
    /\ \A f \in ViewFields \ MoneyPart : w[f] = v[f]

\* What folding an entry writes of the balances and the totals.
LEMMA MoneyFields ==
    ASSUME NEW v, DOMAIN v = ViewFields, NEW e
    PROVE  MoneyWrites(v, e, FoldMoney(v, e))
  BY DEF MoneyWrites, MoneyChanges, MoneyPart, FoldMoney, ViewFields, Whole

\* What FoldPosition writes.
PositionPart ==
    {"len", "sawV1", "sawV2", "sawV3", "seal", "checkpoint", "net"}

PositionChanges(v, e, w) ==
    /\ w.len = e.seq
    /\ w.sawV1 = (v.sawV1 \/ e.ver = 1)
    /\ w.sawV2 = (v.sawV2 \/ e.ver # 1)
    /\ w.sawV3 = (v.sawV3 \/ e.ver = 3)
    /\ w.seal = (v.seal \/ e.type = "SEAL")
    /\ w.checkpoint = IF e.type = "CHECKPOINT" THEN e.memo[1] ELSE v.checkpoint
    /\ w.net = v.net + (IF e.type \in Balanced THEN Signed(e) ELSE 0)

PositionWrites(v, e, w) ==
    /\ DOMAIN w = ViewFields /\ PositionChanges(v, e, w)
    /\ \A f \in ViewFields \ PositionPart : w[f] = v[f]

\* What it writes of the position in the chain.
LEMMA PositionFields ==
    ASSUME NEW v, DOMAIN v = ViewFields, NEW e
    PROVE  PositionWrites(v, e, FoldPosition(v, e))
  BY DEF PositionWrites, PositionChanges, PositionPart, FoldPosition, ViewFields, Whole

\* What FoldGovernance stages for an entry that creates a scope or adds to it.
Creates(e) == e.type \in {"FUNDING", "ALLOCATION"} /\ e.dir = "CREDIT"

ControlOf(e) == IF e.type \in Control THEN <<[type |-> e.type, scope |-> e.scope]>> ELSE <<>>

CreatedNode(v, e) ==
    IF ~Known(v, e.scope)
      THEN [parent |-> e.cpty, amt |-> e.amt, children |-> {},
            depth |-> IF e.cpty = None THEN 0 ELSE Node(v, e.cpty).depth + 1]
      ELSE [Node(v, e.scope) EXCEPT !.amt = @ + e.amt]

GovernancePart ==
    {"legacyApplied", "tripped", "nodes", "children", "events", "rowScopes"}

GovernanceChanges(v, e, w) ==
    /\ w.legacyApplied = (v.legacyApplied \/ FoldsLegacy(v, e))
    /\ w.tripped = Tripping(v.tripped,
                     (IF FoldsLegacy(v, e) THEN v.legacy ELSE <<>>) \o ControlOf(e))
    /\ w.nodes = IF Creates(e) THEN Put(v.nodes, e.scope, CreatedNode(v, e)) ELSE v.nodes
    /\ w.children = IF Creates(e) /\ e.type = "ALLOCATION"
                      THEN Put(v.children, e.cpty, {e.scope} \cup
                               (IF e.cpty \in DOMAIN v.children THEN v.children[e.cpty]
                                ELSE {}))
                      ELSE v.children

GovernanceWrites(v, e, w) ==
    /\ DOMAIN w = ViewFields /\ GovernanceChanges(v, e, w)
    /\ \A f \in ViewFields \ GovernancePart : w[f] = v[f]

\* What it writes of the nodes, the breakers and the checkpoint.
LEMMA GovernanceFields ==
    ASSUME NEW v, DOMAIN v = ViewFields, NEW e
    PROVE  GovernanceWrites(v, e, FoldGovernance(v, e))
<1>1. DOMAIN FoldGovernance(v, e) = ViewFields
  BY DEF FoldGovernance, ViewFields, Whole
<1>2. FoldGovernance(v, e).legacyApplied = (v.legacyApplied \/ FoldsLegacy(v, e))
  BY DEF FoldGovernance, ViewFields, Whole
<1>3. FoldGovernance(v, e).tripped
        = Tripping(v.tripped, (IF FoldsLegacy(v, e) THEN v.legacy ELSE <<>>) \o ControlOf(e))
  BY DEF FoldGovernance, ViewFields, Whole, ControlOf
<1>4. FoldGovernance(v, e).nodes
        = IF Creates(e) THEN Put(v.nodes, e.scope, CreatedNode(v, e)) ELSE v.nodes
  BY DEF FoldGovernance, ViewFields, Whole, Creates, CreatedNode
<1>5. FoldGovernance(v, e).children
        = IF Creates(e) /\ e.type = "ALLOCATION"
            THEN Put(v.children, e.cpty, {e.scope} \cup
                     (IF e.cpty \in DOMAIN v.children THEN v.children[e.cpty] ELSE {}))
            ELSE v.children
  BY DEF FoldGovernance, ViewFields, Whole, Creates
<1>6. \A f \in ViewFields \ {"legacyApplied", "tripped", "nodes", "children", "events",
                             "rowScopes"} : FoldGovernance(v, e)[f] = v[f]
  BY DEF FoldGovernance, ViewFields, Whole
<1> QED
  BY <1>1, <1>2, <1>3, <1>4, <1>5, <1>6 DEF GovernanceWrites, GovernanceChanges, GovernancePart

\* What FoldHolds writes, after BeginTransaction.
HoldsPart ==
    {"opened", "closed", "counts", "ambiguous", "settleable", "spendRefunds"}

HoldsChanges(v, e, es, settleable, w) ==
    LET h == Closing(v, e)
        places == e.type = "HOLD"
        releases == e.type = "HOLD_VOID"
    IN
    /\ w.opened = IF places
                    THEN v.opened \cup {[id |-> e.seq, scope |-> e.scope, amt |-> e.amt]}
                  ELSE IF releases THEN v.opened \ {h} ELSE v.opened
    /\ w.closed = IF releases /\ h \notin v.opened THEN v.closed \cup {h.id} ELSE v.closed
    /\ w.counts = IF places
                    THEN Put(v.counts, e.scope, Look(v, "counts", e.scope, 0) + 1)
                  ELSE IF releases
                    THEN Put(v.counts, e.scope, Look(v, "counts", e.scope, 0) + (-1))
                  ELSE v.counts
    /\ w.ambiguous = IF releases /\ e.ver = 1 THEN v.ambiguous \cup {Key(e)} ELSE v.ambiguous
    /\ w.settleable = IF releases /\ e.ver # 1 THEN settleable \cup {h.id}
                      ELSE settleable
    /\ w.spendRefunds = IF e.type = "REVERSAL" /\ e.ref # 0
                          THEN Put(v.spendRefunds, e.ref, RefundedOf(v, e.ref, es) + e.amt)
                          ELSE v.spendRefunds

HoldsWrites(v, e, es, w) ==
    /\ DOMAIN w = ViewFields /\ HoldsChanges(v, e, es, v.settleable, w)
    /\ \A f \in ViewFields \ HoldsPart : w[f] = v[f]

\* What it writes of the holds and the refunds.
LEMMA HoldsFields ==
    ASSUME NEW v, DOMAIN v = ViewFields, NEW e, NEW es
    PROVE  HoldsWrites(v, e, es, FoldHolds(v, e, es))
<1>1. CASE e.type = "HOLD"
  BY <1>1 DEF HoldsWrites, HoldsChanges, HoldsPart, FoldHolds, ViewFields, Whole
<1>2. CASE e.type = "HOLD_VOID"
  BY <1>2 DEF HoldsWrites, HoldsChanges, HoldsPart, FoldHolds, ViewFields, Whole
<1>3. CASE e.type = "REVERSAL" /\ e.ref # 0
  BY <1>3 DEF HoldsWrites, HoldsChanges, HoldsPart, FoldHolds, ViewFields, Whole
<1>4. CASE e.type \notin {"HOLD", "HOLD_VOID"} /\ ~(e.type = "REVERSAL" /\ e.ref # 0)
  BY <1>4 DEF HoldsWrites, HoldsChanges, HoldsPart, FoldHolds, ViewFields, Whole
<1> QED
  BY <1>1, <1>2, <1>3, <1>4


\* All that folding an entry in does, in terms of the view before.
FoldChanges(v, e, es, w) ==
    /\ w.base = v.base /\ w.keeps = v.keeps /\ w.legacy = v.legacy /\ w.txn = e.txn
    /\ HoldsChanges(v, e, es, Settleable(v, e), w)
    /\ MoneyChanges(v, e, w) /\ GovernanceChanges(v, e, w) /\ PositionChanges(v, e, w)

\* Changes that depend on fields that are the same are the same.
LEMMA ChangesAlike ==
    ASSUME NEW v, NEW w, NEW x, NEW y, NEW e, v.base = w.base
    PROVE  /\ MoneyChanges(v, e, x)
              /\ (\A f \in {"bal", "funded", "spentAll", "reversed", "held", "spent", "refunded"} :
                    v[f] = w[f] /\ x[f] = y[f]) => MoneyChanges(w, e, y)
           /\ PositionChanges(v, e, x)
              /\ (\A f \in {"sawV1", "sawV2", "sawV3", "seal", "checkpoint", "net"} : v[f] = w[f])
              /\ (\A f \in PositionPart : x[f] = y[f]) => PositionChanges(w, e, y)
           /\ GovernanceChanges(v, e, x)
              /\ (\A f \in {"legacyApplied", "tripped", "nodes", "children", "legacy"} :
                    v[f] = w[f])
              /\ (\A f \in {"legacyApplied", "tripped", "nodes", "children"} : x[f] = y[f])
                => GovernanceChanges(w, e, y)
<1>1. ASSUME MoneyChanges(v, e, x),
             \A f \in {"bal", "funded", "spentAll", "reversed", "held", "spent", "refunded"} :
                v[f] = w[f] /\ x[f] = y[f]
      PROVE  MoneyChanges(w, e, y)
  <2>1. \A k, d : Look(v, "spent", k, d) = Look(w, "spent", k, d)
                  /\ Look(v, "refunded", k, d) = Look(w, "refunded", k, d)
    BY <1>1 DEF Look
  <2>2. /\ v.bal = w.bal /\ v.funded = w.funded /\ v.spentAll = w.spentAll
        /\ v.reversed = w.reversed /\ v.held = w.held /\ v.spent = w.spent
        /\ v.refunded = w.refunded
        /\ x.bal = y.bal /\ x.funded = y.funded /\ x.spentAll = y.spentAll
        /\ x.reversed = y.reversed /\ x.held = y.held /\ x.spent = y.spent
        /\ x.refunded = y.refunded
    BY <1>1
  <2> QED
    BY <1>1, <2>1, <2>2 DEF MoneyChanges
<1>2. ASSUME PositionChanges(v, e, x),
             \A f \in {"sawV1", "sawV2", "sawV3", "seal", "checkpoint", "net"} : v[f] = w[f],
             \A f \in PositionPart : x[f] = y[f]
      PROVE  PositionChanges(w, e, y)
  <2>1. /\ v.sawV1 = w.sawV1 /\ v.sawV2 = w.sawV2 /\ v.sawV3 = w.sawV3 /\ v.seal = w.seal
        /\ v.checkpoint = w.checkpoint /\ v.net = w.net
        /\ x.sawV1 = y.sawV1 /\ x.sawV2 = y.sawV2 /\ x.sawV3 = y.sawV3 /\ x.seal = y.seal
        /\ x.checkpoint = y.checkpoint /\ x.net = y.net /\ x.len = y.len
    BY <1>2 DEF PositionPart
  <2> QED
    BY <1>2, <2>1 DEF PositionChanges
<1>3. ASSUME GovernanceChanges(v, e, x),
             \A f \in {"legacyApplied", "tripped", "nodes", "children", "legacy"} : v[f] = w[f],
             \A f \in {"legacyApplied", "tripped", "nodes", "children"} : x[f] = y[f]
      PROVE  GovernanceChanges(w, e, y)
  <2>1. /\ v.legacyApplied = w.legacyApplied /\ v.tripped = w.tripped /\ v.nodes = w.nodes
        /\ v.children = w.children /\ v.legacy = w.legacy
        /\ x.legacyApplied = y.legacyApplied /\ x.tripped = y.tripped /\ x.nodes = y.nodes
        /\ x.children = y.children
    BY <1>3
  <2>2. /\ FoldsLegacy(v, e) = FoldsLegacy(w, e)
        /\ CreatedNode(v, e) = CreatedNode(w, e)
    BY <2>1 DEF FoldsLegacy, CreatedNode, Known, Node, Look
  <2> QED
    BY <1>3, <2>1, <2>2 DEF GovernanceChanges
<1> QED
  BY <1>1, <1>2, <1>3

\* Folding an entry writes all of that and nothing else.
LEMMA FoldFields ==
    ASSUME NEW v, DOMAIN v = ViewFields, NEW e, NEW es
    PROVE  DOMAIN Fold(v, e, es) = ViewFields /\ FoldChanges(v, e, es, Fold(v, e, es))
<1> DEFINE b == BeginTransaction(v, e)
           h == FoldHolds(b, e, es)
           m == FoldMoney(h, e)
           g == FoldGovernance(m, e)
           w == FoldPosition(g, e)
<1>0. Fold(v, e, es) = w
  BY DEF Fold
<1> HIDE DEF b, h, m, g, w
<1>1. /\ DOMAIN b = ViewFields
      /\ b.txn = e.txn /\ b.settleable = Settleable(v, e)
      /\ \A f \in ViewFields \ {"txn", "settleable"} : b[f] = v[f]
  BY BeginFields DEF b
<1>2. HoldsWrites(b, e, es, h)
  <2>1. DOMAIN b = ViewFields
    BY <1>1
  <2> QED
    BY <2>1, HoldsFields DEF h
<1>3. MoneyWrites(h, e, m)
  <2>1. DOMAIN h = ViewFields
    BY <1>2 DEF HoldsWrites
  <2> QED
    BY <2>1, MoneyFields DEF m
<1>4. GovernanceWrites(m, e, g)
  <2>1. DOMAIN m = ViewFields
    BY <1>3 DEF MoneyWrites
  <2> QED
    BY <2>1, GovernanceFields DEF g
<1>5. PositionWrites(g, e, w)
  <2>1. DOMAIN g = ViewFields
    BY <1>4 DEF GovernanceWrites
  <2> QED
    BY <2>1, PositionFields DEF w
<1>6. /\ \A f \in ViewFields \ HoldsPart : h[f] = b[f]
      /\ \A f \in ViewFields \ MoneyPart : m[f] = h[f]
      /\ \A f \in ViewFields \ GovernancePart : g[f] = m[f]
      /\ \A f \in ViewFields \ PositionPart : w[f] = g[f]
  BY <1>2, <1>3, <1>4, <1>5 DEF HoldsWrites, MoneyWrites, GovernanceWrites, PositionWrites
<1>7. /\ b.base = v.base /\ h.base = v.base /\ m.base = v.base /\ g.base = v.base
      /\ w.base = v.base /\ w.keeps = v.keeps /\ w.legacy = v.legacy /\ w.txn = e.txn
  BY <1>1, <1>6 DEF ViewFields, Whole, HoldsPart, MoneyPart, GovernancePart, PositionPart
<1>8. HoldsChanges(v, e, es, Settleable(v, e), w)
  <2>1. HoldsChanges(b, e, es, Settleable(v, e), h)
    BY <1>1, <1>2 DEF HoldsWrites
  <2>2. /\ Closing(b, e) = Closing(v, e)
        /\ \A k, d : Look(b, "counts", k, d) = Look(v, "counts", k, d)
        /\ \A r : RefundedOf(b, r, es) = RefundedOf(v, r, es)
    <3>1. OpenHolds(b) = OpenHolds(v)
      BY <1>1 DEF OpenHolds, ViewFields
    <3>2. Closing(b, e) = Closing(v, e)
      BY <3>1 DEF Closing
    <3>3. \A k, d : Look(b, "counts", k, d) = Look(v, "counts", k, d)
      BY <1>1 DEF Look, ViewFields
    <3>4. \A r : RefundedOf(b, r, es) = RefundedOf(v, r, es)
      BY <1>1 DEF RefundedOf, Look, ViewFields
    <3> QED
      BY <3>2, <3>3, <3>4
  <2>3. /\ b.opened = v.opened /\ b.closed = v.closed /\ b.counts = v.counts
        /\ b.ambiguous = v.ambiguous /\ b.spendRefunds = v.spendRefunds
    BY <1>1 DEF ViewFields
  <2>4. /\ w.opened = h.opened /\ w.closed = h.closed /\ w.counts = h.counts
        /\ w.ambiguous = h.ambiguous /\ w.settleable = h.settleable
        /\ w.spendRefunds = h.spendRefunds
    BY <1>6 DEF ViewFields, Whole, MoneyPart, GovernancePart, PositionPart
  <2> QED
    BY <2>1, <2>2, <2>3, <2>4 DEF HoldsChanges
<1>9. MoneyChanges(v, e, w)
  <2>1. MoneyChanges(h, e, m)
    BY <1>3 DEF MoneyWrites
  <2>2. \A f \in {"bal", "funded", "spentAll", "reversed", "held", "spent", "refunded"} :
          h[f] = v[f] /\ m[f] = w[f]
    BY <1>1, <1>6 DEF ViewFields, Whole, HoldsPart, GovernancePart, PositionPart
  <2> QED
    BY <1>7, <2>1, <2>2, ChangesAlike
<1>10. GovernanceChanges(v, e, w)
  <2>1. GovernanceChanges(m, e, g)
    BY <1>4 DEF GovernanceWrites
  <2>2. \A f \in {"legacyApplied", "tripped", "nodes", "children", "legacy"} : m[f] = v[f]
    BY <1>1, <1>6 DEF ViewFields, Whole, HoldsPart, MoneyPart
  <2>3. \A f \in {"legacyApplied", "tripped", "nodes", "children"} : g[f] = w[f]
    BY <1>6 DEF ViewFields, Whole, PositionPart
  <2> QED
    BY <1>7, <2>1, <2>2, <2>3, ChangesAlike
<1>11. PositionChanges(v, e, w)
  <2>1. PositionChanges(g, e, w)
    BY <1>5 DEF PositionWrites
  <2>2. \A f \in {"sawV1", "sawV2", "sawV3", "seal", "checkpoint", "net"} : g[f] = v[f]
    BY <1>1, <1>6 DEF ViewFields, Whole, HoldsPart, MoneyPart, GovernancePart
  <2> QED
    BY <1>7, <2>1, <2>2, ChangesAlike
<1>12. DOMAIN w = ViewFields
  BY <1>5 DEF PositionWrites
<1> QED
  BY <1>0, <1>7, <1>8, <1>9, <1>10, <1>11, <1>12 DEF FoldChanges

----------------------------------------------------------------------------
(* Holds *)

\* A release the rules accept closes an open hold of its key.
LEMMA ClosingIsOpen ==
    ASSUME NEW v, v.len \in Nat, HoldsOK(v), NEW e,
           \E h \in OpenHolds(v) : Key(h) = Key(e) /\ (e.ver # 1 => h.id = e.ref)
    PROVE  Closing(v, e) \in OpenHolds(v) /\ Key(Closing(v, e)) = Key(e)
<1> DEFINE match == {h \in OpenHolds(v) : Key(h) = Key(e) /\ (e.ver # 1 => h.id = e.ref)}
           ids == {h.id : h \in match}
<1>1. ids \in SUBSET Nat /\ ids # {}
  BY DEF HoldsOK
<1>2. PICK i \in ids : \A j \in ids : i <= j
  <2> HIDE DEF ids
  <2> QED
    BY <1>1, LeastOf
<1>3. PICK h \in match : h.id = i
  BY <1>2
<1>4. \A g \in match : h.id <= g.id
  BY <1>2, <1>3
<1>5. Closing(v, e) = CHOOSE c \in match : \A g \in match : c.id <= g.id
  BY DEF Closing
<1>6. Closing(v, e) \in match
  <2> HIDE DEF match, ids
  <2> QED
    BY <1>3, <1>4, <1>5
<1> QED
  BY <1>6

Placed(e) == [id |-> e.seq, scope |-> e.scope, amt |-> e.amt]

\* A hold is open once it is placed, until it is released.
LEMMA HoldsAfter ==
    ASSUME NEW v, WF(v), NEW e, e.seq = v.len + 1, NEW es, NEW w,
           FoldChanges(v, e, es, w), CheckHolds(v, e, es)
    PROVE  /\ OpenHolds(w) = IF e.type = "HOLD" THEN OpenHolds(v) \cup {Placed(e)}
                             ELSE IF e.type = "HOLD_VOID" THEN OpenHolds(v) \ {Closing(v, e)}
                             ELSE OpenHolds(v)
           /\ e.type = "HOLD_VOID" => Closing(v, e) \in OpenHolds(v)
                                      /\ Closing(v, e).scope = e.scope
           /\ e.type = "HOLD" => Placed(e) \notin OpenHolds(v)
<1>1. v.len \in Nat /\ v.base.len \in Nat /\ v.base.len <= v.len /\ HoldsOK(v)
  BY DEF WF
<1>2. /\ w.base = v.base
      /\ w.opened = IF e.type = "HOLD" THEN v.opened \cup {Placed(e)}
                    ELSE IF e.type = "HOLD_VOID" THEN v.opened \ {Closing(v, e)} ELSE v.opened
      /\ w.closed = IF e.type = "HOLD_VOID" /\ Closing(v, e) \notin v.opened
                      THEN v.closed \cup {Closing(v, e).id} ELSE v.closed
  BY DEF FoldChanges, HoldsChanges, Placed
<1>3. CASE e.type = "HOLD"
  <2>1. Placed(e).id = v.len + 1
    BY DEF Placed
  <2>2. Placed(e) \notin OpenHolds(v)
    BY <1>1, <2>1 DEF HoldsOK
  <2> QED
    BY <1>2, <1>3, <2>2 DEF OpenHolds
<1>4. CASE e.type = "HOLD_VOID"
  <2> DEFINE h == Closing(v, e)
  <2>1. h \in OpenHolds(v) /\ Key(h) = Key(e)
    BY <1>1, <1>4, ClosingIsOpen DEF CheckHolds
  <2>2. h.scope = e.scope
    BY <2>1 DEF Key
  <2> HIDE DEF h
  <2>3. CASE h \in v.opened
    <3>1. w.opened = v.opened \ {h} /\ w.closed = v.closed
      BY <1>2, <1>4, <2>3 DEF h
    <3>2. h \notin v.base.holds
      BY <1>1, <2>3 DEF HoldsOK, OpenHolds
    <3>3. OpenHolds(w) = OpenHolds(v) \ {h}
      BY <1>2, <3>1, <3>2 DEF OpenHolds
    <3> QED
      BY <1>4, <2>1, <2>2, <3>3 DEF h
  <2>4. CASE h \notin v.opened
    <3>1. w.opened = v.opened /\ w.closed = v.closed \cup {h.id}
      BY <1>2, <1>4, <2>4 DEF h
    <3>2. \A g \in OpenHolds(v) : g.id = h.id => g = h
      BY <1>1, <2>1 DEF HoldsOK
    <3>3. OpenHolds(w) = OpenHolds(v) \ {h}
      BY <1>2, <2>1, <2>4, <3>1, <3>2 DEF OpenHolds
    <3> QED
      BY <1>4, <2>1, <2>2, <3>3 DEF h
  <2> QED
    BY <2>3, <2>4
<1>5. CASE e.type \notin {"HOLD", "HOLD_VOID"}
  BY <1>2, <1>5 DEF OpenHolds
<1> QED
  BY <1>3, <1>4, <1>5

\* Open holds stay finite, numbered apart, and split at the base's end.
LEMMA HoldsStayOK ==
    ASSUME NEW v, WF(v), NEW e, e.seq = v.len + 1, NEW es, NEW w,
           FoldChanges(v, e, es, w), CheckHolds(v, e, es)
    PROVE  HoldsOK(w)
<1>1. v.len \in Nat /\ v.base.len \in Nat /\ v.base.len <= v.len /\ HoldsOK(v)
  BY DEF WF
<1>2. /\ w.base = v.base /\ w.len = v.len + 1
      /\ w.opened \subseteq v.opened \cup {Placed(e)}
  BY DEF FoldChanges, HoldsChanges, PositionChanges, Placed
<1>3. /\ OpenHolds(w) \subseteq OpenHolds(v) \cup {Placed(e)}
      /\ IsFiniteSet(OpenHolds(w))
  <2>1. OpenHolds(w) \subseteq OpenHolds(v) \cup {Placed(e)}
    BY HoldsAfter
  <2>2. IsFiniteSet(OpenHolds(v) \cup {Placed(e)})
    BY <1>1, FS_AddElement DEF HoldsOK
  <2> QED
    BY <2>1, <2>2, FS_Subset
<1>4. Placed(e).id = v.len + 1
  BY DEF Placed
<1>5. \A h \in OpenHolds(w) : h.id \in 1..w.len
  BY <1>1, <1>2, <1>3, <1>4 DEF HoldsOK
<1>6. \A h, g \in OpenHolds(w) : h.id = g.id => h = g
  BY <1>1, <1>3, <1>4 DEF HoldsOK
<1>7. \A h \in w.opened : h.id > w.base.len
  BY <1>1, <1>2, <1>4 DEF HoldsOK
<1>8. \A h \in w.base.holds : h.id <= w.base.len
  BY <1>1, <1>2 DEF HoldsOK
<1> QED
  BY <1>3, <1>5, <1>6, <1>7, <1>8 DEF HoldsOK

----------------------------------------------------------------------------
(* How many holds are open in each scope *)

Sited(H, s) == {h \in H : h.scope = s}
InCensus(H, s) == IF s \in DOMAIN Census(H) THEN Census(H)[s] ELSE 0

\* The census counts the holds of each scope that has any.
LEMMA CensusAt ==
    ASSUME NEW H, IsFiniteSet(H)
    PROVE  \A s : /\ s \in DOMAIN Census(H) <=> Sited(H, s) # {}
                  /\ InCensus(H, s) = Cardinality(Sited(H, s))
                  /\ InCensus(H, s) \in Nat
                  /\ s \in DOMAIN Census(H) <=> InCensus(H, s) # 0
                  /\ IsFiniteSet(Sited(H, s))
<1> TAKE s
<1>1. s \in DOMAIN Census(H) <=> Sited(H, s) # {}
  BY DEF Census, Sited
<1>2. s \in DOMAIN Census(H) => Census(H)[s] = Cardinality(Sited(H, s))
  BY DEF Census, Sited
<1>3. IsFiniteSet(Sited(H, s))
  BY FS_Subset DEF Sited
<1>4. /\ Cardinality(Sited(H, s)) \in Nat
      /\ Cardinality(Sited(H, s)) = 0 <=> Sited(H, s) = {}
  BY <1>3, FS_CardinalityType, FS_EmptySet
<1> QED
  BY <1>1, <1>2, <1>3, <1>4 DEF InCensus

\* Counting one hold in or out keeps the census.
LEMMA CensusKept ==
    ASSUME NEW H, IsFiniteSet(H), NEW G, NEW h, NEW d \in {1, -1},
           d = 1 => h \notin H /\ G = H \cup {h},
           d = -1 => h \in H /\ G = H \ {h}
    PROVE  Without(Put(Census(H), h.scope, InCensus(H, h.scope) + d), 0) = Census(G)
<1> DEFINE A == Without(Put(Census(H), h.scope, InCensus(H, h.scope) + d), 0)
<1>1. IsFiniteSet(G)
  <2>1. CASE d = 1
    BY <2>1, FS_AddElement
  <2>2. CASE d = -1
    BY <2>2, FS_Subset
  <2> QED
    BY <2>1, <2>2
<1>2. InCensus(G, h.scope) = InCensus(H, h.scope) + d
  <2>1. CASE d = 1
    <3>1. Sited(G, h.scope) = Sited(H, h.scope) \cup {h} /\ h \notin Sited(H, h.scope)
      BY <2>1 DEF Sited
    <3> QED
      BY <1>1, <2>1, <3>1, CensusAt, FS_AddElement
  <2>2. CASE d = -1
    <3>1. Sited(G, h.scope) = Sited(H, h.scope) \ {h} /\ h \in Sited(H, h.scope)
      BY <2>2 DEF Sited
    <3> QED
      BY <1>1, <2>2, <3>1, CensusAt, FS_RemoveElement
  <2> QED
    BY <2>1, <2>2
<1>3. \A s : s # h.scope => InCensus(G, s) = InCensus(H, s)
  <2> SUFFICES ASSUME NEW s, s # h.scope PROVE InCensus(G, s) = InCensus(H, s)
    OBVIOUS
  <2>1. Sited(G, s) = Sited(H, s)
    BY DEF Sited
  <2> QED
    BY <1>1, <2>1, CensusAt
<1>4. \A s : (s \in DOMAIN A <=> s \in DOMAIN Census(G)) /\ (s \in DOMAIN A => A[s] = Census(G)[s])
  <2> TAKE s
  <2> DEFINE p == Put(Census(H), h.scope, InCensus(H, h.scope) + d)
  <2>1. /\ s \in DOMAIN A <=> s \in DOMAIN p /\ p[s] # 0
        /\ s \in DOMAIN A => A[s] = p[s]
    BY WithoutAt
  <2>2. CASE s = h.scope
    <3>1. s \in DOMAIN p /\ p[s] = InCensus(G, s)
      BY <1>2, <2>2 DEF Put
    <3>2. s \in DOMAIN Census(G) <=> InCensus(G, s) # 0
      BY <1>1, CensusAt
    <3>3. s \in DOMAIN Census(G) => Census(G)[s] = InCensus(G, s)
      BY DEF InCensus
    <3> QED
      BY <2>1, <3>1, <3>2, <3>3
  <2>3. CASE s # h.scope
    <3>1. /\ s \in DOMAIN p <=> s \in DOMAIN Census(H)
          /\ s \in DOMAIN p => p[s] = Census(H)[s]
      BY <2>3 DEF Put
    <3>2. /\ s \in DOMAIN Census(G) <=> InCensus(G, s) # 0
          /\ s \in DOMAIN Census(H) <=> InCensus(H, s) # 0
      BY <1>1, CensusAt
    <3>3. /\ s \in DOMAIN Census(G) => Census(G)[s] = InCensus(G, s)
          /\ s \in DOMAIN Census(H) => Census(H)[s] = InCensus(H, s)
      BY DEF InCensus
    <3>4. InCensus(G, s) = InCensus(H, s)
      BY <1>3, <2>3
    <3> QED
      BY <2>1, <3>1, <3>2, <3>3, <3>4
  <2> QED
    BY <2>2, <2>3
<1>5. A = [j \in DOMAIN A |-> A[j]] /\ Census(G) = [j \in DOMAIN Census(G) |-> Census(G)[j]]
  BY DEF Without, Census
<1> SUFFICES A = Census(G)
  OBVIOUS
<1> HIDE DEF A
<1>6. DOMAIN A = DOMAIN Census(G)
  BY <1>4
<1> QED
  BY <1>4, <1>5, <1>6, SameFunction

\* The counts kept by writes stay the census of the open holds.
LEMMA CountsStayOK ==
    ASSUME NEW v, WF(v), NEW e, e.seq = v.len + 1, NEW es, NEW w,
           FoldChanges(v, e, es, w), CheckHolds(v, e, es)
    PROVE  Counted(w) = Census(OpenHolds(w))
<1>1. /\ IsFiniteSet(OpenHolds(v)) /\ Counted(v) = Census(OpenHolds(v))
  BY DEF WF, HoldsOK
<1>2. Look(v, "counts", e.scope, 0) = InCensus(OpenHolds(v), e.scope)
  BY <1>1, LooksCounted DEF InCensus
<1>3. w.base = v.base
  BY DEF FoldChanges
<1>4. ASSUME NEW h, h.scope = e.scope, NEW d, d \in {1, -1},
             w.counts = Put(v.counts, e.scope, Look(v, "counts", e.scope, 0) + d),
             d = 1 => h \notin OpenHolds(v) /\ OpenHolds(w) = OpenHolds(v) \cup {h},
             d = -1 => h \in OpenHolds(v) /\ OpenHolds(w) = OpenHolds(v) \ {h}
      PROVE  Counted(w) = Census(OpenHolds(w))
  <2> DEFINE n == InCensus(OpenHolds(v), e.scope) + d
  <2>1. Counted(w) = Without(Over(Put(v.counts, e.scope, n), v.base.counts), 0)
    BY <1>2, <1>3, <1>4 DEF Counted
  <2> HIDE DEF n
  <2>2. Counted(w) = Without(Put(Over(v.counts, v.base.counts), e.scope, n), 0)
    BY <2>1, OverPut
  <2>3. Counted(w) = Without(Put(Counted(v), e.scope, n), 0)
    BY <2>2, WithoutPut DEF Counted
  <2>4. Counted(w) = Without(Put(Census(OpenHolds(v)), h.scope,
                                 InCensus(OpenHolds(v), h.scope) + d), 0)
    BY <1>1, <1>4, <2>3 DEF n
  <2> QED
    BY <1>1, <1>4, <2>4, CensusKept
<1>5. CASE e.type = "HOLD"
  <2>1. w.counts = Put(v.counts, e.scope, Look(v, "counts", e.scope, 0) + 1)
    BY <1>5 DEF FoldChanges, HoldsChanges
  <2>2. /\ Placed(e) \notin OpenHolds(v) /\ OpenHolds(w) = OpenHolds(v) \cup {Placed(e)}
        /\ Placed(e).scope = e.scope
    BY <1>5, HoldsAfter DEF Placed
  <2>3. 1 \in {1, -1} /\ 1 # -1
    OBVIOUS
  <2> QED
    BY <1>4, <2>1, <2>2, <2>3
<1>6. CASE e.type = "HOLD_VOID"
  <2>1. w.counts = Put(v.counts, e.scope, Look(v, "counts", e.scope, 0) + (-1))
    BY <1>6 DEF FoldChanges, HoldsChanges
  <2>2. /\ Closing(v, e) \in OpenHolds(v) /\ OpenHolds(w) = OpenHolds(v) \ {Closing(v, e)}
        /\ Closing(v, e).scope = e.scope
    BY <1>6, HoldsAfter
  <2>3. -1 \in {1, -1} /\ -1 # 1
    OBVIOUS
  <2> QED
    BY <1>4, <2>1, <2>2, <2>3
<1>7. CASE e.type \notin {"HOLD", "HOLD_VOID"}
  <2>1. w.counts = v.counts
    BY <1>7 DEF FoldChanges, HoldsChanges
  <2>2. OpenHolds(w) = OpenHolds(v)
    BY <1>7, HoldsAfter
  <2> QED
    BY <1>1, <1>3, <2>1, <2>2 DEF Counted
<1> QED
  BY <1>5, <1>6, <1>7

----------------------------------------------------------------------------
(* The tree of scopes *)

AddedTo(v, s) == IF s \in DOMAIN v.children THEN v.children[s] ELSE {}
Before(v, s)  == IF s \in DOMAIN v.base.nodes THEN v.base.nodes[s] ELSE v.nodes[s]

\* What a view says of a scope: its place from below, its allocation as staged.
LEMMA MergedAt ==
    ASSUME NEW v, NodesOK(v)
    PROVE  LET M == MergedNodes(v) IN
           /\ M = [s \in DOMAIN M |-> M[s]]
           /\ \A s : s \in DOMAIN M <=> Known(v, s)
           /\ \A s \in DOMAIN M :
                /\ DOMAIN M[s] = NodeFields
                /\ M[s] = [f \in NodeFields |-> M[s][f]]
                /\ DOMAIN Node(v, s) = NodeFields
                /\ M[s].parent = Node(v, s).parent /\ M[s].depth = Node(v, s).depth
                /\ M[s].amt = Node(v, s).amt
                /\ M[s].children = Before(v, s).children \cup AddedTo(v, s)
<1> DEFINE M == MergedNodes(v)
<1>1. M = [s \in DOMAIN v.nodes \cup DOMAIN v.base.nodes |->
             [Before(v, s) EXCEPT !.amt = Node(v, s).amt,
                                  !.children = @ \cup AddedTo(v, s)]]
  BY DEF MergedNodes, Before, AddedTo
<1> HIDE DEF M
<1>2. M = [s \in DOMAIN M |-> M[s]] /\ DOMAIN M = DOMAIN v.nodes \cup DOMAIN v.base.nodes
  BY <1>1
<1>3. \A s : s \in DOMAIN M <=> Known(v, s)
  BY <1>2 DEF Known
<1>4. ASSUME NEW s \in DOMAIN M
      PROVE  /\ DOMAIN M[s] = NodeFields
             /\ M[s] = [f \in NodeFields |-> M[s][f]]
             /\ DOMAIN Node(v, s) = NodeFields
             /\ M[s].parent = Node(v, s).parent /\ M[s].depth = Node(v, s).depth
             /\ M[s].amt = Node(v, s).amt
             /\ M[s].children = Before(v, s).children \cup AddedTo(v, s)
  <2>1. M[s] = [Before(v, s) EXCEPT !.amt = Node(v, s).amt, !.children = @ \cup AddedTo(v, s)]
    BY <1>1, <1>2
  <2>2. DOMAIN Before(v, s) = NodeFields
    BY <1>2 DEF Before, NodesOK
  <2>3. /\ DOMAIN Node(v, s) = NodeFields
        /\ Before(v, s).parent = Node(v, s).parent /\ Before(v, s).depth = Node(v, s).depth
    BY <1>2 DEF Before, NodesOK, Node, Look
  <2>4. /\ DOMAIN M[s] = NodeFields
        /\ M[s] = [f \in NodeFields |-> M[s][f]]
        /\ M[s].parent = Before(v, s).parent /\ M[s].depth = Before(v, s).depth
        /\ M[s].amt = Node(v, s).amt
        /\ M[s].children = Before(v, s).children \cup AddedTo(v, s)
    BY <2>1, <2>2 DEF NodeFields
  <2> QED
    BY <2>3, <2>4
<1> QED
  BY <1>2, <1>3, <1>4 DEF M

\* The node an entry makes of the tree before it, and the tree after it.
NodeMade(M, e) ==
    IF e.scope \in DOMAIN M THEN [M[e.scope] EXCEPT !.amt = @ + e.amt]
    ELSE [parent |-> e.cpty, amt |-> e.amt, children |-> {},
          depth |-> IF e.cpty = None THEN 0
                    ELSE (IF e.cpty \in DOMAIN M THEN M[e.cpty].depth ELSE None.depth) + 1]

NodesAfter(M, e) ==
    IF ~Creates(e) THEN M
    ELSE [s \in DOMAIN M \cup {e.scope} |->
            IF s = e.scope THEN NodeMade(M, e)
            ELSE IF s = e.cpty /\ e.type = "ALLOCATION"
              THEN [M[s] EXCEPT !.children = @ \cup {e.scope}]
            ELSE M[s]]

\* Creating a scope is refused if there is one, funding more is not; a parent
\* is known.
LEMMA CreatesRightly ==
    ASSUME NEW v, NEW e, CheckGovernance(v, e), Creates(e)
    PROVE  e.type = "ALLOCATION" => ~Known(v, e.scope) /\ Known(v, e.cpty) /\ e.cpty # e.scope
  BY DEF CheckGovernance, Creates

\* A staged node keeps the parent and the depth of the one under it.
LEMMA NodesStayOK ==
    ASSUME NEW v, NodesOK(v), NEW e, CheckGovernance(v, e), NEW w,
           w.base = v.base, GovernanceChanges(v, e, w)
    PROVE  NodesOK(w)
<1>1. CASE ~Creates(e)
  <2>1. w.nodes = v.nodes /\ w.children = v.children
    BY <1>1 DEF GovernanceChanges
  <2> QED
    BY <2>1 DEF NodesOK
<1>2. CASE Creates(e)
  <2> DEFINE made == CreatedNode(v, e)
  <2>1. /\ w.nodes = Put(v.nodes, e.scope, made)
        /\ DOMAIN w.children \subseteq DOMAIN v.children \cup
              (IF e.type = "ALLOCATION" THEN {e.cpty} ELSE {})
    BY <1>2 DEF GovernanceChanges, Put
  <2>2. /\ DOMAIN made = NodeFields
        /\ Known(v, e.scope) => made.parent = Node(v, e.scope).parent
                                /\ made.depth = Node(v, e.scope).depth
    <3>1. CASE ~Known(v, e.scope)
      BY <3>1 DEF CreatedNode, NodeFields
    <3>2. CASE Known(v, e.scope)
      <4>1. DOMAIN Node(v, e.scope) = NodeFields
        BY <3>2, MergedAt
      <4> QED
        BY <3>2, <4>1 DEF CreatedNode, NodeFields
    <3> QED
      BY <3>1, <3>2
  <2> HIDE DEF made
  <2>3. /\ DOMAIN w.nodes = DOMAIN v.nodes \cup {e.scope}
        /\ w.nodes[e.scope] = made
        /\ \A s \in DOMAIN v.nodes : s # e.scope => w.nodes[s] = v.nodes[s]
    BY <2>1 DEF Put
  <2>4. \A s \in DOMAIN w.nodes : DOMAIN w.nodes[s] = NodeFields
    BY <2>2, <2>3 DEF NodesOK
  <2>5. e.scope \in DOMAIN v.base.nodes =>
          /\ made.parent = v.base.nodes[e.scope].parent
          /\ made.depth = v.base.nodes[e.scope].depth
    BY <2>2 DEF NodesOK, Known, Node, Look
  <2>6. \A s \in DOMAIN w.nodes \cap DOMAIN w.base.nodes :
          /\ w.nodes[s].parent = w.base.nodes[s].parent
          /\ w.nodes[s].depth = w.base.nodes[s].depth
    BY <2>3, <2>5 DEF NodesOK
  <2>7. DOMAIN w.children \subseteq DOMAIN w.nodes \cup DOMAIN w.base.nodes
    BY <1>2, <2>1, <2>3, CreatesRightly DEF NodesOK, Known
  <2> QED
    BY <2>4, <2>6, <2>7 DEF NodesOK
<1> QED
  BY <1>1, <1>2

\* A staged entry changes the merged nodes as it would change whole ones.
LEMMA NodesMerge ==
    ASSUME NEW v, NodesOK(v), NEW e, CheckGovernance(v, e), NEW w,
           w.base = v.base, GovernanceChanges(v, e, w)
    PROVE  MergedNodes(w) = NodesAfter(MergedNodes(v), e)
<1> DEFINE M == MergedNodes(v)
           N == MergedNodes(w)
<1>0. NodesOK(w)
  BY NodesStayOK
<1>1. CASE ~Creates(e)
  <2>1. w.nodes = v.nodes /\ w.children = v.children
    BY <1>1 DEF GovernanceChanges
  <2>2. N = M
    BY <2>1 DEF MergedNodes, Node, Look
  <2> QED
    BY <1>1, <2>2 DEF NodesAfter
<1>2. CASE Creates(e)
  <2> DEFINE made == CreatedNode(v, e)
             A == NodesAfter(M, e)
  <2>1. /\ M = [s \in DOMAIN M |-> M[s]]
        /\ \A s : s \in DOMAIN M <=> Known(v, s)
        /\ \A s \in DOMAIN M :
             /\ DOMAIN M[s] = NodeFields
             /\ M[s] = [f \in NodeFields |-> M[s][f]]
             /\ DOMAIN Node(v, s) = NodeFields
             /\ M[s].parent = Node(v, s).parent /\ M[s].depth = Node(v, s).depth
             /\ M[s].amt = Node(v, s).amt
             /\ M[s].children = Before(v, s).children \cup AddedTo(v, s)
    BY MergedAt
  <2>2. /\ N = [s \in DOMAIN N |-> N[s]]
        /\ \A s : s \in DOMAIN N <=> Known(w, s)
        /\ \A s \in DOMAIN N :
             /\ DOMAIN N[s] = NodeFields
             /\ N[s] = [f \in NodeFields |-> N[s][f]]
             /\ N[s].parent = Node(w, s).parent /\ N[s].depth = Node(w, s).depth
             /\ N[s].amt = Node(w, s).amt
             /\ N[s].children = Before(w, s).children \cup AddedTo(w, s)
    BY <1>0, MergedAt
  <2> HIDE DEF M, N
  <2>3. /\ A = [s \in DOMAIN M \cup {e.scope} |->
                  IF s = e.scope THEN NodeMade(M, e)
                  ELSE IF s = e.cpty /\ e.type = "ALLOCATION"
                    THEN [M[s] EXCEPT !.children = @ \cup {e.scope}]
                  ELSE M[s]]
    BY <1>2 DEF NodesAfter
  <2> HIDE DEF A
  <2>4. /\ w.nodes = Put(v.nodes, e.scope, made)
        /\ w.children = IF e.type = "ALLOCATION"
                          THEN Put(v.children, e.cpty, {e.scope} \cup AddedTo(v, e.cpty))
                          ELSE v.children
    BY <1>2 DEF GovernanceChanges, AddedTo
  <2> HIDE DEF made
  <2>5. \A s : /\ Known(w, s) <=> Known(v, s) \/ s = e.scope
               /\ Node(w, s) = IF s = e.scope THEN made ELSE Node(v, s)
    BY <2>4 DEF Known, Node, Look, Put
  <2>6. \A s : AddedTo(w, s) = IF e.type = "ALLOCATION" /\ s = e.cpty
                                 THEN {e.scope} \cup AddedTo(v, s) ELSE AddedTo(v, s)
    BY <2>4 DEF AddedTo, Put
  <2>7. \A s : s # e.scope /\ Known(v, s) => Before(w, s) = Before(v, s)
    BY <2>4 DEF Before, Put, Known
  <2>8. DOMAIN N = DOMAIN A
    <3>1. \A s : s \in DOMAIN N <=> s \in DOMAIN A
      BY <2>1, <2>2, <2>3, <2>5
    <3> QED
      BY <3>1
  <2>9. /\ Known(v, e.scope) =>
             /\ made.parent = Node(v, e.scope).parent
             /\ made.depth = Node(v, e.scope).depth
             /\ made.amt = Node(v, e.scope).amt + e.amt
             /\ made.children = Node(v, e.scope).children
        /\ ~Known(v, e.scope) =>
             /\ made.parent = e.cpty /\ made.amt = e.amt /\ made.children = {}
             /\ made.depth = IF e.cpty = None THEN 0 ELSE Node(v, e.cpty).depth + 1
    BY <2>1 DEF made, CreatedNode, NodeFields
  <2>10. NodeMade(M, e) = N[e.scope]
    <3> DEFINE n == N[e.scope]
    <3>0. /\ e.scope \in DOMAIN N /\ DOMAIN n = NodeFields
          /\ n = [f \in NodeFields |-> n[f]]
          /\ n.parent = made.parent /\ n.depth = made.depth /\ n.amt = made.amt
          /\ n.children = Before(w, e.scope).children \cup AddedTo(w, e.scope)
      BY <2>2, <2>5
    <3> HIDE DEF n
    <3>1. CASE Known(v, e.scope)
      <4>1. e.type # "ALLOCATION"
        BY <1>2, <3>1, CreatesRightly
      <4> DEFINE o == M[e.scope]
      <4>2. /\ e.scope \in DOMAIN M /\ DOMAIN o = NodeFields
            /\ NodeMade(M, e) = [o EXCEPT !.amt = @ + e.amt]
        BY <2>1, <3>1 DEF NodeMade
      <4>3. Before(w, e.scope).children = Before(v, e.scope).children
        <5>1. CASE e.scope \in DOMAIN v.base.nodes
          BY <5>1 DEF Before
        <5>2. CASE e.scope \notin DOMAIN v.base.nodes
          <6>1. /\ Before(w, e.scope) = made
                /\ Before(v, e.scope) = Node(v, e.scope)
            BY <2>4, <3>1, <5>2 DEF Before, Put, Known, Node, Look
          <6> QED
            BY <2>9, <3>1, <6>1
        <5> QED
          BY <5>1, <5>2
      <4>4. AddedTo(w, e.scope) = AddedTo(v, e.scope)
        BY <2>6, <4>1
      <4>5. /\ n.parent = o.parent /\ n.depth = o.depth /\ n.amt = o.amt + e.amt
            /\ n.children = o.children
        BY <2>1, <2>9, <3>0, <3>1, <4>2, <4>3, <4>4
      <4> HIDE DEF o
      <4>6. n = [o EXCEPT !.amt = @ + e.amt]
        BY <3>0, <4>2, <4>5 DEF NodeFields
      <4> QED
        BY <4>2, <4>6 DEF n
    <3>2. CASE ~Known(v, e.scope)
      <4>1. e.scope \notin DOMAIN M
        BY <2>1, <3>2
      <4>2. /\ Before(w, e.scope) = made
            /\ AddedTo(w, e.scope) = {}
        <5>1. Before(w, e.scope) = made
          BY <2>4, <3>2 DEF Before, Put, Known
        <5>2. e.scope \notin DOMAIN v.children
          BY <3>2 DEF NodesOK, Known
        <5>3. ~(e.type = "ALLOCATION" /\ e.scope = e.cpty)
          BY <1>2, CreatesRightly
        <5> QED
          BY <2>6, <5>1, <5>2, <5>3 DEF AddedTo
      <4>3. Node(v, e.cpty).depth = IF e.cpty \in DOMAIN M THEN M[e.cpty].depth ELSE None.depth
        BY <2>1 DEF Known, Node, Look
      <4> DEFINE d == IF e.cpty = None THEN 0
                      ELSE (IF e.cpty \in DOMAIN M THEN M[e.cpty].depth ELSE None.depth) + 1
      <4>4. NodeMade(M, e) = [parent |-> e.cpty, amt |-> e.amt, children |-> {}, depth |-> d]
        BY <4>1 DEF NodeMade
      <4>5. n.parent = e.cpty /\ n.amt = e.amt /\ n.children = {} /\ n.depth = d
        BY <2>9, <3>0, <3>2, <4>2, <4>3
      <4> HIDE DEF d
      <4>6. n = [parent |-> e.cpty, amt |-> e.amt, children |-> {}, depth |-> d]
        BY <3>0, <4>5 DEF NodeFields
      <4> QED
        BY <4>4, <4>6 DEF n
    <3> QED
      BY <3>1, <3>2
  <2>11. ASSUME NEW s \in DOMAIN N, s # e.scope
         PROVE  N[s] = A[s]
    <3> DEFINE n == N[s]
               o == M[s]
    <3>1. /\ s \in DOMAIN M /\ DOMAIN n = NodeFields /\ DOMAIN o = NodeFields
          /\ n = [f \in NodeFields |-> n[f]] /\ o = [f \in NodeFields |-> o[f]]
          /\ n.parent = o.parent /\ n.depth = o.depth /\ n.amt = o.amt
          /\ n.children = Before(v, s).children \cup AddedTo(w, s)
          /\ o.children = Before(v, s).children \cup AddedTo(v, s)
      BY <2>1, <2>2, <2>5, <2>7, <2>11
    <3>2. A[s] = IF s = e.cpty /\ e.type = "ALLOCATION"
                   THEN [o EXCEPT !.children = @ \cup {e.scope}] ELSE o
      BY <2>3, <2>8, <2>11
    <3>3. n.children = IF s = e.cpty /\ e.type = "ALLOCATION"
                         THEN o.children \cup {e.scope} ELSE o.children
      BY <2>6, <3>1
    <3> HIDE DEF n, o
    <3>4. CASE s = e.cpty /\ e.type = "ALLOCATION"
      <4>1. n = [o EXCEPT !.children = @ \cup {e.scope}]
        BY <3>1, <3>3, <3>4 DEF NodeFields
      <4> QED
        BY <3>2, <3>4, <4>1 DEF n
    <3>5. CASE ~(s = e.cpty /\ e.type = "ALLOCATION")
      <4>1. n = o
        BY <3>1, <3>3, <3>5 DEF NodeFields
      <4> QED
        BY <3>2, <3>5, <4>1 DEF n
    <3> QED
      BY <3>4, <3>5
  <2>12. A[e.scope] = NodeMade(M, e)
    BY <2>3
  <2>13. A = [s \in DOMAIN A |-> A[s]]
    BY <2>3
  <2>14. N = A
    BY <2>2, <2>8, <2>10, <2>11, <2>12, <2>13, SameFunction
  <2> QED
    BY <2>14 DEF N, M, A
<1> QED
  BY <1>1, <1>2

----------------------------------------------------------------------------
(* Alike views accept the same entries, and stay alike *)

\* The sum over no places is zero.
LEMMA SumOfNothing == ASSUME NEW f PROVE SumFunctionOnSet(f, {}) = 0
  BY FS_EmptySet, SumStep

\* What refunds have returned of a spend, looked up in all the view knows.
LEMMA RefundsLook ==
    ASSUME NEW v, v.keeps \in BOOLEAN, NEW es, NEW r, r # 0
    PROVE  RefundedOf(v, r, es) = IF r \in DOMAIN Refunds(v, es) THEN Refunds(v, es)[r] ELSE 0
<1>1. CASE r \in DOMAIN v.spendRefunds
  BY <1>1 DEF RefundedOf, Refunds, Over
<1>2. CASE r \notin DOMAIN v.spendRefunds /\ v.keeps
  <2> DEFINE n == v.base.len
             H == HistoryRefunds(es, n)
             named == {i \in 1..n : es[i].type = "REVERSAL" /\ es[i].ref = r}
  <2>1. RefundedOf(v, r, es) = RefundsIn(es, n, r)
    BY <1>2 DEF RefundedOf
  <2>2. Refunds(v, es) = Over(v.spendRefunds, H)
    BY <1>2 DEF Refunds
  <2>3. r \in DOMAIN H <=> named # {}
    BY DEF HistoryRefunds
  <2>4. r \in DOMAIN H => H[r] = RefundsIn(es, n, r)
    BY DEF HistoryRefunds
  <2>5. named = {} => RefundsIn(es, n, r) = 0
    <3> SUFFICES ASSUME named = {} PROVE RefundsIn(es, n, r) = 0
      OBVIOUS
    <3> DEFINE f == [i \in DOMAIN es |-> es[i].amt]
    <3>1. RefundsIn(es, n, r) = SumFunctionOnSet(f, named)
      BY DEF RefundsIn
    <3> HIDE DEF f, named
    <3> QED
      BY <3>1, SumOfNothing
  <2> HIDE DEF H, named
  <2> QED
    BY <1>2, <2>1, <2>2, <2>3, <2>4, <2>5, OverAt
<1>3. CASE r \notin DOMAIN v.spendRefunds /\ ~v.keeps
  BY <1>3 DEF RefundedOf, Refunds, Over, Look
<1> QED
  BY <1>1, <1>2, <1>3

\* Numbered, of a transaction begun by then, and its amounts natural.
IsEntry(e) == e.seq \in Nat /\ e.txn \in 1..e.seq /\ e.amt \in Nat /\ e.ref \in Nat

\* A view that accepts an entry and folds it stays well formed.
LEMMA FoldStaysWF ==
    ASSUME NEW v, WF(v), NEW e, IsEntry(e), NEW es, NEW writing, Accepts(v, e, es, writing)
    PROVE  WF(Fold(v, e, es))
<1> DEFINE w == Fold(v, e, es)
<1>1. DOMAIN w = ViewFields /\ FoldChanges(v, e, es, w)
  BY FoldFields DEF WF
<1> HIDE DEF w
<1>2. e.seq = v.len + 1 /\ CheckHolds(v, e, es) /\ CheckGovernance(v, e)
  BY DEF Accepts
<1>3. w.len = e.seq /\ w.txn = e.txn /\ w.base = v.base /\ w.keeps = v.keeps
  BY <1>1 DEF FoldChanges, PositionChanges
<1>4. HoldsOK(w) /\ Counted(w) = Census(OpenHolds(w))
  BY <1>1, <1>2, HoldsStayOK, CountsStayOK
<1>5. NodesOK(w)
  <2>1. GovernanceChanges(v, e, w)
    BY <1>1 DEF FoldChanges
  <2> QED
    BY <1>2, <1>3, <2>1, NodesStayOK DEF WF
<1>6. /\ w.len \in Nat /\ w.base.len \in 0..w.len /\ w.txn \in 0..w.len
      /\ w.keeps \in BOOLEAN
  BY <1>2, <1>3 DEF WF, IsEntry
<1> QED
  BY <1>1, <1>4, <1>5, <1>6 DEF WF, w

\* All the lookups the rules make agree.
LEMMA LookupsAlike ==
    ASSUME NEW v, NEW w, NEW es, NEW fs, WF(v), WF(w), Alike(v, es, w, fs)
    PROVE  /\ \A f \in {"bal", "spent", "refunded"} : \A k, d : Look(v, f, k, d) = Look(w, f, k, d)
           /\ \A s : Known(v, s) <=> Known(w, s)
           /\ \A s : Known(v, s) => Node(v, s).parent = Node(w, s).parent
           /\ OpenHolds(v) = OpenHolds(w)
           /\ \A r : r # 0 => RefundedOf(v, r, es) = RefundedOf(w, r, fs)
<1>1. \A f \in {"bal", "spent", "refunded"} : \A k, d : Look(v, f, k, d) = Look(w, f, k, d)
  <2> TAKE f \in {"bal", "spent", "refunded"}
  <2> TAKE k, d
  <2>1. Over(v[f], v.base[f]) = Over(w[f], w.base[f])
    BY DEF Alike
  <2> QED
    BY <2>1, Looks
<1>2. /\ \A s : Known(v, s) <=> Known(w, s)
      /\ \A s : Known(v, s) => Node(v, s).parent = Node(w, s).parent
  <2>1. MergedNodes(v) = MergedNodes(w) /\ NodesOK(v) /\ NodesOK(w)
    BY DEF Alike, WF
  <2>2. /\ \A s : s \in DOMAIN MergedNodes(v) <=> Known(v, s)
        /\ \A s \in DOMAIN MergedNodes(v) : MergedNodes(v)[s].parent = Node(v, s).parent
    BY <2>1, MergedAt
  <2>3. /\ \A s : s \in DOMAIN MergedNodes(w) <=> Known(w, s)
        /\ \A s \in DOMAIN MergedNodes(w) : MergedNodes(w)[s].parent = Node(w, s).parent
    BY <2>1, MergedAt
  <2> QED
    BY <2>1, <2>2, <2>3
<1>3. \A r : r # 0 => RefundedOf(v, r, es) = RefundedOf(w, r, fs)
  <2> SUFFICES ASSUME NEW r, r # 0 PROVE RefundedOf(v, r, es) = RefundedOf(w, r, fs)
    OBVIOUS
  <2>1. Refunds(v, es) = Refunds(w, fs) /\ v.keeps \in BOOLEAN /\ w.keeps \in BOOLEAN
    BY DEF Alike, WF
  <2> QED
    BY <2>1, RefundsLook
<1>4. OpenHolds(v) = OpenHolds(w)
  BY DEF Alike
<1> QED
  BY <1>1, <1>2, <1>3, <1>4

\* Both views meet the entry in the same place of the same transaction, or at
\* the start of one, with the same legacy events or an entry that folds none.
Meets(v, w, e) ==
    /\ Settleable(v, e) = Settleable(w, e)
    /\ e.txn = v.txn <=> e.txn = w.txn
    /\ v.legacy = w.legacy \/ e.ver = 1

\* A spend a refund names among es is among fs.
FoundIn(es, fs, e) ==
    e.type = "REVERSAL" /\ e.ref # 0 => \A s \in Range(es) : s.seq = e.ref => s \in Range(fs)

\* What a view accepts, writing or not, a replay with an alike view accepts.
LEMMA AcceptsAlike ==
    ASSUME NEW v, NEW w, NEW es, NEW fs, NEW e, NEW writing,
           WF(v), WF(w), Alike(v, es, w, fs), Meets(v, w, e),
           Accepts(v, e, es, writing), e.ref \in Nat,
           FoundIn(es, fs, e)
    PROVE  Accepts(w, e, fs, FALSE)
<1>1. /\ \A f \in {"bal", "spent", "refunded"} : \A k, d : Look(v, f, k, d) = Look(w, f, k, d)
      /\ \A s : Known(v, s) <=> Known(w, s)
      /\ \A s : Known(v, s) => Node(v, s).parent = Node(w, s).parent
      /\ OpenHolds(v) = OpenHolds(w)
      /\ \A r : r # 0 => RefundedOf(v, r, es) = RefundedOf(w, r, fs)
  BY LookupsAlike
<1>2. /\ v.len = w.len /\ v.sawV1 = w.sawV1 /\ v.sawV2 = w.sawV2 /\ v.sawV3 = w.sawV3
      /\ v.seal = w.seal /\ v.checkpoint = w.checkpoint /\ v.legacyApplied = w.legacyApplied
      /\ v.net = w.net
  BY DEF Alike, Whole
<1>3. e.seq = w.len + 1
  BY <1>2 DEF Accepts
<1>4. CheckVersion(w, e)
  BY <1>2 DEF Accepts, CheckVersion
<1>5. CheckShape(w, e)
  BY <1>2 DEF Accepts, CheckShape
<1>6. CheckTransaction(w, e)
  BY <1>2 DEF Accepts, CheckTransaction, Meets
<1>7. CheckBalance(w, e)
  BY <1>1 DEF Accepts, CheckBalance, Balance
<1>8. CheckHolds(w, e, fs)
  <2>1. CheckHolds(v, e, es)
    BY DEF Accepts
  <2>2. e.ref # 0 => e.type \in Referencing(e.ver)
    BY <2>1 DEF CheckHolds
  <2>3. e.type = "HOLD_VOID" =>
          \E h \in OpenHolds(w) : Key(h) = Key(e) /\ (e.ver # 1 => h.id = e.ref)
    BY <1>1, <2>1 DEF CheckHolds
  <2>4. e.type = "SPEND" /\ e.ref # 0 => e.ref \in Settleable(w, e)
    BY <2>1 DEF CheckHolds, Meets
  <2>5. e.type = "REVERSAL" /\ e.ref # 0 =>
          \E s \in Range(fs) :
             /\ s.seq = e.ref /\ s.type = "SPEND" /\ s.scope = e.scope
             /\ RefundedOf(w, e.ref, fs) + e.amt <= s.amt
    BY <1>1, <2>1 DEF CheckHolds, FoundIn
  <2> QED
    BY <2>2, <2>3, <2>4, <2>5 DEF CheckHolds
<1>9. CheckFlows(w, e, FALSE)
  BY <1>1 DEF Accepts, CheckFlows
<1>10. CheckGovernance(w, e)
  <2>1. CheckGovernance(v, e)
    BY DEF Accepts
  <2>2. FoldsLegacy(w, e) <=> FoldsLegacy(v, e)
    BY <1>2 DEF FoldsLegacy
  <2>3. FoldsLegacy(w, e) =>
          /\ IF e.type = "SEAL" THEN e.memo = w.legacy ELSE w.legacy = <<>>
          /\ \A i \in DOMAIN w.legacy : Known(w, w.legacy[i].scope)
    <3>1. FoldsLegacy(w, e) => v.legacy = w.legacy
      BY DEF FoldsLegacy, Meets
    <3>2. FoldsLegacy(v, e) =>
            /\ IF e.type = "SEAL" THEN e.memo = v.legacy ELSE v.legacy = <<>>
            /\ \A i \in DOMAIN v.legacy : Known(v, v.legacy[i].scope)
      BY <2>1 DEF CheckGovernance
    <3> QED
      BY <1>1, <2>2, <3>1, <3>2
  <2>4. e.type = "FUNDING" => ~Known(w, e.scope) \/ Node(w, e.scope).parent = None
    BY <1>1, <2>1 DEF CheckGovernance
  <2>5. e.type = "ALLOCATION" =>
          IF e.dir = "DEBIT" THEN Known(w, e.scope) ELSE ~Known(w, e.scope) /\ Known(w, e.cpty)
    BY <1>1, <2>1 DEF CheckGovernance
  <2>6. e.type = "RELEASE" =>
          LET child  == IF e.dir = "DEBIT" THEN e.scope ELSE e.cpty
              parent == IF e.dir = "DEBIT" THEN e.cpty ELSE e.scope
          IN Known(w, e.scope) /\ Known(w, child) /\ Node(w, child).parent = parent
    BY <1>1, <2>1 DEF CheckGovernance
  <2>7. e.type \notin {"FUNDING", "ALLOCATION", "RELEASE"} \cup Scopeless => Known(w, e.scope)
    BY <1>1, <2>1 DEF CheckGovernance
  <2> QED
    BY <2>3, <2>4, <2>5, <2>6, <2>7 DEF CheckGovernance
<1> QED
  BY <1>3, <1>4, <1>5, <1>6, <1>7, <1>8, <1>9, <1>10 DEF Accepts

\* What two alike views have in common after an entry.
Stepped(v, es, w, fs, e, x, y) ==
    /\ Alike(x, es, y, fs)
    /\ x.txn = e.txn /\ y.txn = e.txn /\ x.settleable = y.settleable
    /\ x.legacy = v.legacy /\ y.legacy = w.legacy
    /\ x.base = v.base /\ y.base = w.base /\ x.keeps = v.keeps /\ y.keeps = w.keeps

\* Alike views that fold the same entry are alike after it.
LEMMA FoldAlike ==
    ASSUME NEW v, NEW w, NEW es, NEW fs, NEW e, NEW writing,
           WF(v), WF(w), Alike(v, es, w, fs), Meets(v, w, e),
           Accepts(v, e, es, writing), Accepts(w, e, fs, FALSE), IsEntry(e)
    PROVE  Stepped(v, es, w, fs, e, Fold(v, e, es), Fold(w, e, fs))
<1> DEFINE x == Fold(v, e, es)
           y == Fold(w, e, fs)
<1>1. /\ DOMAIN x = ViewFields /\ FoldChanges(v, e, es, x)
      /\ DOMAIN y = ViewFields /\ FoldChanges(w, e, fs, y)
  BY FoldFields DEF WF
<1>2. WF(x) /\ WF(y)
  BY FoldStaysWF
<1> HIDE DEF x, y
<1>3. /\ x.txn = e.txn /\ y.txn = e.txn /\ x.legacy = v.legacy /\ y.legacy = w.legacy
      /\ x.base = v.base /\ y.base = w.base /\ x.keeps = v.keeps /\ y.keeps = w.keeps
  BY <1>1 DEF FoldChanges
<1>4. /\ HoldsChanges(v, e, es, Settleable(v, e), x) /\ HoldsChanges(w, e, fs, Settleable(w, e), y)
      /\ MoneyChanges(v, e, x) /\ MoneyChanges(w, e, y)
      /\ GovernanceChanges(v, e, x) /\ GovernanceChanges(w, e, y)
      /\ PositionChanges(v, e, x) /\ PositionChanges(w, e, y)
  BY <1>1 DEF FoldChanges
<1>5. /\ \A f \in {"bal", "spent", "refunded"} : \A k, d : Look(v, f, k, d) = Look(w, f, k, d)
      /\ \A s : Known(v, s) <=> Known(w, s)
      /\ OpenHolds(v) = OpenHolds(w)
      /\ \A r : r # 0 => RefundedOf(v, r, es) = RefundedOf(w, r, fs)
  BY LookupsAlike
<1>6. /\ v.len = w.len /\ v.sawV1 = w.sawV1 /\ v.sawV2 = w.sawV2 /\ v.sawV3 = w.sawV3
      /\ v.seal = w.seal /\ v.checkpoint = w.checkpoint /\ v.legacyApplied = w.legacyApplied
      /\ v.net = w.net /\ v.funded = w.funded /\ v.spentAll = w.spentAll
      /\ v.reversed = w.reversed /\ v.held = w.held
  BY DEF Alike, Whole
<1>7. FoldsLegacy(v, e) <=> FoldsLegacy(w, e)
  BY <1>6 DEF FoldsLegacy
<1>8. Closing(v, e) = Closing(w, e)
  BY <1>5 DEF Closing
<1>9. e.seq = v.len + 1 /\ e.seq = w.len + 1 /\ CheckHolds(v, e, es) /\ CheckHolds(w, e, fs)
      /\ CheckGovernance(v, e) /\ CheckGovernance(w, e)
  BY DEF Accepts
<1>10. \A f \in Whole \ {"legacy"} : x[f] = y[f]
  <2>1. /\ x.len = y.len /\ x.sawV1 = y.sawV1 /\ x.sawV2 = y.sawV2 /\ x.sawV3 = y.sawV3
        /\ x.seal = y.seal /\ x.checkpoint = y.checkpoint
    BY <1>4, <1>6 DEF PositionChanges
  <2>2. x.funded = y.funded /\ x.spentAll = y.spentAll /\ x.reversed = y.reversed
    BY <1>4, <1>6 DEF MoneyChanges
  <2>3. x.held = y.held
    BY <1>4, <1>6 DEF MoneyChanges
  <2>4. x.legacyApplied = y.legacyApplied
    BY <1>4, <1>6, <1>7 DEF GovernanceChanges
  <2> QED
    BY <2>1, <2>2, <2>3, <2>4 DEF Whole
<1>11. x.net = y.net
  BY <1>4, <1>6 DEF PositionChanges
<1>12. OpenHolds(x) = OpenHolds(y)
  <2>1. OpenHolds(x) = IF e.type = "HOLD" THEN OpenHolds(v) \cup {Placed(e)}
                       ELSE IF e.type = "HOLD_VOID" THEN OpenHolds(v) \ {Closing(v, e)}
                       ELSE OpenHolds(v)
    BY <1>1, <1>9, HoldsAfter
  <2>2. OpenHolds(y) = IF e.type = "HOLD" THEN OpenHolds(w) \cup {Placed(e)}
                       ELSE IF e.type = "HOLD_VOID" THEN OpenHolds(w) \ {Closing(w, e)}
                       ELSE OpenHolds(w)
    BY <1>1, <1>9, HoldsAfter
  <2> QED
    BY <1>5, <1>8, <2>1, <2>2
<1>13. Marked(x) = Marked(y)
  <2>1. Marked(v) = Marked(w)
    BY DEF Alike
  <2>2. /\ x.ambiguous = IF e.type = "HOLD_VOID" /\ e.ver = 1 THEN v.ambiguous \cup {Key(e)}
                         ELSE v.ambiguous
        /\ y.ambiguous = IF e.type = "HOLD_VOID" /\ e.ver = 1 THEN w.ambiguous \cup {Key(e)}
                         ELSE w.ambiguous
    BY <1>4 DEF HoldsChanges
  <2> QED
    BY <1>3, <2>1, <2>2 DEF Marked
<1>14. MergedNodes(x) = MergedNodes(y)
  <2>1. MergedNodes(v) = MergedNodes(w) /\ NodesOK(v) /\ NodesOK(w)
    BY DEF Alike, WF
  <2>2. MergedNodes(x) = NodesAfter(MergedNodes(v), e)
    BY <1>3, <1>4, <1>9, <2>1, NodesMerge
  <2>3. MergedNodes(y) = NodesAfter(MergedNodes(w), e)
    BY <1>3, <1>4, <1>9, <2>1, NodesMerge
  <2> QED
    BY <2>1, <2>2, <2>3
<1>15. Halted(x) = Halted(y)
  <2> DEFINE ev == (IF FoldsLegacy(v, e) THEN v.legacy ELSE <<>>) \o ControlOf(e)
  <2>1. Halted(v) = Halted(w)
    BY DEF Alike
  <2>2. (IF FoldsLegacy(w, e) THEN w.legacy ELSE <<>>) \o ControlOf(e) = ev
    <3>1. FoldsLegacy(v, e) => v.legacy = w.legacy
      BY DEF FoldsLegacy, Meets
    <3>2. (IF FoldsLegacy(w, e) THEN w.legacy ELSE <<>>)
            = (IF FoldsLegacy(v, e) THEN v.legacy ELSE <<>>)
      BY <1>7, <3>1
    <3> QED
      BY <3>2
  <2>3. /\ x.tripped = Tripping(v.tripped, ev)
        /\ y.tripped = Tripping(w.tripped, ev)
    BY <1>4, <2>2 DEF GovernanceChanges
  <2> HIDE DEF ev
  <2>4. Halted(x) = Without(Tripping(Halted(v), ev), "RESET")
    BY <1>3, <2>3, TrippingOver DEF Halted
  <2>5. Halted(y) = Without(Tripping(Halted(w), ev), "RESET")
    BY <1>3, <2>3, TrippingOver DEF Halted
  <2> QED
    BY <2>1, <2>4, <2>5
<1>16. \A f \in {"bal", "spent", "refunded"} : Over(x[f], x.base[f]) = Over(y[f], y.base[f])
  <2>1. /\ Over(v.bal, v.base.bal) = Over(w.bal, w.base.bal)
        /\ Over(v.spent, v.base.spent) = Over(w.spent, w.base.spent)
        /\ Over(v.refunded, v.base.refunded) = Over(w.refunded, w.base.refunded)
    BY DEF Alike
  <2>2. Over(x.bal, x.base.bal) = Over(y.bal, y.base.bal)
    <3>1. /\ x.bal = IF e.type \in ZeroValue THEN v.bal ELSE Put(v.bal, e.scope, e.bal)
          /\ y.bal = IF e.type \in ZeroValue THEN w.bal ELSE Put(w.bal, e.scope, e.bal)
      BY <1>4 DEF MoneyChanges
    <3> QED
      BY <1>3, <2>1, <3>1, OverPut
  <2>3. Over(x.spent, x.base.spent) = Over(y.spent, y.base.spent)
    <3> DEFINE n == Look(v, "spent", e.scope, 0) + e.amt
    <3>1. /\ x.spent = IF e.type = "SPEND" THEN Put(v.spent, e.scope, n) ELSE v.spent
          /\ y.spent = IF e.type = "SPEND" THEN Put(w.spent, e.scope, n) ELSE w.spent
      BY <1>4, <1>5 DEF MoneyChanges
    <3> HIDE DEF n
    <3> QED
      BY <1>3, <2>1, <3>1, OverPut
  <2>4. Over(x.refunded, x.base.refunded) = Over(y.refunded, y.base.refunded)
    <3> DEFINE n == Look(v, "refunded", e.scope, 0) + e.amt
    <3>1. /\ x.refunded = IF e.type = "REVERSAL" THEN Put(v.refunded, e.scope, n)
                          ELSE v.refunded
          /\ y.refunded = IF e.type = "REVERSAL" THEN Put(w.refunded, e.scope, n)
                          ELSE w.refunded
      BY <1>4, <1>5 DEF MoneyChanges
    <3> HIDE DEF n
    <3> QED
      BY <1>3, <2>1, <3>1, OverPut
  <2> QED
    BY <2>2, <2>3, <2>4
<1>17. Refunds(x, es) = Refunds(y, fs)
  <2> DEFINE n == RefundedOf(v, e.ref, es) + e.amt
             below(z, xs) == IF z.keeps THEN HistoryRefunds(xs, z.base.len)
                             ELSE z.base.spendRefunds
  <2>1. Refunds(v, es) = Refunds(w, fs)
    BY DEF Alike
  <2>2. /\ x.spendRefunds = IF e.type = "REVERSAL" /\ e.ref # 0
                              THEN Put(v.spendRefunds, e.ref, n) ELSE v.spendRefunds
        /\ y.spendRefunds = IF e.type = "REVERSAL" /\ e.ref # 0
                              THEN Put(w.spendRefunds, e.ref, n) ELSE w.spendRefunds
    BY <1>4, <1>5 DEF HoldsChanges
  <2>3. /\ Refunds(v, es) = Over(v.spendRefunds, below(v, es))
        /\ Refunds(w, fs) = Over(w.spendRefunds, below(w, fs))
        /\ Refunds(x, es) = Over(x.spendRefunds, below(x, es))
        /\ Refunds(y, fs) = Over(y.spendRefunds, below(y, fs))
    BY DEF Refunds
  <2>4. below(x, es) = below(v, es) /\ below(y, fs) = below(w, fs)
    BY <1>3
  <2> HIDE DEF n, below
  <2>5. CASE e.type = "REVERSAL" /\ e.ref # 0
    <3>1. /\ Refunds(x, es) = Put(Refunds(v, es), e.ref, n)
          /\ Refunds(y, fs) = Put(Refunds(w, fs), e.ref, n)
      BY <2>2, <2>3, <2>4, <2>5, OverPut
    <3> QED
      BY <2>1, <3>1
  <2>6. CASE ~(e.type = "REVERSAL" /\ e.ref # 0)
    BY <2>1, <2>2, <2>3, <2>4, <2>6
  <2> QED
    BY <2>5, <2>6
<1>18. x.settleable = y.settleable
  BY <1>4, <1>8 DEF HoldsChanges, Meets
<1>19. Alike(x, es, y, fs)
  BY <1>10, <1>11, <1>12, <1>13, <1>14, <1>15, <1>16, <1>17 DEF Alike
<1> QED
  BY <1>3, <1>18, <1>19 DEF Stepped, x, y

----------------------------------------------------------------------------
(* Two views, entry by entry *)

\* What holds at first and goes on holding holds up to the end.
LEMMA CountUp ==
    ASSUME NEW N \in Nat, NEW S, 0 \in S, \A n \in 0..(N - 1) : n \in S => n + 1 \in S
    PROVE  0..N \subseteq S
<1> DEFINE Bad == {n \in Nat : n <= N /\ n \notin S}
<1> SUFFICES ASSUME Bad # {} PROVE FALSE
  OBVIOUS
<1>1. PICK n \in Bad : \A m \in Bad : n <= m
  <2>1. Bad \in SUBSET Nat
    OBVIOUS
  <2> HIDE DEF Bad
  <2> QED
    BY <2>1, LeastOf
<1>2. n \in Nat /\ n <= N /\ n \notin S /\ n # 0
  OBVIOUS
<1>3. n - 1 \in Nat /\ n - 1 <= N /\ n - 1 \in 0..(N - 1) /\ ~(n <= n - 1)
  BY <1>2
<1>4. n - 1 \in S
  BY <1>1, <1>3
<1>5. (n - 1) + 1 = n
  BY <1>2
<1> QED
  BY <1>2, <1>3, <1>4, <1>5

\* Every entry up to n was accepted, and folded in.
AcceptsUpTo(A, n, v, new, entries, writing) ==
    /\ A[0] = [ok |-> TRUE, view |-> v]
    /\ \A m \in 0..n : A[m].ok
    /\ \A m \in 1..n : /\ Accepts(A[m - 1].view, new[m], entries, writing)
                       /\ A[m].view = Fold(A[m - 1].view, new[m], entries)

\* Up to an accepted entry every entry was.
LEMMA AcceptedBefore ==
    ASSUME NEW v, NEW new, IsSeq(new), NEW entries, NEW writing,
           NEW n \in 0..Len(new), Staged(v, new, entries, writing)[n].ok
    PROVE  AcceptsUpTo(Staged(v, new, entries, writing), n, v, new, entries, writing)
<1> DEFINE A == Staged(v, new, entries, writing)
<1>1. Len(new) \in Nat
  BY SeqFacts
<1>2. /\ A[0] = [ok |-> TRUE, view |-> v]
      /\ \A i \in 1..Len(new) : A[i] = Take(A[i - 1], new[i], entries, writing)
  BY StagedAt DEF Stages
<1> HIDE DEF A
<1>3. \A i \in 1..Len(new) : A[i].ok =>
        /\ A[i - 1].ok /\ Accepts(A[i - 1].view, new[i], entries, writing)
        /\ A[i].view = Fold(A[i - 1].view, new[i], entries)
  <2> SUFFICES ASSUME NEW i \in 1..Len(new), A[i].ok
               PROVE  /\ A[i - 1].ok /\ Accepts(A[i - 1].view, new[i], entries, writing)
                      /\ A[i].view = Fold(A[i - 1].view, new[i], entries)
    OBVIOUS
  <2> DEFINE taken == A[i - 1].ok /\ Accepts(A[i - 1].view, new[i], entries, writing)
  <2>1. A[i] = IF taken THEN [ok |-> TRUE, view |-> Fold(A[i - 1].view, new[i], entries)]
               ELSE [ok |-> FALSE, view |-> A[i - 1].view]
    BY <1>2 DEF Take
  <2> HIDE DEF taken
  <2>2. taken /\ A[i].view = Fold(A[i - 1].view, new[i], entries)
    BY <2>1
  <2> QED
    BY <2>2 DEF taken
<1>4. \A m \in 0..n : A[m].ok
  <2> DEFINE S == {j \in 0..n : A[n - j].ok}
  <2>1. n \in Nat /\ n <= Len(new)
    BY <1>1
  <2>2. 0 \in S
    BY <2>1 DEF A
  <2>3. ASSUME NEW j \in 0..(n - 1), j \in S PROVE j + 1 \in S
    <3>1. n - j \in 1..Len(new) /\ n - (j + 1) = (n - j) - 1 /\ j + 1 \in 0..n
      BY <1>1, <2>1
    <3>2. A[n - j].ok
      BY <2>3
    <3> QED
      BY <1>3, <3>1, <3>2
  <2>4. 0..n \subseteq S
    <3> HIDE DEF S
    <3> QED
      BY <2>1, <2>2, <2>3, CountUp
  <2>5. ASSUME NEW m \in 0..n PROVE A[m].ok
    <3>1. n - m \in 0..n /\ n - (n - m) = m
      BY <2>1
    <3>2. n - m \in S
      BY <2>4, <3>1
    <3> QED
      BY <3>1, <3>2
  <2> QED
    BY <2>5
<1>5. \A m \in 1..n : m \in 1..Len(new) /\ m \in 0..n
  BY <1>1
<1> QED
  BY <1>2, <1>3, <1>4, <1>5 DEF A, AcceptsUpTo

\* What does not change while entries are folded in.
SameUnder(v, w) == v.base = w.base /\ v.keeps = w.keeps /\ v.legacy = w.legacy

\* Two views together after an entry.
BothTook(v, es, w, fs, e, x, y) ==
    /\ Together(x, es, y, fs) /\ SameUnder(x, v) /\ SameUnder(y, w)
    /\ x.txn = e.txn /\ y.txn = e.txn /\ x.settleable = y.settleable

\* So alike views take an entry together.
LEMMA TakenTogether ==
    ASSUME NEW v, NEW w, NEW es, NEW fs, NEW e, NEW writing,
           Together(v, es, w, fs), Meets(v, w, e), IsEntry(e), FoundIn(es, fs, e),
           Accepts(v, e, es, writing)
    PROVE  /\ Accepts(w, e, fs, FALSE)
           /\ BothTook(v, es, w, fs, e, Fold(v, e, es), Fold(w, e, fs))
<1>1. WF(v) /\ WF(w) /\ Alike(v, es, w, fs)
  BY DEF Together
<1>2. e.ref \in Nat
  BY DEF IsEntry
<1>3. Accepts(w, e, fs, FALSE)
  BY <1>1, <1>2, AcceptsAlike
<1>4. WF(Fold(v, e, es)) /\ WF(Fold(w, e, fs))
  BY <1>1, <1>3, FoldStaysWF
<1>5. Stepped(v, es, w, fs, e, Fold(v, e, es), Fold(w, e, fs))
  BY <1>1, <1>3, FoldAlike
<1> QED
  BY <1>3, <1>4, <1>5 DEF Together, SameUnder, Stepped, BothTook

\* Where two views stand after n entries.
Follows(v, es, w, fs, a, b, n, new) ==
    /\ a.ok /\ b.ok
    /\ Together(a.view, es, b.view, fs)
    /\ SameUnder(a.view, v) /\ SameUnder(b.view, w)
    /\ n > 0 => /\ a.view.txn = new[n].txn /\ b.view.txn = new[n].txn
                /\ a.view.settleable = b.view.settleable

\* A view that accepts entries is followed by any view alike, and so is where
\* that view stands in a longer replay.
LEMMA Track ==
    ASSUME NEW v, NEW u, NEW new, NEW all, IsSeq(new), IsSeq(all), NEW es, NEW fs, NEW writing,
           NEW k \in Nat, NEW N \in Nat, N <= Len(new), k + N <= Len(all),
           \A i \in 1..N : all[k + i] = new[i] /\ IsEntry(new[i]) /\ FoundIn(es, fs, new[i]),
           Staged(v, new, es, writing)[N].ok,
           Staged(u, all, fs, FALSE)[k].ok,
           NEW w, w = Staged(u, all, fs, FALSE)[k].view,
           Together(v, es, w, fs),
           N > 0 => Meets(v, w, new[1]),
           \A i \in 1..N : v.legacy = w.legacy \/ new[i].ver = 1
    PROVE  \A n \in 0..N : Follows(v, es, w, fs, Staged(v, new, es, writing)[n],
                                   Staged(u, all, fs, FALSE)[k + n], n, new)
<1> DEFINE A == Staged(v, new, es, writing)
           B == Staged(u, all, fs, FALSE)
           OK(n) == Follows(v, es, w, fs, A[n], B[k + n], n, new)
           S == {n \in 0..N : OK(n)}
<1>1. Len(new) \in Nat /\ Len(all) \in Nat
  BY SeqFacts
<1>2. /\ A[0] = [ok |-> TRUE, view |-> v]
      /\ \A m \in 0..N : A[m].ok
      /\ \A m \in 1..N : /\ Accepts(A[m - 1].view, new[m], es, writing)
                         /\ A[m].view = Fold(A[m - 1].view, new[m], es)
  <2>1. N \in 0..Len(new)
    BY <1>1
  <2>2. AcceptsUpTo(A, N, v, new, es, writing)
    BY <2>1, AcceptedBefore
  <2> QED
    BY <2>2 DEF AcceptsUpTo
<1>3. \A i \in 1..Len(all) : B[i] = Take(B[i - 1], all[i], fs, FALSE)
  <2>1. Stages(B, Len(all), u, all, fs, FALSE)
    BY StagedAt
  <2> HIDE DEF B
  <2> QED
    BY <2>1 DEF Stages
<1>4. B[k].ok /\ B[k].view = w
  OBVIOUS
<1> HIDE DEF A, B
<1>5. 0 \in S
  <2>1. k + 0 = k /\ 0 \in 0..N /\ ~(0 > 0)
    OBVIOUS
  <2>2. A[0].ok /\ A[0].view = v
    BY <1>2
  <2>3. Together(A[0].view, es, B[k].view, fs)
    BY <1>4, <2>2
  <2>4. Follows(v, es, w, fs, A[0], B[k], 0, new)
    BY <1>4, <2>1, <2>2, <2>3 DEF Follows, SameUnder
  <2> QED
    BY <2>1, <2>4
<1>6. ASSUME NEW n \in 0..(N - 1), OK(n) PROVE OK(n + 1)
  <2> DEFINE a == A[n].view
             b == B[k + n].view
             e == new[n + 1]
  <2>0. /\ n + 1 \in 1..N /\ (n + 1) - 1 = n /\ n + 1 > 0
        /\ k + (n + 1) \in 1..Len(all) /\ (k + (n + 1)) - 1 = k + n
    <3>1. n \in Nat /\ n + 1 <= N
      OBVIOUS
    <3>2. k + (n + 1) <= Len(all)
      BY <1>1, <3>1
    <3> QED
      BY <1>1, <3>1, <3>2
  <2>1. /\ B[k + n].ok /\ Together(a, es, b, fs)
        /\ SameUnder(a, v) /\ SameUnder(b, w)
    BY <1>6 DEF Follows
  <2>2. /\ IsEntry(e) /\ all[k + (n + 1)] = e /\ FoundIn(es, fs, e)
        /\ v.legacy = w.legacy \/ e.ver = 1
    BY <2>0
  <2>3. Meets(a, b, e)
    <3>1. CASE n = 0
      <4>1. A[n].view = v
        BY <1>2, <3>1
      <4>2. k + n = k
        BY <3>1
      <4>3. B[k + n].view = w
        BY <1>4, <4>2
      <4>4. N > 0 /\ e = new[1]
        BY <2>0, <3>1
      <4> QED
        BY <4>1, <4>3, <4>4
    <3>2. CASE n # 0
      <4>1. n > 0
        BY <3>2
      <4>2. a.txn = new[n].txn /\ b.txn = new[n].txn /\ a.settleable = b.settleable
        BY <1>6, <4>1 DEF Follows
      <4>3. a.legacy = v.legacy /\ b.legacy = w.legacy
        BY <2>1 DEF SameUnder
      <4> HIDE DEF a, b, e
      <4> QED
        BY <2>2, <4>2, <4>3 DEF Meets, Settleable
    <3> QED
      BY <3>1, <3>2
  <2>4. Accepts(a, e, es, writing) /\ A[n + 1].view = Fold(a, e, es) /\ A[n + 1].ok
    <3>1. n + 1 \in 0..N
      BY <2>0
    <3> QED
      BY <1>2, <2>0, <3>1
  <2>5. B[k + (n + 1)] = Take(B[k + n], e, fs, FALSE)
    BY <1>3, <2>0, <2>2
  <2>6. B[k + n].view = b
    OBVIOUS
  <2> HIDE DEF a, b, e
  <2>7. Accepts(b, e, fs, FALSE) /\ BothTook(a, es, b, fs, e, Fold(a, e, es), Fold(b, e, fs))
    BY <2>1, <2>2, <2>3, <2>4, TakenTogether
  <2>8. B[k + (n + 1)].ok /\ B[k + (n + 1)].view = Fold(b, e, fs)
    BY <2>1, <2>5, <2>6, <2>7 DEF Take
  <2>9. /\ Together(A[n + 1].view, es, B[k + (n + 1)].view, fs)
        /\ SameUnder(A[n + 1].view, v) /\ SameUnder(B[k + (n + 1)].view, w)
        /\ A[n + 1].view.txn = e.txn /\ B[k + (n + 1)].view.txn = e.txn
        /\ A[n + 1].view.settleable = B[k + (n + 1)].view.settleable
    BY <2>1, <2>4, <2>7, <2>8 DEF BothTook, SameUnder
  <2> QED
    BY <2>4, <2>8, <2>9 DEF Follows, e
<1>7. \A n \in 0..(N - 1) : n \in S => n + 1 \in S
  <2> SUFFICES ASSUME NEW n \in 0..(N - 1), n \in S PROVE n + 1 \in S
    OBVIOUS
  <2>1. OK(n) /\ n + 1 \in 0..N
    <3> HIDE DEF OK
    <3> QED
      OBVIOUS
  <2>2. OK(n + 1)
    <3> HIDE DEF OK
    <3> QED
      BY <1>6, <2>1
  <2> QED
    BY <2>1, <2>2
<1>8. 0..N \subseteq S
  <2> HIDE DEF S
  <2> QED
    BY <1>5, <1>7, CountUp
<1>9. \A n \in 0..N : OK(n)
  <2> HIDE DEF OK
  <2> QED
    BY <1>8
<1> QED
  BY <1>9 DEF A, B
----------------------------------------------------------------------------
(* What the entries so far refund *)

\* The refunds of a spend grow by the entry that refunds it.
LEMMA RefundsInStep ==
    ASSUME NEW c, Chained(c), NEW n \in Nat, n + 1 <= Len(c), NEW r
    PROVE  RefundsIn(c, n + 1, r) = RefundsIn(c, n, r) +
             (IF c[n + 1].type = "REVERSAL" /\ c[n + 1].ref = r THEN c[n + 1].amt ELSE 0)
<1> DEFINE S == 1..Len(c)
           f == [i \in DOMAIN c |-> c[i].amt]
           T == {i \in 1..n : c[i].type = "REVERSAL" /\ c[i].ref = r}
           U == {i \in 1..(n + 1) : c[i].type = "REVERSAL" /\ c[i].ref = r}
           x == n + 1
<1>1. Len(c) \in Nat /\ DOMAIN c = S
  BY SeqFacts DEF Chained
<1>2. f \in [S -> Int] /\ IsFiniteSet(S)
  <2>1. \A i \in S : c[i].amt \in Int
    BY DEF Chained
  <2>2. IsFiniteSet(S)
    BY <1>1, FS_Interval
  <2> QED
    BY <1>1, <2>1, <2>2
<1>3. T \in SUBSET S /\ U \in SUBSET S /\ x \in S
  BY <1>1
<1>4. \A y \in S \ {x} : (y \in T <=> y \in U) /\ (y \in T => f[y] = f[y])
  BY <1>1
<1>5. RefundsIn(c, n + 1, r) = SumFunctionOnSet(f, U) /\ RefundsIn(c, n, r) = SumFunctionOnSet(f, T)
  BY DEF RefundsIn
<1>6. x \notin T /\ (x \in U <=> c[x].type = "REVERSAL" /\ c[x].ref = r) /\ f[x] = c[x].amt
  BY <1>1, <1>3
<1>7. SumFunctionOnSet(f, T) \in Int /\ f[x] \in Int
  BY <1>2, <1>3, SumType
<1> HIDE DEF S, f, T, U, x
<1>8. SumFunctionOnSet(f, U) = SumFunctionOnSet(f, T) + (IF x \in U THEN f[x] ELSE 0)
                                 - (IF x \in T THEN f[x] ELSE 0)
  BY <1>2, <1>3, <1>4, SumChange
<1>9. SumFunctionOnSet(f, U) = SumFunctionOnSet(f, T) + (IF x \in U THEN f[x] ELSE 0)
  BY <1>6, <1>7, <1>8
<1>10. RefundsIn(c, n + 1, r) = RefundsIn(c, n, r) +
         (IF c[x].type = "REVERSAL" /\ c[x].ref = r THEN c[x].amt ELSE 0)
  BY <1>5, <1>6, <1>9
<1> QED
  BY <1>10 DEF x

\* A refund adds to what was refunded of the spend it names, and changes no
\* other.
LEMMA HistoryStep ==
    ASSUME NEW c, Chained(c), NEW n \in Nat, n + 1 <= Len(c)
    PROVE  LET e == c[n + 1]
               H == HistoryRefunds(c, n)
           IN HistoryRefunds(c, n + 1) =
                IF e.type = "REVERSAL" /\ e.ref # 0
                  THEN Put(H, e.ref, (IF e.ref \in DOMAIN H THEN H[e.ref] ELSE 0) + e.amt)
                  ELSE H
<1> DEFINE e == c[n + 1]
           H == HistoryRefunds(c, n)
           G == HistoryRefunds(c, n + 1)
           D == {c[i].ref : i \in {j \in 1..n : c[j].type = "REVERSAL" /\ c[j].ref # 0}}
           F == {c[i].ref : i \in {j \in 1..(n + 1) : c[j].type = "REVERSAL" /\ c[j].ref # 0}}
           refunds == e.type = "REVERSAL" /\ e.ref # 0
<1>1. H = [r \in D |-> RefundsIn(c, n, r)] /\ G = [r \in F |-> RefundsIn(c, n + 1, r)]
  BY DEF HistoryRefunds
<1>2. F = D \cup (IF refunds THEN {e.ref} ELSE {})
  <2>1. \A j \in 1..(n + 1) : j \in 1..n \/ j = n + 1
    OBVIOUS
  <2>2. n + 1 \in 1..(n + 1) /\ \A j \in 1..n : j \in 1..(n + 1)
    OBVIOUS
  <2> QED
    BY <2>1, <2>2
<1>3. \A r \in D : r # 0
  OBVIOUS
<1>4. \A r : RefundsIn(c, n + 1, r) = RefundsIn(c, n, r) +
               (IF e.type = "REVERSAL" /\ e.ref = r THEN e.amt ELSE 0)
  BY RefundsInStep
<1>5. \A r : RefundsIn(c, n, r) \in Int
  <2> TAKE r
  <2> DEFINE f == [i \in DOMAIN c |-> c[i].amt]
             T == {i \in 1..n : c[i].type = "REVERSAL" /\ c[i].ref = r}
  <2>1. Len(c) \in Nat /\ DOMAIN c = 1..Len(c)
    BY SeqFacts DEF Chained
  <2>2. f \in [1..Len(c) -> Int] /\ IsFiniteSet(1..Len(c))
    BY <2>1, FS_Interval DEF Chained
  <2>3. T \in SUBSET (1..Len(c))
    BY <2>1
  <2>4. RefundsIn(c, n, r) = SumFunctionOnSet(f, T)
    BY DEF RefundsIn
  <2> HIDE DEF f, T
  <2> QED
    BY <2>2, <2>3, <2>4, SumType
<1>6. \A r : r \notin D /\ r # 0 => RefundsIn(c, n, r) = 0
  <2> SUFFICES ASSUME NEW r, r \notin D, r # 0 PROVE RefundsIn(c, n, r) = 0
    OBVIOUS
  <2> DEFINE f == [i \in DOMAIN c |-> c[i].amt]
             T == {i \in 1..n : c[i].type = "REVERSAL" /\ c[i].ref = r}
  <2>1. T = {}
    OBVIOUS
  <2>2. RefundsIn(c, n, r) = SumFunctionOnSet(f, T)
    BY DEF RefundsIn
  <2> HIDE DEF f, T
  <2> QED
    BY <2>1, <2>2, SumOfNothing
<1>7. e.amt \in Nat
  <2>1. n + 1 \in 1..Len(c)
    BY SeqFacts DEF Chained
  <2> QED
    BY <2>1 DEF Chained
<1> HIDE DEF D, F, H, G, e
<1>8. CASE refunds
  <2> DEFINE P == Put(H, e.ref, (IF e.ref \in DOMAIN H THEN H[e.ref] ELSE 0) + e.amt)
  <2>1. DOMAIN G = DOMAIN P /\ DOMAIN H = D /\ DOMAIN G = D \cup {e.ref}
    BY <1>1, <1>2, <1>8 DEF Put
  <2>2. (IF e.ref \in DOMAIN H THEN H[e.ref] ELSE 0) = RefundsIn(c, n, e.ref)
    BY <1>1, <1>6, <1>8, <2>1
  <2>3. P[e.ref] = RefundsIn(c, n, e.ref) + e.amt
    BY <2>2 DEF Put
  <2>4. G[e.ref] = P[e.ref]
    BY <1>1, <1>2, <1>4, <1>8, <2>3
  <2>5. \A r \in D : r # e.ref => G[r] = H[r] /\ P[r] = H[r]
    <3> SUFFICES ASSUME NEW r \in D, r # e.ref PROVE G[r] = H[r] /\ P[r] = H[r]
      OBVIOUS
    <3>1. G[r] = RefundsIn(c, n + 1, r) /\ H[r] = RefundsIn(c, n, r)
      BY <1>1, <1>2
    <3>2. RefundsIn(c, n + 1, r) = RefundsIn(c, n, r)
      BY <1>4, <1>5
    <3>3. P[r] = H[r]
      BY <2>1 DEF Put
    <3> QED
      BY <3>1, <3>2, <3>3
  <2>6. G = [r \in DOMAIN G |-> G[r]] /\ P = [r \in DOMAIN P |-> P[r]]
    <3>1. G = [r \in DOMAIN G |-> G[r]]
      BY <1>1
    <3> QED
      BY <3>1 DEF Put
  <2> HIDE DEF P
  <2>7. \A r \in DOMAIN G : G[r] = P[r]
    BY <2>1, <2>4, <2>5
  <2>8. G = P
    BY <2>1, <2>6, <2>7, SameFunction
  <2> QED
    BY <1>8, <2>8 DEF P, G, H, e
<1>9. CASE ~refunds
  <2>1. \A r \in D : RefundsIn(c, n + 1, r) = RefundsIn(c, n, r)
    BY <1>3, <1>4, <1>5, <1>9
  <2>2. F = D
    BY <1>2, <1>9
  <2>3. G = H
    BY <1>1, <2>1, <2>2
  <2> QED
    BY <1>9, <2>3 DEF G, H, e
<1> QED
  BY <1>8, <1>9
----------------------------------------------------------------------------
(* Replaying a chain from nothing *)

Genesis(c, l, k) == Staged(Overlay(Empty(l), k), c, c, FALSE)

\* There is one empty map.
LEMMA NothingIsNothing ==
    ASSUME NEW f, NEW g, f = [k \in DOMAIN f |-> f[k]], g = [k \in DOMAIN g |-> g[k]],
           DOMAIN f = {}, DOMAIN g = {}
    PROVE  f = g
  BY SameFunction

\* A view over nothing knows nothing.
Fresh(v, l, k) ==
    /\ WF(v) /\ v.base = Empty(l) /\ v.keeps = k /\ v.legacy = l
    /\ v.len = 0 /\ v.txn = 0 /\ v.settleable = {} /\ v.net = 0
    /\ ~v.sawV1 /\ ~v.sawV2
    /\ \A c : Refunds(v, c) = HistoryRefunds(c, 0)

\* A replay starts with a view of nothing.
LEMMA GenesisStart ==
    ASSUME NEW l, NEW k \in BOOLEAN
    PROVE  Fresh(Overlay(Empty(l), k), l, k)
<1> DEFINE v == Overlay(Empty(l), k)
<1>1. /\ DOMAIN v = ViewFields
      /\ \A f \in Whole : v[f] = Empty(l)[f]
      /\ v.base = Empty(l) /\ v.keeps = k
      /\ v.opened = {} /\ v.closed = {} /\ v.nodes = <<>> /\ v.children = <<>>
      /\ v.counts = <<>> /\ v.spendRefunds = <<>>
      /\ v.txn = 0 /\ v.settleable = {} /\ v.net = 0
  BY OverlayFields
<1> HIDE DEF v
<1>2. /\ v.len = 0 /\ v.legacy = l /\ v.sawV1 = FALSE /\ v.sawV2 = FALSE
  BY <1>1 DEF Whole, Empty
<1>3. /\ Empty(l).len = 0 /\ Empty(l).holds = {} /\ Empty(l).nodes = <<>>
      /\ Empty(l).counts = <<>> /\ Empty(l).spendRefunds = <<>>
  BY DEF Empty
<1>4. DOMAIN <<>> = {}
  OBVIOUS
<1>5. OpenHolds(v) = {}
  BY <1>1, <1>3 DEF OpenHolds
<1>6. HoldsOK(v)
  BY <1>1, <1>3, <1>5, FS_EmptySet DEF HoldsOK
<1>7. NodesOK(v)
  BY <1>1, <1>3, <1>4 DEF NodesOK
<1>8. Counted(v) = Census(OpenHolds(v))
  <2>1. DOMAIN Counted(v) = {} /\ Counted(v) = [s \in DOMAIN Counted(v) |-> Counted(v)[s]]
    BY <1>1, <1>3, <1>4 DEF Counted, Without, Over
  <2>2. DOMAIN Census({}) = {} /\ Census({}) = [s \in DOMAIN Census({}) |-> Census({})[s]]
    BY DEF Census
  <2> QED
    BY <1>5, <2>1, <2>2, NothingIsNothing
<1>9. WF(v)
  BY <1>1, <1>2, <1>3, <1>6, <1>7, <1>8 DEF WF
<1>10. ASSUME NEW c PROVE Refunds(v, c) = HistoryRefunds(c, 0)
  <2> DEFINE H == HistoryRefunds(c, 0)
             below == IF k THEN H ELSE <<>>
  <2>1. Refunds(v, c) = Over(<<>>, below)
    BY <1>1, <1>2, <1>3 DEF Refunds
  <2>2. DOMAIN H = {} /\ H = [r \in DOMAIN H |-> H[r]]
    BY DEF HistoryRefunds
  <2> HIDE DEF H
  <2>3. DOMAIN below = {}
    BY <1>4, <2>2
  <2> HIDE DEF below
  <2>4. DOMAIN Over(<<>>, below) = {}
        /\ Over(<<>>, below) = [r \in DOMAIN Over(<<>>, below) |-> Over(<<>>, below)[r]]
    BY <1>4, <2>3 DEF Over
  <2>5. Over(<<>>, below) = H
    BY <2>2, <2>4, NothingIsNothing
  <2> QED
    BY <2>1, <2>5 DEF H
<1> QED
  BY <1>1, <1>2, <1>9, <1>10 DEF v, Fresh

\* An entry of a chain is one the rules can read.
LEMMA ChainedEntry ==
    ASSUME NEW c, Chained(c), NEW i \in 1..Len(c)
    PROVE  IsEntry(c[i]) /\ c[i].seq = i
<1>1. Len(c) \in Nat
  BY SeqFacts DEF Chained
<1> QED
  BY <1>1 DEF Chained, IsEntry

\* What a replay that keeps its own account of refunds knows after n entries.
Knows(b, c, l, n) ==
    /\ WF(b) /\ b.base = Empty(l) /\ b.keeps = FALSE /\ b.legacy = l
    /\ b.len = n
    /\ b.sawV1 <=> \E i \in 1..n : c[i].ver = 1
    /\ b.sawV2 <=> \E i \in 1..n : c[i].ver # 1
    /\ Refunds(b, c) = HistoryRefunds(c, n)
    /\ b.txn = IF n = 0 THEN 0 ELSE c[n].txn

\* A replay that knows the first n entries knows n + 1 after the next.
LEMMA KnowsMore ==
    ASSUME NEW c, Chained(c), NEW l, NEW n \in Nat, n + 1 <= Len(c), NEW b, Knows(b, c, l, n),
           Accepts(b, c[n + 1], c, FALSE)
    PROVE  Knows(Fold(b, c[n + 1], c), c, l, n + 1)
<1> DEFINE e == c[n + 1]
           x == Fold(b, e, c)
<1>1. n + 1 \in 1..Len(c)
  BY SeqFacts DEF Chained
<1>2. IsEntry(e) /\ e.seq = n + 1
  BY <1>1, ChainedEntry
<1>3. WF(b) /\ WF(x)
  <2>1. WF(b)
    BY DEF Knows
  <2> QED
    BY <1>2, <2>1, FoldStaysWF
<1>4. FoldChanges(b, e, c, x)
  BY <1>3, FoldFields DEF WF
<1>5. Accepts(b, e, c, FALSE)
  OBVIOUS
<1> HIDE DEF x, e
<1>6. x.base = Empty(l) /\ x.keeps = FALSE /\ x.legacy = l /\ x.txn = e.txn
  BY <1>4 DEF FoldChanges, Knows
<1>7. /\ x.len = e.seq
      /\ x.sawV1 = (b.sawV1 \/ e.ver = 1) /\ x.sawV2 = (b.sawV2 \/ e.ver # 1)
  BY <1>4 DEF FoldChanges, PositionChanges
<1>8. x.sawV1 <=> \E i \in 1..(n + 1) : c[i].ver = 1
  <2>1. b.sawV1 <=> \E i \in 1..n : c[i].ver = 1
    BY DEF Knows
  <2>2. (\E i \in 1..(n + 1) : c[i].ver = 1) <=> (\E i \in 1..n : c[i].ver = 1) \/ e.ver = 1
    <3>1. \A i \in 1..(n + 1) : i \in 1..n \/ i = n + 1
      OBVIOUS
    <3>2. n + 1 \in 1..(n + 1) /\ \A i \in 1..n : i \in 1..(n + 1)
      OBVIOUS
    <3> QED
      BY <3>1, <3>2 DEF e
  <2> QED
    BY <1>7, <2>1, <2>2
<1>9. x.sawV2 <=> \E i \in 1..(n + 1) : c[i].ver # 1
  <2>1. b.sawV2 <=> \E i \in 1..n : c[i].ver # 1
    BY DEF Knows
  <2>2. (\E i \in 1..(n + 1) : c[i].ver # 1) <=> (\E i \in 1..n : c[i].ver # 1) \/ e.ver # 1
    <3>1. \A i \in 1..(n + 1) : i \in 1..n \/ i = n + 1
      OBVIOUS
    <3>2. n + 1 \in 1..(n + 1) /\ \A i \in 1..n : i \in 1..(n + 1)
      OBVIOUS
    <3> QED
      BY <3>1, <3>2 DEF e
  <2> QED
    BY <1>7, <2>1, <2>2
<1>10. Refunds(x, c) = HistoryRefunds(c, n + 1)
  <2> DEFINE H == HistoryRefunds(c, n)
             refunds == e.type = "REVERSAL" /\ e.ref # 0
             sum == RefundedOf(b, e.ref, c) + e.amt
  <2>1. b.keeps = FALSE /\ Refunds(b, c) = H /\ b.base = x.base
    BY <1>6 DEF Knows
  <2>2. Refunds(b, c) = Over(b.spendRefunds, b.base.spendRefunds)
        /\ Refunds(x, c) = Over(x.spendRefunds, x.base.spendRefunds)
    BY <1>6, <2>1 DEF Refunds
  <2>3. x.spendRefunds = IF refunds THEN Put(b.spendRefunds, e.ref, sum) ELSE b.spendRefunds
    BY <1>4 DEF FoldChanges, HoldsChanges
  <2> HIDE DEF sum
  <2>4. Refunds(x, c) = IF refunds THEN Put(H, e.ref, sum) ELSE H
    BY <2>1, <2>2, <2>3, OverPut
  <2>5. refunds => sum = (IF e.ref \in DOMAIN H THEN H[e.ref] ELSE 0) + e.amt
    <3>1. refunds => RefundedOf(b, e.ref, c) = IF e.ref \in DOMAIN H THEN H[e.ref] ELSE 0
      BY <1>3, <2>1, RefundsLook DEF WF
    <3> QED
      BY <3>1 DEF sum
  <2>6. HistoryRefunds(c, n + 1) =
          IF refunds THEN Put(H, e.ref, (IF e.ref \in DOMAIN H THEN H[e.ref] ELSE 0) + e.amt)
          ELSE H
    BY HistoryStep DEF e
  <2> HIDE DEF refunds, H
  <2> QED
    BY <2>4, <2>5, <2>6
<1>11. Knows(x, c, l, n + 1)
  <2>1. x.txn = IF n + 1 = 0 THEN 0 ELSE c[n + 1].txn
    BY <1>6 DEF e
  <2> QED
    BY <1>2, <1>3, <1>6, <1>7, <1>8, <1>9, <1>10, <2>1 DEF Knows
<1> QED
  BY <1>11 DEF x, e

\* So it does up to every entry it accepts.
LEMMA GenesisKnows ==
    ASSUME NEW c, Chained(c), NEW l, NEW N \in 0..Len(c), Genesis(c, l, FALSE)[N].ok
    PROVE  \A n \in 0..N : Knows(Genesis(c, l, FALSE)[n].view, c, l, n)
<1> DEFINE v == Overlay(Empty(l), FALSE)
           A == Staged(v, c, c, FALSE)
           OK(n) == Knows(A[n].view, c, l, n)
           S == {n \in 0..N : OK(n)}
<1>1. IsSeq(c) /\ Len(c) \in Nat /\ N \in Nat /\ N <= Len(c)
  BY SeqFacts DEF Chained
<1>2. /\ A[0] = [ok |-> TRUE, view |-> v]
      /\ \A m \in 1..N : /\ Accepts(A[m - 1].view, c[m], c, FALSE)
                         /\ A[m].view = Fold(A[m - 1].view, c[m], c)
  <2>1. A[N].ok
    BY DEF Genesis
  <2>2. N \in 0..Len(c)
    OBVIOUS
  <2> HIDE DEF v
  <2>3. AcceptsUpTo(A, N, v, c, c, FALSE)
    BY <1>1, <2>1, <2>2, AcceptedBefore
  <2> HIDE DEF A
  <2> QED
    BY <2>3 DEF AcceptsUpTo
<1>3. Knows(v, c, l, 0)
  <2>1. Fresh(v, l, FALSE)
    BY GenesisStart
  <2> HIDE DEF v
  <2>2. (\E i \in 1..0 : c[i].ver = 1) = FALSE /\ (\E i \in 1..0 : c[i].ver # 1) = FALSE
    OBVIOUS
  <2> QED
    BY <2>1, <2>2 DEF Knows, Fresh
<1> HIDE DEF v, A
<1>4. 0 \in S
  BY <1>1, <1>2, <1>3
<1>5. \A n \in 0..(N - 1) : n \in S => n + 1 \in S
  <2> SUFFICES ASSUME NEW n \in 0..(N - 1), OK(n) PROVE n + 1 \in 0..N /\ OK(n + 1)
    OBVIOUS
  <2>1. n \in Nat /\ n + 1 <= Len(c) /\ n + 1 \in 1..N /\ (n + 1) - 1 = n /\ n + 1 \in 0..N
    BY <1>1
  <2>2. Accepts(A[n].view, c[n + 1], c, FALSE) /\ A[n + 1].view = Fold(A[n].view, c[n + 1], c)
    BY <1>2, <2>1
  <2>3. Knows(Fold(A[n].view, c[n + 1], c), c, l, n + 1)
    BY <2>1, <2>2, KnowsMore
  <2> QED
    BY <2>1, <2>2, <2>3
<1>6. 0..N \subseteq S
  <2> HIDE DEF S
  <2> QED
    BY <1>1, <1>4, <1>5, CountUp
<1>7. \A n \in 0..N : OK(n)
  <2> HIDE DEF OK
  <2> QED
    BY <1>6
<1> QED
  BY <1>7 DEF A, v, Genesis
----------------------------------------------------------------------------
(* Replays compared *)

\* Being alike goes both ways, and on to a third view.
LEMMA AlikeBoth ==
    ASSUME NEW u, NEW v, NEW w, NEW cs, NEW es, NEW fs, Alike(u, cs, v, es)
    PROVE  Alike(v, es, u, cs) /\ (Alike(v, es, w, fs) => Alike(u, cs, w, fs))
  BY DEF Alike

\* So does going on together.
LEMMA TogetherBoth ==
    ASSUME NEW u, NEW v, NEW w, NEW cs, NEW es, NEW fs, Together(u, cs, v, es)
    PROVE  Together(v, es, u, cs) /\ (Together(v, es, w, fs) => Together(u, cs, w, fs))
  BY AlikeBoth DEF Together

\* Replays start alike, whatever the legacy events and who remembers refunds.
LEMMA GenesisAlike ==
    ASSUME NEW l, NEW m, NEW j \in BOOLEAN, NEW k \in BOOLEAN, NEW c, NEW d
    PROVE  Together(Overlay(Empty(l), j), c, Overlay(Empty(m), k), d)
<1> DEFINE v == Overlay(Empty(l), j)
           w == Overlay(Empty(m), k)
<1>1. Fresh(v, l, j) /\ Fresh(w, m, k)
  BY GenesisStart
<1>2. /\ \A f \in Whole : v[f] = Empty(l)[f]
      /\ v.base = Empty(l)
      /\ v.bal = <<>> /\ v.opened = {} /\ v.closed = {} /\ v.ambiguous = {}
      /\ v.nodes = <<>> /\ v.children = <<>> /\ v.tripped = <<>>
      /\ v.spent = <<>> /\ v.refunded = <<>> /\ v.net = 0
  BY OverlayFields
<1>3. /\ \A f \in Whole : w[f] = Empty(m)[f]
      /\ w.base = Empty(m)
      /\ w.bal = <<>> /\ w.opened = {} /\ w.closed = {} /\ w.ambiguous = {}
      /\ w.nodes = <<>> /\ w.children = <<>> /\ w.tripped = <<>>
      /\ w.spent = <<>> /\ w.refunded = <<>> /\ w.net = 0
  BY OverlayFields
<1> HIDE DEF v, w
<1>4. \A f \in Whole \ {"legacy"} : Empty(l)[f] = Empty(m)[f]
  <2>1. /\ Empty(l).funded = Empty(m).funded /\ Empty(l).spentAll = Empty(m).spentAll
        /\ Empty(l).reversed = Empty(m).reversed /\ Empty(l).held = Empty(m).held
        /\ Empty(l).len = Empty(m).len /\ Empty(l).sawV1 = Empty(m).sawV1
        /\ Empty(l).sawV2 = Empty(m).sawV2 /\ Empty(l).sawV3 = Empty(m).sawV3
        /\ Empty(l).seal = Empty(m).seal /\ Empty(l).legacyApplied = Empty(m).legacyApplied
        /\ Empty(l).checkpoint = Empty(m).checkpoint
    BY DEF Empty
  <2> QED
    BY <2>1 DEF Whole
<1>5. /\ Empty(l).holds = Empty(m).holds /\ Empty(l).ambiguous = Empty(m).ambiguous
      /\ Empty(l).nodes = Empty(m).nodes /\ Empty(l).tripped = Empty(m).tripped
      /\ Empty(l).bal = Empty(m).bal /\ Empty(l).spent = Empty(m).spent
      /\ Empty(l).refunded = Empty(m).refunded
  BY DEF Empty
<1>6. \A f \in Whole \ {"legacy"} : v[f] = w[f]
  BY <1>2, <1>3, <1>4
<1>7. OpenHolds(v) = OpenHolds(w)
  BY <1>2, <1>3, <1>5 DEF OpenHolds
<1>8. Marked(v) = Marked(w) /\ Halted(v) = Halted(w)
  BY <1>2, <1>3, <1>5 DEF Marked, Halted
<1>9. MergedNodes(v) = MergedNodes(w)
  BY <1>2, <1>3, <1>5 DEF MergedNodes, Node, Look
<1>10. \A f \in {"bal", "spent", "refunded"} : Over(v[f], v.base[f]) = Over(w[f], w.base[f])
  BY <1>2, <1>3, <1>5
<1>11. Refunds(v, c) = Refunds(w, d)
  <2>1. Refunds(v, c) = HistoryRefunds(c, 0) /\ Refunds(w, d) = HistoryRefunds(d, 0)
    BY <1>1 DEF Fresh
  <2>2. \A x : /\ DOMAIN HistoryRefunds(x, 0) = {}
               /\ HistoryRefunds(x, 0)
                    = [r \in DOMAIN HistoryRefunds(x, 0) |-> HistoryRefunds(x, 0)[r]]
    BY DEF HistoryRefunds
  <2> QED
    BY <2>1, <2>2, NothingIsNothing
<1>12. Alike(v, c, w, d)
  BY <1>2, <1>3, <1>6, <1>7, <1>8, <1>9, <1>10, <1>11 DEF Alike
<1>13. WF(v) /\ WF(w)
  BY <1>1 DEF Fresh
<1> QED
  BY <1>12, <1>13 DEF Together, v, w

\* The spend a chain's refund names is where another chain that begins alike
\* has it.
LEMMA FoundBefore ==
    ASSUME NEW c, Chained(c), NEW d, IsSeq(d), NEW N \in Nat, N <= Len(c), N <= Len(d),
           \A i \in 1..N : c[i] = d[i], NEW i \in 1..N
    PROVE  FoundIn(c, d, c[i])
<1>1. /\ Len(c) \in Nat /\ DOMAIN c = 1..Len(c)
      /\ Len(d) \in Nat /\ DOMAIN d = 1..Len(d)
  BY SeqFacts DEF Chained
<1>2. SUFFICES ASSUME c[i].type = "REVERSAL", c[i].ref # 0, NEW s \in Range(c), s.seq = c[i].ref
               PROVE  s \in Range(d)
  BY DEF FoundIn
<1>3. PICK q \in DOMAIN c : s = c[q]
  BY DEF Range
<1>4. i \in 1..Len(c) /\ q \in 1..Len(c)
  BY <1>1, <1>3
<1>5. s.seq = q /\ c[i].ref < i
  BY <1>2, <1>3, <1>4 DEF Chained
<1>6. q \in 1..N /\ q \in DOMAIN d
  BY <1>1, <1>2, <1>4, <1>5
<1>7. s = d[q]
  BY <1>3, <1>6
<1> QED
  BY <1>6, <1>7 DEF Range

\* Chains that begin alike replay alike as far as they do, with the same legacy
\* events or while only versions that folded none in wrote.
LEMMA TwoReplays ==
    ASSUME NEW c, Chained(c), NEW d, IsSeq(d), NEW N \in Nat, N <= Len(c), N <= Len(d),
           \A i \in 1..N : c[i] = d[i], NEW l, NEW m, NEW j \in BOOLEAN, NEW k \in BOOLEAN,
           l = m \/ \A i \in 1..N : c[i].ver = 1,
           Genesis(c, l, j)[N].ok
    PROVE  \A n \in 0..N : Follows(Overlay(Empty(l), j), c, Overlay(Empty(m), k), d,
                                   Genesis(c, l, j)[n], Genesis(d, m, k)[n], n, c)
<1> DEFINE v == Overlay(Empty(l), j)
           u == Overlay(Empty(m), k)
<1>1. Fresh(v, l, j) /\ Fresh(u, m, k) /\ Together(v, c, u, d)
  BY GenesisStart, GenesisAlike
<1> HIDE DEF v, u
<1>2. IsSeq(c) /\ Len(c) \in Nat /\ Len(d) \in Nat
  BY SeqFacts DEF Chained
<1>3. Staged(u, d, d, FALSE)[0].ok /\ Staged(u, d, d, FALSE)[0].view = u
  <2> DEFINE B == Staged(u, d, d, FALSE)
  <2>1. Stages(B, Len(d), u, d, d, FALSE)
    BY StagedAt
  <2> HIDE DEF B
  <2>2. B[0] = [ok |-> TRUE, view |-> u]
    BY <2>1 DEF Stages
  <2>3. B[0].ok /\ B[0].view = u
    BY <2>2
  <2> QED
    BY <2>3 DEF B
<1>4. v.legacy = l /\ u.legacy = m /\ v.txn = 0 /\ u.txn = 0
  BY <1>1 DEF Fresh
<1>5. ASSUME NEW i \in 1..N
      PROVE  d[0 + i] = c[i] /\ IsEntry(c[i]) /\ FoundIn(c, d, c[i])
  <2>1. i \in 1..Len(c) /\ 0 + i = i
    BY <1>2
  <2>2. IsEntry(c[i])
    BY <2>1, ChainedEntry
  <2>3. FoundIn(c, d, c[i])
    BY FoundBefore
  <2> QED
    BY <2>1, <2>2, <2>3
<1>6. ASSUME N > 0 PROVE Meets(v, u, c[1])
  <2>1. 1 \in 1..N /\ 1 \in 1..Len(c)
    BY <1>2, <1>6
  <2>2. c[1].txn # 0
    BY <2>1 DEF Chained
  <2>3. l = m \/ c[1].ver = 1
    BY <2>1
  <2> QED
    BY <1>4, <2>2, <2>3 DEF Meets, Settleable
<1>7. \A i \in 1..N : v.legacy = u.legacy \/ c[i].ver = 1
  BY <1>4
<1>8. Staged(v, c, c, FALSE)[N].ok
  BY DEF Genesis, v
<1>9. \A n \in 0..N : Follows(v, c, u, d, Staged(v, c, c, FALSE)[n],
                              Staged(u, d, d, FALSE)[0 + n], n, c)
  <2> DEFINE z == 0
  <2>1. z \in Nat /\ z + N <= Len(d)
    OBVIOUS
  <2>2. u = Staged(u, d, d, FALSE)[z].view /\ Staged(u, d, d, FALSE)[z].ok
    BY <1>3, ZenonT(20)
  <2>3. \A i \in 1..N : d[z + i] = c[i] /\ IsEntry(c[i]) /\ FoundIn(c, d, c[i])
    BY <1>5
  <2> HIDE DEF z
  <2>4. \A n \in 0..N : Follows(v, c, u, d, Staged(v, c, c, FALSE)[n],
                                Staged(u, d, d, FALSE)[z + n], n, c)
    BY <1>1, <1>2, <1>6, <1>7, <1>8, <2>1, <2>2, <2>3, Track
  <2> QED
    BY <2>4 DEF z
<1>10. \A n \in 0..N : 0 + n = n
  OBVIOUS
<1> QED
  BY <1>9, <1>10 DEF Genesis, v, u

\* Replay is where that ends.
LEMMA ReplayIsLast ==
    ASSUME NEW c, NEW l, NEW k
    PROVE  Replay(c, l, k) = Genesis(c, l, k)[Len(c)]
  BY DEF Replay, Apply, Genesis
\* What two replays of a chain end with, the second one with its own account of
\* refunds.
EndRight(c, l, k, r, z) ==
    /\ r.ok /\ z.ok /\ r.view.net = 0 /\ z.view.net = 0
    /\ Together(r.view, c, z.view, c)
    /\ Knows(z.view, c, l, Len(c))
    /\ r.view.base = Empty(l) /\ r.view.keeps = k /\ r.view.legacy = l
    /\ r.view.len = Len(c)

\* What a chain that replays ends with.
LEMMA ReplaysEnds ==
    ASSUME NEW c, Chained(c), NEW l, Replays(c, l), NEW k \in BOOLEAN
    PROVE  EndRight(c, l, k, Replay(c, l, k), Replay(c, l, FALSE))
<1> DEFINE r == Replay(c, l, k)
           z == Replay(c, l, FALSE)
           N == Len(c)
<1>1. IsSeq(c) /\ N \in Nat
  BY SeqFacts DEF Chained
<1>2. z.ok /\ z.view.net = 0
  BY DEF Replays
<1>3. z = Genesis(c, l, FALSE)[N] /\ r = Genesis(c, l, k)[N]
  BY ReplayIsLast
<1> HIDE DEF r, z
<1>4. Knows(z.view, c, l, N)
  <2>1. N \in 0..Len(c) /\ N \in 0..N
    BY <1>1
  <2>2. Genesis(c, l, FALSE)[N].ok
    BY <1>2, <1>3
  <2> HIDE DEF N
  <2>3. \A n \in 0..N : Knows(Genesis(c, l, FALSE)[n].view, c, l, n)
    BY <2>1, <2>2, GenesisKnows
  <2> QED
    BY <1>3, <2>1, <2>3
<1>5. Follows(Overlay(Empty(l), FALSE), c, Overlay(Empty(l), k), c, z, r, N, c)
  <2> DEFINE j == FALSE
  <2>1. j \in BOOLEAN /\ Genesis(c, l, j)[N].ok
    BY <1>2, <1>3
  <2>2. N <= Len(c) /\ N \in 0..N
    BY <1>1
  <2> HIDE DEF j, N
  <2>3. \A n \in 0..N : Follows(Overlay(Empty(l), j), c, Overlay(Empty(l), k), c,
                                Genesis(c, l, j)[n], Genesis(c, l, k)[n], n, c)
    BY <1>1, <2>1, <2>2, TwoReplays
  <2>4. Follows(Overlay(Empty(l), j), c, Overlay(Empty(l), k), c,
                Genesis(c, l, j)[N], Genesis(c, l, k)[N], N, c)
    BY <2>2, <2>3
  <2> QED
    BY <1>3, <2>4 DEF j
<1>6. r.ok /\ Together(z.view, c, r.view, c) /\ SameUnder(r.view, Overlay(Empty(l), k))
  BY <1>5 DEF Follows
<1>7. Together(r.view, c, z.view, c)
  BY <1>6, TogetherBoth
<1>8. Fresh(Overlay(Empty(l), k), l, k)
  BY GenesisStart
<1>9. r.view.base = Empty(l) /\ r.view.keeps = k /\ r.view.legacy = l
  BY <1>6, <1>8 DEF SameUnder, Fresh
<1>10. r.view.net = z.view.net /\ r.view.len = z.view.len /\ z.view.len = N
  BY <1>4, <1>7 DEF Together, Alike, Whole, Knows
<1> QED
  BY <1>2, <1>4, <1>6, <1>7, <1>9, <1>10 DEF r, z, EndRight

\* A view alike a replay that accepts a new transaction is followed by the
\* replay of the longer chain.
LEMMA Continue ==
    ASSUME NEW whole, Chained(whole), NEW new, IsSeq(new), Len(new) > 0,
           Chained(whole \o new), new[1].txn = Len(whole) + 1,
           NEW l, Replays(whole, l), NEW v, NEW es, NEW writing, v.legacy = l,
           Together(v, es, Replay(whole, l, FALSE).view, whole),
           Range(es) \subseteq Range(whole \o new),
           Apply(v, new, es, writing).ok
    PROVE  Follows(v, es, Genesis(whole \o new, l, FALSE)[Len(whole)].view, whole \o new,
                   Apply(v, new, es, writing), Replay(whole \o new, l, FALSE), Len(new), new)
<1> DEFINE P == whole \o new
           K == Len(whole)
           N == Len(new)
           z == Replay(whole, l, FALSE).view
           g == Genesis(P, l, FALSE)[K]
           w == g.view
           no == FALSE
<1>1. /\ IsSeq(whole) /\ IsSeq(P) /\ K \in Nat /\ N \in Nat
      /\ Len(P) = K + N
      /\ \A i \in 1..K : P[i] = whole[i]
      /\ \A i \in 1..N : P[K + i] = new[i]
  BY SeqFacts, ConcatFacts DEF Chained
<1>2. Chained(P)
  OBVIOUS
<1>3. Replay(whole, l, FALSE) = Genesis(whole, l, FALSE)[K] /\ Replay(whole, l, FALSE).ok
      /\ Knows(z, whole, l, K)
  <2>1. EndRight(whole, l, no, Replay(whole, l, no), Replay(whole, l, FALSE))
    <3>1. no \in BOOLEAN
      OBVIOUS
    <3> HIDE DEF no
    <3> QED
      BY <3>1, ReplaysEnds
  <2> QED
    BY <2>1, ReplayIsLast DEF EndRight
<1>4. Together(v, es, z, whole) /\ v.legacy = l
  OBVIOUS
<1>5. Apply(v, new, es, writing) = Staged(v, new, es, writing)[N]
      /\ Apply(v, new, es, writing).ok
  BY DEF Apply
<1>6. Replay(P, l, FALSE) = Genesis(P, l, FALSE)[K + N]
  BY <1>1, ReplayIsLast
<1> HIDE DEF P, z
<1>7. Follows(Overlay(Empty(l), no), whole, Overlay(Empty(l), no), P,
              Genesis(whole, l, no)[K], Genesis(P, l, no)[K], K, whole)
  <2>1. no \in BOOLEAN /\ Genesis(whole, l, no)[K].ok
    BY <1>3
  <2>2. K <= Len(whole) /\ K <= Len(P) /\ K \in 0..K /\ \A i \in 1..K : whole[i] = P[i]
    BY <1>1
  <2> HIDE DEF no, K
  <2>3. \A n \in 0..K : Follows(Overlay(Empty(l), no), whole, Overlay(Empty(l), no), P,
                                Genesis(whole, l, no)[n], Genesis(P, l, no)[n], n, whole)
    BY <1>1, <2>1, <2>2, TwoReplays
  <2> QED
    BY <2>2, <2>3
<1>8. g.ok /\ Together(z, whole, w, P)
  BY <1>3, <1>7 DEF Follows, z
<1>9. Knows(w, P, l, K)
  <2>1. K \in 0..Len(P) /\ K \in 0..K
    BY <1>1
  <2>2. Genesis(P, l, FALSE)[K].ok
    BY <1>8
  <2> HIDE DEF K
  <2>3. \A n \in 0..K : Knows(Genesis(P, l, FALSE)[n].view, P, l, n)
    BY <1>2, <2>1, <2>2, GenesisKnows
  <2> QED
    BY <2>1, <2>3
<1> HIDE DEF g
<1>10. Together(v, es, w, P)
  BY <1>4, <1>8, TogetherBoth
<1>11. Meets(v, w, new[1])
  <2>1. v.len = K /\ w.len = K /\ v.txn \in 0..v.len /\ w.txn \in 0..w.len /\ w.legacy = l
    BY <1>9, <1>10 DEF Together, Alike, Whole, Knows, WF
  <2>2. new[1].txn # v.txn /\ new[1].txn # w.txn
    BY <1>1, <2>1
  <2> QED
    BY <1>4, <2>1, <2>2 DEF Meets, Settleable
<1>12. w.legacy = l
  BY <1>9 DEF Knows
<1>13. ASSUME NEW i \in 1..N
       PROVE  P[K + i] = new[i] /\ IsEntry(new[i]) /\ FoundIn(es, P, new[i])
  <2>1. K + i \in 1..Len(P) /\ P[K + i] = new[i]
    BY <1>1
  <2>2. IsEntry(P[K + i])
    BY <1>2, <2>1, ChainedEntry
  <2>3. Range(es) \subseteq Range(P)
    BY DEF P
  <2> QED
    BY <2>1, <2>2, <2>3 DEF FoundIn
<1> DEFINE u == Overlay(Empty(l), FALSE)
           B == Staged(u, P, P, FALSE)
<1>14. B[K].ok /\ w = B[K].view /\ B[K + N] = Replay(P, l, FALSE)
  BY <1>6, <1>8 DEF Genesis, g
<1>15. \A n \in 0..N : Follows(v, es, w, P, Staged(v, new, es, writing)[n], B[K + n], n, new)
  <2>1. /\ K \in Nat /\ N \in Nat /\ N <= Len(new) /\ K + N <= Len(P)
        /\ Staged(v, new, es, writing)[N].ok
    BY <1>1, <1>5
  <2>2. \A i \in 1..N : v.legacy = w.legacy \/ new[i].ver = 1
    BY <1>4, <1>12
  <2> HIDE DEF u, K, N, w
  <2> QED
    BY <1>1, <1>10, <1>11, <1>13, <1>14, <2>1, <2>2, Track
<1>16. Follows(v, es, w, P, Staged(v, new, es, writing)[N], B[K + N], N, new)
  <2>1. N \in 0..N
    BY <1>1
  <2> HIDE DEF B, w, N
  <2> QED
    BY <1>15, <2>1
<1>17. Follows(v, es, w, P, Apply(v, new, es, writing), Replay(P, l, FALSE), N, new)
  <2> HIDE DEF B, w, N
  <2> QED
    BY <1>5, <1>14, <1>16
<1> QED
  BY <1>17 DEF P, g

\* Where a replay of c stands after its first entries P.
StandsAt(c, l, n, P, g) ==
    /\ Chained(P) /\ Len(P) = n /\ Replays(P, l) /\ \A i \in 1..n : P[i] = c[i]
    /\ g.ok /\ g.view.net = 0 /\ Knows(g.view, c, l, n)
    /\ Together(g.view, c, Replay(P, l, FALSE).view, P)

\* A chain that replays does so up to the end of each of its transactions.
LEMMA EndsReplay ==
    ASSUME NEW c, Chained(c), NEW l, Replays(c, l), NEW n, Ends(c, n)
    PROVE  StandsAt(c, l, n, SubSeq(c, 1, n), Genesis(c, l, FALSE)[n])
<1> DEFINE P == SubSeq(c, 1, n)
           N == Len(c)
           g == Genesis(c, l, FALSE)[n]
           no == FALSE
<1>1. IsSeq(c) /\ N \in Nat /\ n \in 1..N /\ n \in Nat /\ n <= N /\ n \in 0..N
  BY SeqFacts DEF Chained, Ends
<1>2. /\ IsSeq(P) /\ Len(P) = n /\ \A i \in 1..n : P[i] = c[i]
  <2>1. 1 \in 1..(Len(c) + 1) /\ n - 1 + 1 = n /\ 1 <= n + 1
    BY <1>1
  <2>2. /\ IsSeq(P) /\ Len(P) = n - 1 + 1 /\ \A i \in 1..(n - 1 + 1) : P[i] = c[1 + i - 1]
    BY <1>1, <2>1, SubSeqFacts
  <2>3. \A i \in 1..n : 1 + i - 1 = i
    BY <1>1
  <2> HIDE DEF P
  <2> QED
    BY <2>1, <2>2, <2>3
<1> HIDE DEF P
<1>3. Chained(P)
  <2>1. \A i \in 1..n : i \in 1..Len(c)
    BY <1>1
  <2> QED
    BY <1>2, <2>1 DEF Chained
<1>4. Genesis(c, l, FALSE)[N].ok /\ Replay(c, l, FALSE).view.net = 0
      /\ Replay(c, l, FALSE) = Genesis(c, l, FALSE)[N]
  BY ReplayIsLast DEF Replays
<1>5. AcceptsUpTo(Genesis(c, l, FALSE), N, Overlay(Empty(l), FALSE), c, c, FALSE)
  <2> DEFINE u == Overlay(Empty(l), FALSE)
  <2>1. N \in 0..Len(c)
    BY <1>1
  <2>3. Staged(u, c, c, FALSE)[N].ok
    BY <1>4 DEF Genesis
  <2> HIDE DEF u, N
  <2>2. AcceptsUpTo(Staged(u, c, c, FALSE), N, u, c, c, FALSE)
    BY <1>1, <2>1, <2>3, AcceptedBefore
  <2> QED
    BY <2>2 DEF Genesis, u
<1>6. g.ok
  BY <1>1, <1>5 DEF AcceptsUpTo
<1>7. Knows(g.view, c, l, n)
  <2>1. n \in 0..Len(c) /\ n \in 0..n
    BY <1>1
  <2>3. Genesis(c, l, FALSE)[n].ok
    BY <1>6
  <2>2. \A m \in 0..n : Knows(Genesis(c, l, FALSE)[m].view, c, l, m)
    BY <2>1, <2>3, GenesisKnows
  <2> QED
    BY <2>1, <2>2
<1>8. g.view.net = 0
  <2>1. CASE n = N
    BY <1>4, <2>1
  <2>2. CASE n # N
    <3>1. n < Len(c) /\ n + 1 \in 1..N /\ (n + 1) - 1 = n
      BY <1>1, <2>2
    <3>2. c[n + 1].txn = n + 1
      BY <3>1 DEF Ends
    <3>3. Accepts(g.view, c[n + 1], c, FALSE)
      BY <1>5, <3>1 DEF AcceptsUpTo
    <3>4. g.view.txn \in 0..n
      BY <1>7 DEF Knows, WF
    <3>5. c[n + 1].txn # g.view.txn
      <4>1. n + 1 \notin 0..n
        BY <1>1
      <4> QED
        BY <3>2, <3>4, <4>1
    <3> HIDE DEF g
    <3> QED
      BY <3>3, <3>5 DEF Accepts, CheckTransaction
  <2> QED
    BY <2>1, <2>2
<1>9. Follows(Overlay(Empty(l), no), c, Overlay(Empty(l), no), P,
              Genesis(c, l, no)[n], Genesis(P, l, no)[n], n, c)
  <2>1. no \in BOOLEAN /\ Genesis(c, l, no)[n].ok
    BY <1>6
  <2>2. n <= Len(c) /\ n <= Len(P) /\ n \in 0..n /\ \A i \in 1..n : c[i] = P[i]
    BY <1>1, <1>2
  <2> HIDE DEF no
  <2>3. \A m \in 0..n : Follows(Overlay(Empty(l), no), c, Overlay(Empty(l), no), P,
                                Genesis(c, l, no)[m], Genesis(P, l, no)[m], m, c)
    BY <1>1, <1>2, <2>1, <2>2, TwoReplays
  <2> QED
    BY <2>2, <2>3
<1>10. Replay(P, l, FALSE) = Genesis(P, l, FALSE)[n]
  BY <1>2, ReplayIsLast
<1>11. Replay(P, l, FALSE).ok /\ Together(g.view, c, Replay(P, l, FALSE).view, P)
  BY <1>9, <1>10 DEF Follows
<1>12. Replays(P, l)
  BY <1>8, <1>11 DEF Replays, Together, Alike
<1> QED
  BY <1>2, <1>3, <1>6, <1>7, <1>8, <1>11, <1>12 DEF P, g, StandsAt
----------------------------------------------------------------------------
(* Merging, and a view staged over what was merged *)

StateFields ==
    Whole \cup {"bal", "holds", "ambiguous", "nodes", "tripped", "spent", "refunded",
                "counts", "spendRefunds"}

\* What Merge leaves.
Merged(v, m) ==
    /\ DOMAIN m = StateFields /\ m = [f \in DOMAIN m |-> m[f]]
    /\ \A f \in Whole : m[f] = v[f]
    /\ m.holds = OpenHolds(v) /\ m.ambiguous = Marked(v) /\ m.nodes = MergedNodes(v)
    /\ m.tripped = Halted(v) /\ m.counts = Counted(v)
    /\ m.bal = Over(v.bal, v.base.bal) /\ m.spent = Over(v.spent, v.base.spent)
    /\ m.refunded = Over(v.refunded, v.base.refunded)
    /\ m.spendRefunds = IF v.keeps THEN v.base.spendRefunds
                        ELSE Over(v.spendRefunds, v.base.spendRefunds)

\* Merging takes what the view says, of itself and of its base.
LEMMA MergeFields ==
    ASSUME NEW v
    PROVE  Merged(v, Merge(v))
<1> DEFINE top == [f \in Whole |-> v[f]]
           low == [bal |-> Over(v.bal, v.base.bal),
                   holds |-> OpenHolds(v),
                   ambiguous |-> v.base.ambiguous \cup v.ambiguous,
                   nodes |-> MergedNodes(v),
                   tripped |-> Without(Over(v.tripped, v.base.tripped), "RESET"),
                   spent |-> Over(v.spent, v.base.spent),
                   refunded |-> Over(v.refunded, v.base.refunded),
                   counts |-> Without(Over(v.counts, v.base.counts), 0),
                   spendRefunds |-> IF v.keeps THEN v.base.spendRefunds
                                    ELSE Over(v.spendRefunds, v.base.spendRefunds)]
           names == {"bal", "holds", "ambiguous", "nodes", "tripped", "spent", "refunded",
                     "counts", "spendRefunds"}
<1>1. Merge(v) = Over(top, low)
  BY DEF Merge, Folded
<1>2. DOMAIN top = Whole /\ DOMAIN low = names /\ \A f \in Whole : top[f] = v[f]
  OBVIOUS
<1>3. /\ low.bal = Over(v.bal, v.base.bal) /\ low.holds = OpenHolds(v)
      /\ low.ambiguous = Marked(v) /\ low.nodes = MergedNodes(v) /\ low.tripped = Halted(v)
      /\ low.spent = Over(v.spent, v.base.spent)
      /\ low.refunded = Over(v.refunded, v.base.refunded) /\ low.counts = Counted(v)
      /\ low.spendRefunds = IF v.keeps THEN v.base.spendRefunds
                            ELSE Over(v.spendRefunds, v.base.spendRefunds)
  BY DEF Marked, Halted, Counted
<1> HIDE DEF top, low
<1>4. /\ DOMAIN Over(top, low) = StateFields
      /\ Over(top, low) = [f \in DOMAIN Over(top, low) |-> Over(top, low)[f]]
  BY <1>2 DEF Over, StateFields
<1>5. /\ \A f \in Whole : Over(top, low)[f] = v[f]
      /\ \A f \in names : f \notin Whole
  BY <1>2, OverAt DEF Whole
<1>6. \A f \in names : Over(top, low)[f] = low[f]
  BY <1>2, <1>5, OverAt
<1>7. Merged(v, Over(top, low))
  BY <1>3, <1>4, <1>5, <1>6 DEF Merged
<1> QED
  BY <1>1, <1>7

\* Alike views merge into the same state.
LEMMA MergeAlike ==
    ASSUME NEW v, NEW w, NEW es, NEW fs, Together(v, es, w, fs), v.legacy = w.legacy,
           v.keeps = w.keeps, v.keeps => v.base.spendRefunds = w.base.spendRefunds
    PROVE  Merge(v) = Merge(w)
<1> DEFINE m == Merge(v)
           n == Merge(w)
<1>1. Merged(v, m) /\ Merged(w, n)
  BY MergeFields
<1> HIDE DEF m, n
<1>2. WF(v) /\ WF(w) /\ Alike(v, es, w, fs)
  BY DEF Together
<1>3. \A f \in Whole : m[f] = n[f]
  BY <1>1, <1>2 DEF Merged, Alike
<1>4. m.holds = n.holds /\ m.ambiguous = n.ambiguous /\ m.nodes = n.nodes /\ m.tripped = n.tripped
  BY <1>1, <1>2 DEF Merged, Alike
<1>5. m.bal = n.bal /\ m.spent = n.spent /\ m.refunded = n.refunded
  BY <1>1, <1>2 DEF Merged, Alike
<1>6. m.counts = n.counts
  BY <1>1, <1>2 DEF Merged, Alike, WF
<1>7. m.spendRefunds = n.spendRefunds
  <2>1. CASE v.keeps
    BY <1>1, <2>1 DEF Merged
  <2>2. CASE ~v.keeps
    <3>1. m.spendRefunds = Refunds(v, es) /\ n.spendRefunds = Refunds(w, fs)
      BY <1>1, <2>2 DEF Merged, Refunds
    <3> QED
      BY <1>2, <3>1 DEF Alike
  <2> QED
    BY <2>1, <2>2
<1>8. \A f \in StateFields : m[f] = n[f]
  BY <1>3, <1>4, <1>5, <1>6, <1>7 DEF StateFields
<1>9. DOMAIN m = StateFields /\ DOMAIN n = StateFields
      /\ m = [f \in DOMAIN m |-> m[f]] /\ n = [f \in DOMAIN n |-> n[f]]
  BY <1>1 DEF Merged
<1>10. m = n
  BY <1>8, <1>9, SameFunction
<1> QED
  BY <1>10 DEF m, n

\* A view whose transaction ended.
Ended(v, es, w, fs, x) ==
    /\ Together(x, es, w, fs) /\ Merge(x) = Merge(v)
    /\ SameUnder(x, v) /\ x.txn = 0 /\ x.settleable = {} /\ x.net = v.net /\ x.len = v.len

\* Ending a transaction forgets where in it the view was, and no more.
LEMMA EndKeeps ==
    ASSUME NEW v, NEW w, NEW es, NEW fs, Together(v, es, w, fs)
    PROVE  Ended(v, es, w, fs, EndTransaction(v))
<1> DEFINE x == EndTransaction(v)
<1>1. WF(v) /\ WF(w) /\ Alike(v, es, w, fs) /\ DOMAIN v = ViewFields
  BY DEF Together, WF
<1>2. /\ DOMAIN x = ViewFields /\ x.txn = 0 /\ x.settleable = {}
      /\ \A f \in ViewFields \ {"txn", "settleable"} : x[f] = v[f]
  BY <1>1, EndFields
<1> HIDE DEF x
<1>3. /\ x.base = v.base /\ x.keeps = v.keeps /\ x.bal = v.bal /\ x.opened = v.opened
      /\ x.closed = v.closed /\ x.ambiguous = v.ambiguous /\ x.nodes = v.nodes
      /\ x.children = v.children /\ x.tripped = v.tripped /\ x.spent = v.spent
      /\ x.refunded = v.refunded /\ x.counts = v.counts /\ x.spendRefunds = v.spendRefunds
      /\ x.net = v.net
  BY <1>2 DEF ViewFields
<1>4. \A f \in Whole : x[f] = v[f]
  BY <1>2 DEF ViewFields, Whole
<1>5. x.len = v.len /\ x.legacy = v.legacy
  BY <1>4 DEF Whole
<1>6. /\ OpenHolds(x) = OpenHolds(v) /\ Marked(x) = Marked(v) /\ Halted(x) = Halted(v)
      /\ Counted(x) = Counted(v) /\ Refunds(x, es) = Refunds(v, es)
  BY <1>3 DEF OpenHolds, Marked, Halted, Counted, Refunds
<1>7. MergedNodes(x) = MergedNodes(v)
  BY <1>3 DEF MergedNodes, Node, Look
<1>8. HoldsOK(x) /\ NodesOK(x)
  BY <1>1, <1>3, <1>5, <1>6 DEF WF, HoldsOK, NodesOK
<1>9. WF(x)
  BY <1>1, <1>2, <1>3, <1>5, <1>6, <1>8 DEF WF
<1>10. Alike(x, es, v, es)
  BY <1>3, <1>4, <1>6, <1>7 DEF Alike
<1>11. Together(x, es, w, fs) /\ Together(x, es, v, es)
  BY <1>1, <1>9, <1>10, AlikeBoth DEF Together
<1>12. Merge(x) = Merge(v)
  BY <1>3, <1>5, <1>11, MergeAlike
<1> QED
  BY <1>2, <1>3, <1>5, <1>11, <1>12 DEF x, SameUnder, Ended

\* A view staged over what another merged goes on as it would, if both remember
\* the same refunds.
LEMMA Reopened ==
    ASSUME NEW v, WF(v), v.net = 0, NEW es, NEW k \in BOOLEAN, NEW fs, NEW S, S = Merge(v),
           Refunds(Overlay(S, k), fs) = Refunds(v, es)
    PROVE  LET o == Overlay(S, k) IN
           /\ Together(o, fs, v, es)
           /\ o.base = S /\ o.keeps = k /\ o.legacy = v.legacy /\ o.txn = 0 /\ o.settleable = {}
<1> DEFINE o == Overlay(S, k)
<1>1. /\ DOMAIN o = ViewFields
      /\ \A f \in Whole : o[f] = S[f]
      /\ o.base = S /\ o.keeps = k
      /\ o.bal = <<>> /\ o.opened = {} /\ o.closed = {} /\ o.ambiguous = {}
      /\ o.nodes = <<>> /\ o.children = <<>> /\ o.tripped = <<>>
      /\ o.spent = <<>> /\ o.refunded = <<>> /\ o.counts = <<>>
      /\ o.txn = 0 /\ o.settleable = {} /\ o.net = 0
  BY OverlayFields
<1>2. Merged(v, S)
  BY MergeFields
<1>3. Refunds(o, fs) = Refunds(v, es)
  OBVIOUS
<1> HIDE DEF o
<1>4. \A f \in Whole : o[f] = v[f]
  BY <1>1, <1>2 DEF Merged
<1>5. DOMAIN <<>> = {}
  OBVIOUS
<1>6. S.len = v.len /\ o.len = v.len /\ o.legacy = v.legacy
  BY <1>1, <1>2, <1>4 DEF Merged, Whole
<1>7. OpenHolds(o) = OpenHolds(v)
  BY <1>1, <1>2 DEF OpenHolds, Merged
<1>8. Marked(o) = Marked(v)
  BY <1>1, <1>2 DEF Marked, Merged
<1>9. /\ NodesOK(v)
      /\ S.nodes = [s \in DOMAIN S.nodes |-> S.nodes[s]]
      /\ \A s \in DOMAIN S.nodes : DOMAIN S.nodes[s] = NodeFields
                                   /\ S.nodes[s] = [f \in NodeFields |-> S.nodes[s][f]]
  <2>1. NodesOK(v) /\ S.nodes = MergedNodes(v)
    BY <1>2 DEF WF, Merged
  <2> QED
    BY <2>1, MergedAt
<1>10. NodesOK(o)
  BY <1>1, <1>5, <1>9 DEF NodesOK
<1>11. MergedNodes(o) = MergedNodes(v)
  <2> DEFINE M == MergedNodes(o)
  <2>1. /\ M = [s \in DOMAIN M |-> M[s]]
        /\ \A s : s \in DOMAIN M <=> Known(o, s)
        /\ \A s \in DOMAIN M :
             /\ M[s] = [f \in NodeFields |-> M[s][f]]
             /\ M[s].parent = Node(o, s).parent /\ M[s].depth = Node(o, s).depth
             /\ M[s].amt = Node(o, s).amt
             /\ M[s].children = Before(o, s).children \cup AddedTo(o, s)
    BY <1>10, MergedAt
  <2> HIDE DEF M
  <2>2. DOMAIN M = DOMAIN S.nodes
    BY <1>1, <1>5, <2>1 DEF Known
  <2>3. ASSUME NEW s \in DOMAIN M PROVE M[s] = S.nodes[s]
    <3>1. Node(o, s) = S.nodes[s] /\ Before(o, s) = S.nodes[s] /\ AddedTo(o, s) = {}
      BY <1>1, <1>5, <2>2 DEF Node, Look, Before, AddedTo
    <3>2. M[s].parent = S.nodes[s].parent /\ M[s].depth = S.nodes[s].depth
          /\ M[s].amt = S.nodes[s].amt /\ M[s].children = S.nodes[s].children
      BY <2>1, <3>1
    <3>3. \A f \in NodeFields : M[s][f] = S.nodes[s][f]
      BY <3>2 DEF NodeFields
    <3>4. M[s] = [f \in NodeFields |-> M[s][f]] /\ S.nodes[s] = [f \in NodeFields |-> S.nodes[s][f]]
      BY <1>9, <2>1, <2>2
    <3> QED
      BY <3>3, <3>4
  <2>4. M = S.nodes
    BY <1>9, <2>1, <2>2, <2>3, SameFunction
  <2> QED
    BY <1>2, <2>4 DEF M, Merged
<1>12. Halted(o) = Halted(v)
  <2>1. S.tripped = Halted(v) /\ S.tripped = [s \in DOMAIN S.tripped |-> S.tripped[s]]
    BY <1>2 DEF Merged, Halted, Without
  <2>2. Over(<<>>, S.tripped) = S.tripped
    BY <2>1, OverNothing
  <2>3. Halted(o) = Without(Halted(v), "RESET")
    BY <1>1, <2>1, <2>2 DEF Halted
  <2> QED
    BY <2>3, WithoutTwice DEF Halted
<1>13. \A f \in {"bal", "spent", "refunded"} : Over(o[f], o.base[f]) = Over(v[f], v.base[f])
  <2>1. \A f, g : Over(f, g) = [s \in DOMAIN Over(f, g) |-> Over(f, g)[s]]
    BY DEF Over
  <2>2. /\ S.bal = Over(v.bal, v.base.bal) /\ S.spent = Over(v.spent, v.base.spent)
        /\ S.refunded = Over(v.refunded, v.base.refunded)
    BY <1>2 DEF Merged
  <2>3. /\ Over(<<>>, S.bal) = S.bal /\ Over(<<>>, S.spent) = S.spent
        /\ Over(<<>>, S.refunded) = S.refunded
    BY <2>1, <2>2, OverNothing
  <2> QED
    BY <1>1, <2>2, <2>3
<1>14. Counted(o) = Counted(v)
  <2>1. S.counts = Counted(v) /\ S.counts = [s \in DOMAIN S.counts |-> S.counts[s]]
    BY <1>2 DEF Merged, Counted, Without
  <2>2. Over(<<>>, S.counts) = S.counts
    BY <2>1, OverNothing
  <2>3. Counted(o) = Without(Counted(v), 0)
    BY <1>1, <2>1, <2>2 DEF Counted
  <2> QED
    BY <2>3, WithoutTwice DEF Counted
<1>15. HoldsOK(o)
  <2>1. HoldsOK(v) /\ S.holds = OpenHolds(v) /\ v.len \in Nat
    BY <1>2 DEF WF, Merged
  <2>2. \A h \in S.holds : h.id <= S.len
    BY <1>6, <2>1 DEF HoldsOK
  <2> QED
    BY <1>1, <1>6, <1>7, <2>1, <2>2 DEF HoldsOK
<1>16. WF(o)
  BY <1>1, <1>6, <1>7, <1>10, <1>14, <1>15 DEF WF
<1>17. Alike(o, fs, v, es)
  BY <1>1, <1>3, <1>4, <1>7, <1>8, <1>11, <1>12, <1>13 DEF Alike
<1> QED
  BY <1>1, <1>6, <1>16, <1>17 DEF o, Together
----------------------------------------------------------------------------
(* The state of a chain *)

\* A view o staged over the state S of a chain.
Reopens(c, l, k, fs, S, o) ==
    /\ Together(o, fs, Replay(c, l, FALSE).view, c)
    /\ o.base = S /\ o.keeps = k /\ o.legacy = l /\ o.txn = 0 /\ o.settleable = {}
    /\ Merged(Replay(c, l, k).view, S)
    /\ S.len = Len(c) /\ S.legacy = l /\ (k => S.spendRefunds = <<>>)
    /\ S.counts = Census(S.holds)

\* A view staged over the state of a chain goes on as a replay of it would,
\* also where the store's refunds are looked up in a longer chain.
LEMMA StateReopens ==
    ASSUME NEW c, Chained(c), NEW l, Replays(c, l), NEW k \in BOOLEAN, NEW fs,
           k => HistoryRefunds(fs, Len(c)) = HistoryRefunds(c, Len(c)),
           NEW S, S = StateOf(c, l, k)
    PROVE  Reopens(c, l, k, fs, S, Overlay(S, k))
<1> DEFINE r == Replay(c, l, k).view
           z == Replay(c, l, FALSE).view
           o == Overlay(S, k)
<1>1. /\ r.net = 0 /\ Together(r, c, z, c) /\ Knows(z, c, l, Len(c))
      /\ r.base = Empty(l) /\ r.keeps = k /\ r.legacy = l /\ r.len = Len(c)
  <2>1. EndRight(c, l, k, Replay(c, l, k), Replay(c, l, FALSE))
    BY ReplaysEnds
  <2> QED
    BY <2>1 DEF EndRight
<1>2. S = Merge(EndTransaction(r))
  BY DEF StateOf
<1> HIDE DEF r, z
<1>3. S = Merge(r)
  <2>1. Ended(r, c, z, c, EndTransaction(r))
    BY <1>1, EndKeeps
  <2> QED
    BY <1>2, <2>1 DEF Ended
<1>4. Merged(r, S)
  BY <1>3, MergeFields
<1>5. WF(r) /\ Refunds(r, c) = HistoryRefunds(c, Len(c))
  BY <1>1 DEF Together, Alike, Knows
<1>6. S.len = Len(c) /\ S.legacy = l
  BY <1>1, <1>4 DEF Merged, Whole
<1>7. k => S.spendRefunds = <<>>
  BY <1>1, <1>4 DEF Merged, Empty
<1>8. S.counts = Census(S.holds)
  BY <1>4, <1>5 DEF Merged, WF
<1>9. Refunds(o, fs) = Refunds(r, c)
  <2>1. o.spendRefunds = <<>> /\ o.base = S /\ o.keeps = k
    BY OverlayFields
  <2> HIDE DEF o
  <2>2. CASE k
    <3> DEFINE H == HistoryRefunds(fs, Len(c))
    <3>1. Refunds(o, fs) = Over(<<>>, H)
      BY <1>6, <2>1, <2>2 DEF Refunds
    <3>2. H = [s \in DOMAIN H |-> H[s]]
      BY DEF HistoryRefunds
    <3>3. H = HistoryRefunds(c, Len(c))
      BY <2>2
    <3> HIDE DEF H
    <3>4. Over(<<>>, H) = H
      BY <3>2, OverNothing
    <3> QED
      BY <1>5, <3>1, <3>3, <3>4
  <2>3. CASE ~k
    <3> DEFINE H == Over(r.spendRefunds, r.base.spendRefunds)
    <3>1. Refunds(o, fs) = Over(<<>>, S.spendRefunds) /\ S.spendRefunds = H /\ Refunds(r, c) = H
      BY <1>1, <1>4, <2>1, <2>3 DEF Refunds, Merged
    <3>2. H = [s \in DOMAIN H |-> H[s]]
      BY DEF Over
    <3> HIDE DEF H
    <3>3. Over(<<>>, H) = H
      BY <3>2, OverNothing
    <3> QED
      BY <3>1, <3>3
  <2> QED
    BY <2>2, <2>3
<1>10. /\ Together(o, fs, r, c)
       /\ o.base = S /\ o.keeps = k /\ o.legacy = r.legacy /\ o.txn = 0 /\ o.settleable = {}
  <2>1. k \in BOOLEAN /\ r.net = 0
    BY <1>1
  <2> QED
    BY <1>3, <1>5, <1>9, <2>1, Reopened
<1> HIDE DEF o
<1>11. Together(o, fs, z, c)
  BY <1>1, <1>10, TogetherBoth
<1> QED
  BY <1>1, <1>4, <1>6, <1>7, <1>8, <1>10, <1>11 DEF r, z, o, Reopens

\* A view alike a chain's replay merges into the chain's state.
LEMMA MergesIntoState ==
    ASSUME NEW c, Chained(c), NEW l, Replays(c, l), NEW k \in BOOLEAN, NEW v, NEW es,
           Together(v, es, Replay(c, l, FALSE).view, c), v.legacy = l, v.keeps = k,
           k => v.base.spendRefunds = <<>>
    PROVE  Merge(v) = StateOf(c, l, k)
<1> DEFINE r == Replay(c, l, k).view
           z == Replay(c, l, FALSE).view
<1>1. /\ Together(r, c, z, c) /\ r.base = Empty(l) /\ r.keeps = k /\ r.legacy = l
  <2>1. EndRight(c, l, k, Replay(c, l, k), Replay(c, l, FALSE))
    BY ReplaysEnds
  <2> QED
    BY <2>1 DEF EndRight
<1>2. Together(v, es, z, c)
  OBVIOUS
<1>3. StateOf(c, l, k) = Merge(EndTransaction(r))
  BY DEF StateOf
<1> HIDE DEF r, z
<1>4. Together(v, es, r, c)
  BY <1>1, <1>2, TogetherBoth
<1>5. v.keeps => v.base.spendRefunds = r.base.spendRefunds
  BY <1>1 DEF Empty
<1>6. Merge(v) = Merge(r)
  BY <1>1, <1>4, <1>5, MergeAlike
<1>7. Merge(EndTransaction(r)) = Merge(r)
  <2>1. Ended(r, c, z, c, EndTransaction(r))
    BY <1>1, EndKeeps
  <2> QED
    BY <2>1 DEF Ended
<1> QED
  BY <1>3, <1>6, <1>7

\* A snapshot decodes to the state it was encoded from.
LEMMA Decoded ==
    ASSUME NEW S, DOMAIN S = StateFields, S = [f \in DOMAIN S |-> S[f]],
           S.spendRefunds = <<>>, S.counts = Census(S.holds)
    PROVE  Decode(Encode(S)) = S
<1> DEFINE body == Encode(S)
           low == [spendRefunds |-> <<>>, counts |-> Census(body.holds)]
           D == Over(body, low)
<1>1. DOMAIN body = StateFields \ {"counts", "spendRefunds"}
      /\ \A f \in StateFields \ {"counts", "spendRefunds"} : body[f] = S[f]
  BY DEF Encode
<1>2. "holds" \in StateFields \ {"counts", "spendRefunds"}
      /\ "counts" \in StateFields /\ "spendRefunds" \in StateFields
  BY DEF StateFields
<1>3. DOMAIN low = {"spendRefunds", "counts"} /\ low.spendRefunds = <<>>
      /\ low.counts = Census(body.holds)
  OBVIOUS
<1>4. Decode(Encode(S)) = D
  BY DEF Decode
<1> HIDE DEF body, low
<1>5. body.holds = S.holds
  BY <1>1, <1>2
<1>6. DOMAIN D = StateFields /\ D = [f \in DOMAIN D |-> D[f]]
  BY <1>1, <1>2, <1>3 DEF Over
<1>7. ASSUME NEW f \in StateFields PROVE D[f] = S[f]
  <2>1. CASE f \in {"counts", "spendRefunds"}
    <3>1. f \notin DOMAIN body /\ f \in DOMAIN low
      BY <1>1, <1>3, <2>1
    <3>2. D[f] = low[f]
      BY <3>1, OverAt
    <3> QED
      BY <1>3, <1>5, <2>1, <3>2
  <2>2. CASE f \notin {"counts", "spendRefunds"}
    <3>1. f \in DOMAIN body /\ body[f] = S[f]
      BY <1>1, <2>2
    <3> QED
      BY <3>1, OverAt
  <2> QED
    BY <2>1, <2>2
<1> HIDE DEF D
<1>8. D = S
  BY <1>6, <1>7, SameFunction
<1> QED
  BY <1>4, <1>8

----------------------------------------------------------------------------
(* A transaction posted *)

\* What a line of a transaction must say for its entry to be read.
Lines(lines) ==
    /\ IsSeq(lines) /\ Len(lines) > 0
    /\ \A i \in 1..Len(lines) : lines[i].amt \in Nat /\ lines[i].ref \in Nat

\* Entries built from lines for the places after n.
BuiltOf(n, lines, ver, built) ==
    /\ IsSeq(built) /\ Len(built) = Len(lines)
    /\ \A i \in 1..Len(lines) :
         /\ built[i].seq = n + i /\ built[i].txn = n + 1
         /\ built[i].ver = ver /\ built[i].type = lines[i].type
         /\ built[i].amt = lines[i].amt /\ built[i].ref = lines[i].ref
         /\ built[i].memo = lines[i].memo

\* post() numbers the entries it builds on, and takes the rest from the lines.
LEMMA BuiltEntries ==
    ASSUME NEW v, v.len \in Nat, NEW lines, Lines(lines), NEW ver
    PROVE  BuiltOf(v.len, lines, ver, Build(v, lines, ver))
<1> DEFINE built == Build(v, lines, ver)
           row(i) == [type |-> lines[i].type, dir |-> lines[i].dir, scope |-> lines[i].scope,
                      cpty |-> lines[i].cpty, amt |-> lines[i].amt, ref |-> lines[i].ref,
                      memo |-> lines[i].memo, seq |-> v.len + i, txn |-> v.len + 1, ver |-> ver,
                      bal |-> Balance(v, lines[i].scope) +
                              SumFunctionOnSet([j \in DOMAIN lines |-> Signed(lines[j])],
                                               {j \in 1..i : lines[j].scope = lines[i].scope})]
<1>1. Len(lines) \in Nat /\ DOMAIN lines = 1..Len(lines)
  BY SeqFacts DEF Lines
<1>2. built = [i \in DOMAIN lines |-> row(i)]
  BY DEF Build
<1>3. \A i : /\ row(i).seq = v.len + i /\ row(i).txn = v.len + 1
             /\ row(i).ver = ver /\ row(i).type = lines[i].type
             /\ row(i).amt = lines[i].amt /\ row(i).ref = lines[i].ref
             /\ row(i).memo = lines[i].memo
  OBVIOUS
<1> HIDE DEF row, built
<1>4. DOMAIN built = 1..Len(lines) /\ built = [i \in 1..Len(lines) |-> built[i]]
      /\ \A i \in 1..Len(lines) : built[i] = row(i)
  BY <1>1, <1>2
<1>5. IsSeq(built) /\ Len(built) = Len(lines)
  BY <1>1, <1>4, IsSeqOf
<1> QED
  BY <1>3, <1>4, <1>5 DEF built, BuiltOf

\* What a transaction accepted of view v makes of the chain, and x of the view.
Continues(whole, l, es, v, built, x) ==
    /\ IsSeq(built) /\ Len(built) > 0
    /\ Chained(whole \o built) /\ Replays(whole \o built, l) /\ Ends(whole \o built, Len(whole))
    /\ Together(x, es, Replay(whole \o built, l, FALSE).view, whole \o built)
    /\ SameUnder(x, v) /\ x.txn = 0 /\ x.settleable = {} /\ x.net = 0

\* Where a view alike a replay stands in its chain.
LEMMA StandsAtEnd ==
    ASSUME NEW c, Chained(c), NEW l, Replays(c, l), NEW v, NEW es,
           Together(v, es, Replay(c, l, FALSE).view, c)
    PROVE  v.len = Len(c) /\ WF(v) /\ v.net = 0 /\ (v.sawV1 <=> \E i \in 1..Len(c) : c[i].ver = 1)
           /\ (v.sawV2 <=> \E i \in 1..Len(c) : c[i].ver # 1)
<1> DEFINE z == Replay(c, l, FALSE)
           no == FALSE
<1>1. EndRight(c, l, no, Replay(c, l, no), z)
  <2>1. no \in BOOLEAN
    OBVIOUS
  <2> HIDE DEF no
  <2> QED
    BY <2>1, ReplaysEnds DEF z
<1>2. Together(v, es, z.view, c)
  OBVIOUS
<1> HIDE DEF z, no
<1>3. Knows(z.view, c, l, Len(c)) /\ z.view.net = 0
  BY <1>1 DEF EndRight
<1>4. WF(v) /\ v.net = z.view.net /\ v.len = z.view.len
      /\ v.sawV1 = z.view.sawV1 /\ v.sawV2 = z.view.sawV2
  BY <1>2 DEF Together, Alike, Whole
<1> QED
  BY <1>3, <1>4 DEF Knows

\* A chain numbered on by entries built from lines.
Grown(whole, lines, ver, built) ==
    /\ Chained(whole \o built)
    /\ IsSeq(built) /\ Len(built) = Len(lines) /\ Len(lines) \in Nat /\ Len(lines) > 0
    /\ built[1].txn = Len(whole) + 1
    /\ \A i \in 1..Len(lines) : /\ built[i].type = lines[i].type /\ built[i].ver = ver
                                /\ built[i].memo = lines[i].memo

\* An accepted transaction continues the chain: it is numbered on, and a refund
\* in it names a spend before it.
LEMMA ChainGrows ==
    ASSUME NEW whole, Chained(whole), NEW v, v.len = Len(whole), NEW es, NEW lines, Lines(lines),
           NEW ver \in 1..3, NEW writing,
           Apply(v, Build(v, lines, ver), es, writing).ok,
           Range(es) \subseteq Range(whole \o Build(v, lines, ver)),
           ver = 3 => Range(es) \subseteq Range(whole)
    PROVE  Grown(whole, lines, ver, Build(v, lines, ver))
<1> DEFINE built == Build(v, lines, ver)
           P == whole \o built
           K == Len(whole)
           N == Len(lines)
           A == Staged(v, built, es, writing)
<1>1. IsSeq(whole) /\ K \in Nat /\ DOMAIN whole = 1..K
      /\ IsSeq(lines) /\ N \in Nat /\ N > 0
  BY SeqFacts DEF Chained, Lines
<1>2. BuiltOf(v.len, lines, ver, built)
  BY <1>1, BuiltEntries
<1>3. Apply(v, built, es, writing).ok /\ (ver = 3 => Range(es) \subseteq Range(whole))
  OBVIOUS
<1> HIDE DEF built
<1>4. /\ IsSeq(built) /\ Len(built) = N
      /\ \A i \in 1..N : /\ built[i].seq = K + i /\ built[i].txn = K + 1
                         /\ built[i].ver = ver /\ built[i].type = lines[i].type
                         /\ built[i].amt = lines[i].amt /\ built[i].ref = lines[i].ref
                         /\ built[i].memo = lines[i].memo
  BY <1>2 DEF BuiltOf
<1>5. /\ IsSeq(P) /\ Len(P) = K + N
      /\ \A i \in 1..K : P[i] = whole[i]
      /\ \A i \in 1..N : P[K + i] = built[i]
  BY <1>1, <1>4, ConcatFacts
<1>6. AcceptsUpTo(A, N, v, built, es, writing)
  <2>1. A[N].ok /\ N \in 0..Len(built)
    BY <1>1, <1>3, <1>4 DEF Apply
  <2> HIDE DEF N
  <2> QED
    BY <1>4, <2>1, AcceptedBefore
<1> HIDE DEF A, P
<1>7. ASSUME NEW i \in 1..N, built[i].type = "REVERSAL", built[i].ref # 0
      PROVE  built[i].ref \in 1..K
  <2>1. CheckHolds(A[i - 1].view, built[i], es)
    BY <1>6 DEF AcceptsUpTo, Accepts
  <2>2. ver = 3
    <3>1. built[i].type \in Referencing(ver)
      BY <1>4, <1>7, <2>1 DEF CheckHolds
    <3> QED
      BY <1>7, <3>1 DEF Referencing
  <2>3. PICK s \in Range(es) : s.seq = built[i].ref
    BY <1>7, <2>1 DEF CheckHolds
  <2>4. PICK q \in DOMAIN whole : s = whole[q]
    BY <1>3, <2>2, <2>3 DEF Range
  <2>5. s.seq = q /\ q \in 1..K
    BY <1>1, <2>4 DEF Chained
  <2> QED
    BY <2>3, <2>5
<1>8. ASSUME NEW i \in 1..N
      PROVE  /\ P[K + i].seq = K + i /\ P[K + i].txn \in 1..(K + i)
             /\ P[K + i].amt \in Nat /\ P[K + i].ref \in Nat
             /\ P[K + i].type = "REVERSAL" /\ P[K + i].ref # 0 => P[K + i].ref < K + i
  <2>1. P[K + i] = built[i] /\ K + 1 \in 1..(K + i)
    BY <1>1, <1>5
  <2>2. lines[i].amt \in Nat /\ lines[i].ref \in Nat
    BY DEF Lines
  <2>3. built[i].type = "REVERSAL" /\ built[i].ref # 0 => built[i].ref < K + i
    <3>1. SUFFICES ASSUME built[i].type = "REVERSAL", built[i].ref # 0
                   PROVE  built[i].ref < K + i
      OBVIOUS
    <3>2. built[i].ref \in 1..K
      BY <1>7, <3>1
    <3> QED
      BY <1>1, <3>2
  <2> QED
    BY <1>4, <2>1, <2>2, <2>3
<1>9. ASSUME NEW i \in 1..(K + N)
      PROVE  /\ P[i].seq = i /\ P[i].txn \in 1..i
             /\ P[i].amt \in Nat /\ P[i].ref \in Nat
             /\ P[i].type = "REVERSAL" /\ P[i].ref # 0 => P[i].ref < i
  <2>1. CASE i \in 1..K
    BY <1>5, <2>1 DEF Chained
  <2>2. CASE i \notin 1..K
    <3>1. i - K \in 1..N /\ K + (i - K) = i
      BY <1>1, <2>2
    <3> HIDE DEF K, N
    <3>2. PICK m \in 1..N : K + m = i
      BY <3>1
    <3> QED
      BY <1>8, <3>2
  <2> QED
    BY <2>1, <2>2
<1>10. Chained(P)
  BY <1>5, <1>9 DEF Chained
<1>11. 1 \in 1..N
  BY <1>1
<1> QED
  BY <1>1, <1>4, <1>10, <1>11 DEF P, built, Grown

\* A transaction a view accepts, one alike the chain's replay, a replay of the
\* chain with it accepts too, and both go on alike.
LEMMA TransactionContinues ==
    ASSUME NEW whole, Chained(whole), Len(whole) > 0, NEW l, Replays(whole, l),
           NEW v, NEW es, v.legacy = l, Together(v, es, Replay(whole, l, FALSE).view, whole),
           NEW lines, Lines(lines), NEW ver \in 1..3, NEW writing,
           Range(es) \subseteq Range(whole \o Build(v, lines, ver)),
           ver = 3 => Range(es) \subseteq Range(whole),
           Apply(v, Build(v, lines, ver), es, writing).ok,
           Apply(v, Build(v, lines, ver), es, writing).view.net = 0
    PROVE  Continues(whole, l, es, v, Build(v, lines, ver),
                     EndTransaction(Apply(v, Build(v, lines, ver), es, writing).view))
<1> DEFINE built == Build(v, lines, ver)
           end == Apply(v, built, es, writing)
           P == whole \o built
           x == EndTransaction(end.view)
           g == Genesis(P, l, FALSE)[Len(whole)].view
           R == Replay(P, l, FALSE)
<1>1. v.len = Len(whole)
  BY StandsAtEnd
<1>2. /\ Chained(P) /\ IsSeq(built) /\ Len(built) \in Nat /\ Len(built) > 0
      /\ built[1].txn = Len(whole) + 1
  <2>1. Grown(whole, lines, ver, built)
    BY <1>1, ChainGrows
  <2> QED
    BY <2>1 DEF Grown
<1>3. end.ok /\ end.view.net = 0 /\ Range(es) \subseteq Range(P)
  OBVIOUS
<1> HIDE DEF built
<1>4. Follows(v, es, g, P, end, R, Len(built), built)
  BY <1>2, <1>3, Continue
<1> HIDE DEF end, R, P
<1>5. /\ R.ok /\ Together(end.view, es, R.view, P) /\ SameUnder(end.view, v)
  BY <1>4 DEF Follows
<1>6. R.view.net = 0
  BY <1>3, <1>5 DEF Together, Alike
<1>7. Replays(P, l)
  BY <1>5, <1>6 DEF Replays, R
<1>8. Ended(end.view, es, R.view, P, x)
  BY <1>5, EndKeeps
<1> HIDE DEF x
<1>9. Together(x, es, R.view, P) /\ SameUnder(x, v) /\ x.txn = 0 /\ x.settleable = {} /\ x.net = 0
  BY <1>3, <1>5, <1>8 DEF Ended, SameUnder
<1>10. Ends(P, Len(whole))
  <2>1. /\ IsSeq(whole) /\ Len(whole) \in Nat /\ Len(P) = Len(whole) + Len(built)
        /\ \A i \in 1..Len(built) : P[Len(whole) + i] = built[i]
    BY <1>2, SeqFacts, ConcatFacts DEF P, Chained
  <2>2. 1 \in 1..Len(built)
    BY <1>2
  <2>3. P[Len(whole) + 1].txn = Len(whole) + 1
    BY <1>2, <2>1, <2>2
  <2>4. Len(whole) \in 1..Len(P)
    BY <1>2, <2>1
  <2> QED
    BY <2>3, <2>4 DEF Ends
<1>11. Continues(whole, l, es, v, built, x)
  BY <1>2, <1>7, <1>9, <1>10 DEF Continues, P, R
<1> QED
  BY <1>11 DEF x, end, built

\* So does what post() accepts.
LEMMA PostContinues ==
    ASSUME NEW whole, Chained(whole), Len(whole) > 0, NEW l, Replays(whole, l),
           NEW v, NEW es, v.legacy = l, Together(v, es, Replay(whole, l, FALSE).view, whole),
           NEW lines, Lines(lines), Range(es) \subseteq Range(whole),
           NEW p, p = Posted(v, lines, es), p.ok
    PROVE  Continues(whole, l, es, v, p.built, p.view) /\ Grown(whole, lines, 3, p.built)
<1> DEFINE built == Build(v, lines, 3)
           end == Apply(v, built, es, TRUE)
           ver == 3
           yes == TRUE
<1>1. /\ p.ok = (end.ok /\ end.view.net = 0) /\ p.view = EndTransaction(end.view)
      /\ p.built = built
  BY DEF Posted
<1>2. end.ok /\ end.view.net = 0
  BY <1>1
<1>3. Range(whole) \subseteq Range(whole \o built)
  <2>1. v.len = Len(whole)
    BY StandsAtEnd
  <2>2. v.len \in Nat /\ IsSeq(whole)
    BY <2>1, SeqFacts DEF Chained
  <2>3. BuiltOf(v.len, lines, ver, Build(v, lines, ver))
    <3> HIDE DEF ver
    <3> QED
      BY <2>2, BuiltEntries
  <2>4. IsSeq(built)
    BY <2>3 DEF BuiltOf
  <2> HIDE DEF built
  <2>5. /\ \A i \in 1..Len(whole) : (whole \o built)[i] = whole[i]
        /\ DOMAIN whole = 1..Len(whole) /\ DOMAIN (whole \o built) = 1..(Len(whole) + Len(built))
        /\ Len(whole) \in Nat /\ Len(built) \in Nat
    BY <2>2, <2>4, SeqFacts, ConcatFacts
  <2>6. \A i \in DOMAIN whole : i \in DOMAIN (whole \o built) /\ whole[i] = (whole \o built)[i]
    BY <2>5
  <2> QED
    BY <2>6 DEF Range
<1>4. Range(es) \subseteq Range(whole \o built) /\ (ver = 3 => Range(es) \subseteq Range(whole))
      /\ ver \in 1..3
  BY <1>3
<1>5. Continues(whole, l, es, v, Build(v, lines, ver),
                EndTransaction(Apply(v, Build(v, lines, ver), es, yes).view))
  <2>1. /\ Apply(v, Build(v, lines, ver), es, yes).ok
        /\ Apply(v, Build(v, lines, ver), es, yes).view.net = 0
        /\ Range(es) \subseteq Range(whole \o Build(v, lines, ver))
        /\ ver = 3 => Range(es) \subseteq Range(whole)
        /\ ver \in 1..3
    BY <1>2, <1>4
  <2> HIDE DEF ver, yes
  <2> QED
    BY <2>1, TransactionContinues
<1>6. Grown(whole, lines, ver, Build(v, lines, ver))
  <2>1. /\ Apply(v, Build(v, lines, ver), es, yes).ok
        /\ Range(es) \subseteq Range(whole \o Build(v, lines, ver))
        /\ ver = 3 => Range(es) \subseteq Range(whole)
        /\ ver \in 1..3 /\ v.len = Len(whole)
    BY <1>2, <1>4, StandsAtEnd
  <2> HIDE DEF ver, yes
  <2> QED
    BY <2>1, ChainGrows
<1> QED
  BY <1>1, <1>5, <1>6

\* A sequence of one, and of two.
LEMMA ShortSequences ==
    ASSUME NEW a, NEW b
    PROVE  /\ IsSeq(<<a>>) /\ Len(<<a>>) = 1 /\ <<a>>[1] = a
           /\ IsSeq(<<a, b>>) /\ Len(<<a, b>>) = 2 /\ <<a, b>>[1] = a /\ <<a, b>>[2] = b
<1>1. <<a>> \in Seq({a}) /\ Range(<<a>>) = {a}
  BY DEF Range
<1>2. <<a, b>> \in Seq({a, b}) /\ Range(<<a, b>>) = {a, b}
  <2>1. DOMAIN <<a, b>> = {1, 2}
    OBVIOUS
  <2> QED
    BY <2>1 DEF Range
<1> QED
  BY <1>1, <1>2 DEF IsSeq

\* A line of a transaction a caller posts.
Plain(x) == x.amt \in Nat /\ x.ref \in Nat /\ x.type \notin {"CHECKPOINT", "SEAL"}

\* Transactions of one and of two such lines.
LEMMA PlainLines ==
    ASSUME NEW a, Plain(a), NEW b, Plain(b)
    PROVE  /\ Lines(<<a>>) /\ \A i \in 1..Len(<<a>>) : <<a>>[i].type # "CHECKPOINT"
           /\ Lines(<<a, b>>) /\ \A i \in 1..Len(<<a, b>>) : <<a, b>>[i].type # "CHECKPOINT"
<1>1. /\ IsSeq(<<a>>) /\ Len(<<a>>) = 1 /\ <<a>>[1] = a
      /\ IsSeq(<<a, b>>) /\ Len(<<a, b>>) = 2 /\ <<a, b>>[1] = a /\ <<a, b>>[2] = b
  BY ShortSequences
<1>2. \A i \in 1..1 : i = 1
  OBVIOUS
<1>3. \A i \in 1..2 : i = 1 \/ i = 2
  OBVIOUS
<1> QED
  BY <1>1, <1>2, <1>3 DEF Lines, Plain

\* Callers post lines with amounts and references the rules can read.
LEMMA TransactionLines ==
    ASSUME NEW kinds, NEW refs \in SUBSET Nat, NEW lines \in Transactions(kinds, refs)
    PROVE  Lines(lines) /\ \A i \in 1..Len(lines) : lines[i].type # "CHECKPOINT"
<1>1. \/ \E a : Plain(a) /\ lines = <<a>>
      \/ \E a, b : Plain(a) /\ Plain(b) /\ lines = <<a, b>>
  <2>1. \A x \in Amounts : x \in Nat
    BY RulesAssumption
  <2>2. \A type, dir, s, t, x, r, m :
          x \in Nat /\ r \in Nat /\ type \notin {"CHECKPOINT", "SEAL"} =>
            Plain(Line(type, dir, s, t, x, r, m))
    BY DEF Plain, Line
  <2>3. \A type \in kinds \cap {"FUNDING", "HOLD", "SPEND", "REVERSAL"} :
          type \notin {"CHECKPOINT", "SEAL"}
    OBVIOUS
  <2>4. \A type \in kinds \cap Balanced : type \notin {"CHECKPOINT", "SEAL"}
    BY DEF Balanced
  <2>5. \A type \in kinds \cap (Control \cup {"ANCHOR"}) : type \notin {"CHECKPOINT", "SEAL"}
    BY DEF Control
  <2>6. 0 \in Nat /\ \A r \in refs : r \in Nat
    OBVIOUS
  <2>7. CASE lines \in
          UNION {{<<Line(type, dir, s, None, a, 0, <<>>)>> : dir \in LegalDirections(type)} :
             type \in kinds \cap {"FUNDING", "HOLD", "SPEND", "REVERSAL"},
             s \in Scopes, a \in Amounts}
    <3>1. PICK type \in kinds \cap {"FUNDING", "HOLD", "SPEND", "REVERSAL"}, s \in Scopes,
               a \in Amounts :
            lines \in {<<Line(type, dir, s, None, a, 0, <<>>)>> : dir \in LegalDirections(type)}
      BY <2>7
    <3>2. PICK dir \in LegalDirections(type) : lines = <<Line(type, dir, s, None, a, 0, <<>>)>>
      BY <3>1
    <3>3. Plain(Line(type, dir, s, None, a, 0, <<>>))
      BY <2>1, <2>2, <2>3, <2>6
    <3> QED
      BY <3>2, <3>3
  <2>8. CASE lines \in
          UNION {{<<Line(type, "DEBIT", s, t, a, 0, <<>>), Line(type, "CREDIT", t, s, a, 0, <<>>)>>,
                  <<Line(type, "CREDIT", t, s, a, 0, <<>>)>>} :
             type \in kinds \cap Balanced, s \in Scopes, t \in Scopes, a \in Amounts}
    <3>1. PICK type \in kinds \cap Balanced, s \in Scopes, t \in Scopes, a \in Amounts :
            lines \in {<<Line(type, "DEBIT", s, t, a, 0, <<>>),
                         Line(type, "CREDIT", t, s, a, 0, <<>>)>>,
                       <<Line(type, "CREDIT", t, s, a, 0, <<>>)>>}
      BY <2>8
    <3>2. /\ Plain(Line(type, "DEBIT", s, t, a, 0, <<>>))
          /\ Plain(Line(type, "CREDIT", t, s, a, 0, <<>>))
      BY <2>1, <2>2, <2>4, <2>6
    <3> QED
      BY <3>1, <3>2
  <2>9. CASE lines \in
          UNION {{<<Line("HOLD_VOID", "CREDIT", s, None, a, r, <<>>)>>,
                  <<Line("HOLD_VOID", "CREDIT", s, None, a, r, <<>>),
                    Line("SPEND", "DEBIT", s, None, a, r, <<>>)>>} :
             s \in IF "HOLD_VOID" \in kinds THEN Scopes ELSE {}, a \in Amounts, r \in refs}
    <3>1. PICK s \in (IF "HOLD_VOID" \in kinds THEN Scopes ELSE {}), a \in Amounts, r \in refs :
            lines \in {<<Line("HOLD_VOID", "CREDIT", s, None, a, r, <<>>)>>,
                       <<Line("HOLD_VOID", "CREDIT", s, None, a, r, <<>>),
                         Line("SPEND", "DEBIT", s, None, a, r, <<>>)>>}
      BY <2>9
    <3>2. /\ Plain(Line("HOLD_VOID", "CREDIT", s, None, a, r, <<>>))
          /\ Plain(Line("SPEND", "DEBIT", s, None, a, r, <<>>))
      BY <2>1, <2>2, <2>6
    <3> QED
      BY <3>1, <3>2
  <2>10. CASE lines \in
          {<<Line("REVERSAL", "CREDIT", s, None, a, r, <<>>)>> :
             s \in IF "REVERSAL" \in kinds THEN Scopes ELSE {}, a \in Amounts, r \in refs}
    <3>1. PICK s \in (IF "REVERSAL" \in kinds THEN Scopes ELSE {}), a \in Amounts, r \in refs :
            lines = <<Line("REVERSAL", "CREDIT", s, None, a, r, <<>>)>>
      BY <2>10
    <3>2. Plain(Line("REVERSAL", "CREDIT", s, None, a, r, <<>>))
      BY <2>1, <2>2, <2>6
    <3> QED
      BY <3>1, <3>2
  <2>11. CASE lines \in
          {<<Line(type, "NONE", s, None, 0, 0, <<>>)>> :
             type \in kinds \cap (Control \cup {"ANCHOR"}), s \in Scopes}
    <3>1. PICK type \in kinds \cap (Control \cup {"ANCHOR"}), s \in Scopes :
            lines = <<Line(type, "NONE", s, None, 0, 0, <<>>)>>
      BY <2>11
    <3>2. Plain(Line(type, "NONE", s, None, 0, 0, <<>>))
      BY <2>2, <2>5, <2>6
    <3> QED
      BY <3>1, <3>2
  <2> QED
    BY <2>7, <2>8, <2>9, <2>10, <2>11 DEF Transactions
<1> QED
  BY <1>1, PlainLines
----------------------------------------------------------------------------
(* Snapshots *)

\* What a snapshot is of stays where the chain grows past it.
LEMMA SnapshotStays ==
    ASSUME NEW c, Chained(c), NEW t, IsSeq(t), Ends(c \o t, Len(c)), NEW l, NEW n, NEW body,
           SnapshotOf(c, l, n, body)
    PROVE  SnapshotOf(c \o t, l, n, body)
<1>1. /\ IsSeq(c) /\ Len(c) \in Nat /\ Len(t) \in Nat /\ Len(c \o t) = Len(c) + Len(t)
      /\ \A i \in 1..Len(c) : (c \o t)[i] = c[i]
  BY SeqFacts, ConcatFacts DEF Chained
<1>2. n \in 1..Len(c) /\ (n < Len(c) => c[n + 1].txn = n + 1)
  BY DEF SnapshotOf, Ends
<1>3. n \in 1..Len(c \o t)
  BY <1>1, <1>2
<1>4. n < Len(c \o t) => (c \o t)[n + 1].txn = n + 1
  <2>1. CASE n < Len(c)
    <3>1. n + 1 \in 1..Len(c)
      BY <1>1, <1>2, <2>1
    <3> QED
      BY <1>1, <1>2, <2>1, <3>1
  <2>2. CASE ~(n < Len(c))
    <3>1. n = Len(c)
      BY <1>1, <1>2, <2>2
    <3> QED
      BY <3>1 DEF Ends
  <2> QED
    BY <2>1, <2>2
<1>5. SubSeq(c \o t, 1, n) = SubSeq(c, 1, n)
  <2>1. n \in Nat /\ n <= Len(c)
    BY <1>1, <1>2
  <2> QED
    BY <1>1, <2>1, PrefixStays
<1> QED
  BY <1>3, <1>4, <1>5 DEF SnapshotOf, Ends

\* The whole chain has one.
LEMMA SnapshotOfAll ==
    ASSUME NEW c, Chained(c), Len(c) > 0, NEW l
    PROVE  SnapshotOf(c, l, Len(c), Encode(StateOf(c, l, TRUE)))
<1>1. IsSeq(c) /\ Len(c) \in Nat
  BY SeqFacts DEF Chained
<1>2. SubSeq(c, 1, Len(c)) = c
  BY <1>1, WholePrefix
<1>3. Ends(c, Len(c))
  BY <1>1 DEF Ends
<1> QED
  BY <1>2, <1>3 DEF SnapshotOf

\* A snapshot of the chain decodes to the state of the entries before it, and a
\* view over that state goes on as a replay of the chain does from there.
LEMMA SnapshotReopens ==
    ASSUME NEW c, Chained(c), NEW l, Replays(c, l), NEW n, NEW body, SnapshotOf(c, l, n, body)
    PROVE  LET o == Overlay(Decode(body), TRUE)
               w == Genesis(c, l, FALSE)[n].view
           IN /\ Together(o, c, w, c) /\ w.legacy = l /\ w.txn \in 0..n
              /\ o.base.spendRefunds = <<>> /\ o.keeps = TRUE /\ o.legacy = l /\ o.txn = 0
<1> DEFINE P == SubSeq(c, 1, n)
           k == TRUE
           no == FALSE
           S == StateOf(P, l, k)
           o == Overlay(S, k)
           g == Genesis(c, l, FALSE)[n]
           z == Replay(P, l, FALSE)
<1>1. Ends(c, n) /\ body = Encode(S)
  BY DEF SnapshotOf
<1>2. StandsAt(c, l, n, P, g)
  BY <1>1, EndsReplay
<1> HIDE DEF P, g
<1>3. /\ Chained(P) /\ Len(P) = n /\ Replays(P, l)
      /\ Knows(g.view, c, l, n) /\ Together(g.view, c, z.view, P)
  BY <1>2 DEF StandsAt
<1>4. Knows(z.view, P, l, n)
  <2>1. EndRight(P, l, no, Replay(P, l, no), z)
    <3>1. no \in BOOLEAN
      OBVIOUS
    <3> HIDE DEF no
    <3> QED
      BY <1>3, <3>1, ReplaysEnds
  <2> QED
    BY <1>3, <2>1 DEF EndRight
<1> HIDE DEF z
<1>5. HistoryRefunds(c, n) = HistoryRefunds(P, n)
  BY <1>3, <1>4 DEF Knows, Together, Alike
<1>6. Reopens(P, l, k, c, S, o)
  <2>1. k \in BOOLEAN /\ (k => HistoryRefunds(c, Len(P)) = HistoryRefunds(P, Len(P)))
    BY <1>3, <1>5
  <2>2. S = StateOf(P, l, k)
    OBVIOUS
  <2> HIDE DEF k, S
  <2> QED
    BY <1>3, <2>1, <2>2, StateReopens
<1> HIDE DEF S, o
<1>7. /\ Together(o, c, z.view, P) /\ Merged(Replay(P, l, k).view, S)
      /\ S.spendRefunds = <<>> /\ S.counts = Census(S.holds)
      /\ o.base = S /\ o.keeps = TRUE /\ o.legacy = l /\ o.txn = 0
  BY <1>6 DEF Reopens, z
<1>8. Decode(body) = S
  <2>1. DOMAIN S = StateFields /\ S = [f \in DOMAIN S |-> S[f]]
    BY <1>7 DEF Merged
  <2>2. Decode(Encode(S)) = S
    BY <1>7, <2>1, Decoded
  <2> QED
    BY <1>1, <2>2
<1>9. Together(o, c, g.view, c)
  <2>1. Together(z.view, P, g.view, c)
    BY <1>3, TogetherBoth
  <2> QED
    BY <1>7, <2>1, TogetherBoth
<1>10. g.view.legacy = l /\ g.view.txn \in 0..n
  BY <1>3 DEF Knows, WF
<1> QED
  BY <1>7, <1>8, <1>9, <1>10 DEF o, g

\* So the entries after it bring that view to the state of the whole chain.
LEMMA AdoptsState ==
    ASSUME NEW c, Chained(c), NEW l, Replays(c, l), NEW n, NEW body, SnapshotOf(c, l, n, body),
           NEW end, end = Apply(Overlay(Decode(body), TRUE), SubSeq(c, n + 1, Len(c)), c, FALSE),
           end.ok
    PROVE  Merge(EndTransaction(end.view)) = StateOf(c, l, TRUE)
<1> DEFINE o == Overlay(Decode(body), TRUE)
           w == Genesis(c, l, FALSE)[n].view
           u == Overlay(Empty(l), FALSE)
           new == SubSeq(c, n + 1, Len(c))
           N == Len(c) - n
           Z == Replay(c, l, FALSE).view
           writing == FALSE
           k == TRUE
<1>1. /\ Together(o, c, w, c) /\ w.legacy = l /\ w.txn \in 0..n
      /\ o.base.spendRefunds = <<>> /\ o.keeps = k /\ o.legacy = l /\ o.txn = 0
  BY SnapshotReopens
<1> HIDE DEF o
<1>2. Ends(c, n)
  BY DEF SnapshotOf
<1>3. StandsAt(c, l, n, SubSeq(c, 1, n), Genesis(c, l, FALSE)[n])
  BY <1>2, EndsReplay
<1>4. IsSeq(c) /\ Len(c) \in Nat /\ n \in 1..Len(c) /\ n \in Nat /\ N \in Nat /\ n + N = Len(c)
  BY <1>2, SeqFacts DEF Chained, Ends
<1>5. /\ IsSeq(new) /\ Len(new) = N /\ \A i \in 1..N : new[i] = c[n + i]
  <2>1. n + 1 \in 1..(Len(c) + 1) /\ Len(c) <= Len(c) /\ n + 1 <= Len(c) + 1
        /\ Len(c) - (n + 1) + 1 = N
    BY <1>4
  <2>2. /\ IsSeq(new) /\ Len(new) = Len(c) - (n + 1) + 1
        /\ \A i \in 1..(Len(c) - (n + 1) + 1) : new[i] = c[n + 1 + i - 1]
    BY <1>4, <2>1, SubSeqFacts
  <2>3. \A i \in 1..N : n + 1 + i - 1 = n + i
    BY <1>4
  <2> HIDE DEF new, N
  <2> QED
    BY <2>1, <2>2, <2>3
<1>6. /\ Staged(o, new, c, writing)[N] = end
      /\ Staged(u, c, c, FALSE)[n].ok /\ w = Staged(u, c, c, FALSE)[n].view
  BY <1>3, <1>5 DEF Apply, o, StandsAt, Genesis
<1> HIDE DEF new
<1>7. ASSUME NEW i \in 1..N
      PROVE  c[n + i] = new[i] /\ IsEntry(new[i]) /\ FoundIn(c, c, new[i])
  <2>1. n + i \in 1..Len(c)
    BY <1>4
  <2>2. IsEntry(c[n + i])
    BY <2>1, ChainedEntry
  <2> QED
    BY <1>5, <2>2 DEF FoundIn
<1> HIDE DEF w
<1>8. N > 0 => Meets(o, w, new[1])
  <2> SUFFICES ASSUME N > 0 PROVE Meets(o, w, new[1])
    OBVIOUS
  <2>1. 1 \in 1..N /\ n < Len(c)
    BY <1>4
  <2>2. new[1].txn = n + 1
    BY <1>2, <1>5, <2>1 DEF Ends
  <2>3. new[1].txn # o.txn /\ new[1].txn # w.txn
    <3>1. n + 1 \notin 0..n /\ n + 1 # 0
      BY <1>4
    <3> QED
      BY <1>1, <2>2, <3>1
  <2> QED
    BY <1>1, <2>3 DEF Meets, Settleable
<1>9. \A m \in 0..N : Follows(o, c, w, c, Staged(o, new, c, writing)[m],
                              Staged(u, c, c, FALSE)[n + m], m, new)
  <2>1. /\ N <= Len(new) /\ n + N <= Len(c) /\ Staged(o, new, c, writing)[N].ok
        /\ \A i \in 1..N : o.legacy = w.legacy \/ new[i].ver = 1
    <3>1. N <= Len(new) /\ n + N <= Len(c)
      <4> HIDE DEF N
      <4> QED
        BY <1>4, <1>5
    <3>2. Staged(o, new, c, writing)[N].ok
      <4> HIDE DEF N, u, writing
      <4> QED
        BY <1>6
    <3>3. o.legacy = w.legacy
      BY <1>1
    <3> QED
      BY <3>1, <3>2, <3>3
  <2> HIDE DEF u, N, writing
  <2> QED
    BY <1>1, <1>4, <1>5, <1>6, <1>7, <1>8, <2>1, Track
<1>10. Staged(u, c, c, FALSE)[n + N].view = Z
  BY <1>4, ReplayIsLast DEF Genesis
<1>11. Follows(o, c, w, c, Staged(o, new, c, writing)[N], Staged(u, c, c, FALSE)[n + N], N, new)
  <2>1. N \in 0..N
    BY <1>4
  <2> HIDE DEF u, N, writing
  <2> QED
    BY <1>9, <2>1
<1> HIDE DEF u, N, Z
<1>12. Together(end.view, c, Z, c) /\ SameUnder(end.view, o)
  BY <1>6, <1>10, <1>11 DEF Follows
<1>13. Ended(end.view, c, Z, c, EndTransaction(end.view))
  BY <1>12, EndKeeps
<1>14. Merge(EndTransaction(end.view)) = Merge(end.view)
  BY <1>13 DEF Ended
<1>15. Merge(end.view) = StateOf(c, l, k)
  <2>1. /\ Together(end.view, c, Replay(c, l, FALSE).view, c)
        /\ end.view.legacy = l /\ end.view.keeps = k
        /\ k => end.view.base.spendRefunds = <<>>
        /\ k \in BOOLEAN
    BY <1>1, <1>12 DEF SameUnder, Z
  <2> HIDE DEF k
  <2> QED
    BY <2>1, MergesIntoState
<1> QED
  BY <1>14, <1>15
----------------------------------------------------------------------------
(* The first entry, and the chain as it grows *)

\* The chain of one funding.
FirstFunding(ver, s) ==
    Build(Overlay(Empty(<<>>), FALSE), <<Line("FUNDING", "CREDIT", s, None, 1, 0, <<>>)>>, ver)

\* It replays.
LEMMA FundingReplays ==
    ASSUME NEW ver \in 1..3, NEW s \in Scopes, NEW c, c = FirstFunding(ver, s)
    PROVE  /\ Chained(c) /\ Len(c) = 1 /\ Replays(c, <<>>)
           /\ \A i \in 1..Len(c) : c[i].type # "CHECKPOINT"
<1> DEFINE v == Overlay(Empty(<<>>), FALSE)
           line == Line("FUNDING", "CREDIT", s, None, 1, 0, <<>>)
           lines == <<line>>
           e == c[1]
           A == Staged(v, c, c, FALSE)
           no == FALSE
           x == Fold(v, e, c)
<1>1. /\ DOMAIN v = ViewFields /\ v.base = Empty(<<>>)
      /\ \A f \in Whole : v[f] = Empty(<<>>)[f]
      /\ v.bal = <<>> /\ v.nodes = <<>> /\ v.net = 0
  <2> DEFINE E == Empty(<<>>)
  <2> HIDE DEF E, no
  <2>1. /\ DOMAIN Overlay(E, no) = ViewFields /\ Overlay(E, no).base = E
        /\ \A f \in Whole : Overlay(E, no)[f] = E[f]
        /\ Overlay(E, no).bal = <<>> /\ Overlay(E, no).nodes = <<>> /\ Overlay(E, no).net = 0
    BY OverlayFields
  <2> QED
    BY <2>1 DEF E, no
<1>2. Fresh(v, <<>>, no)
  <2>1. no \in BOOLEAN
    OBVIOUS
  <2> HIDE DEF no
  <2>2. Fresh(Overlay(Empty(<<>>), no), <<>>, no)
    BY <2>1, GenesisStart
  <2> QED
    BY <2>2 DEF no
<1>3. /\ Lines(lines) /\ Len(lines) = 1 /\ lines[1] = line /\ DOMAIN lines = {1}
  <2>1. Plain(line)
    BY DEF Plain, Line
  <2> HIDE DEF line
  <2>2. Lines(<<line>>) /\ IsSeq(<<line>>) /\ Len(<<line>>) = 1 /\ <<line>>[1] = line
    BY <2>1, PlainLines, ShortSequences
  <2> QED
    BY <2>2
<1>4. c = Build(v, lines, ver)
  BY DEF FirstFunding
<1>5. /\ line.type = "FUNDING" /\ line.dir = "CREDIT" /\ line.scope = s /\ line.cpty = None
      /\ line.amt = 1 /\ line.ref = 0 /\ line.memo = <<>> /\ Signed(line) = 1
  BY DEF Line, Signed
<1> HIDE DEF v, line, lines
<1>6. v.len = 0 /\ v.sawV1 = FALSE /\ v.sawV2 = FALSE /\ v.sawV3 = FALSE /\ v.seal = FALSE
      /\ v.legacy = <<>> /\ WF(v)
  BY <1>1, <1>2 DEF Whole, Empty, Fresh
<1>7. BuiltOf(v.len, lines, ver, c)
  BY <1>3, <1>4, <1>6, BuiltEntries
<1>8. IsSeq(c) /\ Len(c) = 1 /\ DOMAIN c = 1..1 /\ 1 \in 1..1 /\ \A i \in 1..1 : i = 1
  BY <1>3, <1>7, SeqFacts DEF BuiltOf
<1>9. /\ e.seq = 1 /\ e.txn = 1 /\ e.ver = ver /\ e.type = "FUNDING" /\ e.amt = 1 /\ e.ref = 0
  BY <1>3, <1>5, <1>6, <1>7, <1>8 DEF BuiltOf
<1>10. Balance(v, s) = 0
  <2>1. v.base.bal = <<>> /\ DOMAIN <<>> = {}
    BY <1>1 DEF Empty
  <2> QED
    BY <1>1, <2>1 DEF Balance, Look
<1>11. e.dir = "CREDIT" /\ e.scope = s /\ e.cpty = None /\ e.bal = 1
  <2> DEFINE f == [j \in DOMAIN lines |-> Signed(lines[j])]
             S == {j \in 1..1 : lines[j].scope = lines[1].scope}
             row == [type |-> lines[1].type, dir |-> lines[1].dir, scope |-> lines[1].scope,
                     cpty |-> lines[1].cpty, amt |-> lines[1].amt, ref |-> lines[1].ref,
                     memo |-> lines[1].memo, seq |-> v.len + 1, txn |-> v.len + 1, ver |-> ver,
                     bal |-> Balance(v, lines[1].scope) + SumFunctionOnSet(f, S)]
  <2>1. e = row
    BY <1>3, <1>4 DEF Build
  <2>2. S = {1} /\ f[1] = 1 /\ DOMAIN f = {1}
    BY <1>3, <1>5, <1>8
  <2>3. f \in [{1} -> Int]
    BY <1>3, <1>5
  <2> HIDE DEF f, S
  <2>4. SumFunctionOnSet(f, {1}) = f[1] + SumFunctionOnSet(f, {1} \ {1})
    <3> DEFINE T == {1}
    <3>1. IsFiniteSet(T) /\ f \in [T -> Int] /\ T \in SUBSET T /\ 1 \in T
      BY <2>3, FS_Singleton
    <3> HIDE DEF T
    <3>2. SumFunctionOnSet(f, T) = f[1] + SumFunctionOnSet(f, T \ {1})
      BY <3>1, SumRemove
    <3> QED
      BY <3>2 DEF T
  <2>5. {1} \ {1} = {} /\ SumFunctionOnSet(f, {}) = 0
    BY SumOfNothing
  <2>6. SumFunctionOnSet(f, S) = 1
    <3>1. SumFunctionOnSet(f, {1}) = 1 + SumFunctionOnSet(f, {})
      BY <2>2, <2>4, <2>5
    <3> QED
      BY <2>2, <2>5, <3>1
  <2>7. /\ row.bal = Balance(v, lines[1].scope) + SumFunctionOnSet(f, S)
        /\ row.dir = lines[1].dir /\ row.scope = lines[1].scope /\ row.cpty = lines[1].cpty
    OBVIOUS
  <2> HIDE DEF row
  <2>8. Balance(v, lines[1].scope) = 0
    BY <1>3, <1>5, <1>10
  <2>9. row.bal = 1
    BY <2>6, <2>7, <2>8
  <2> QED
    BY <1>3, <1>5, <2>1, <2>7, <2>9
<1> HIDE DEF e
<1>12. Accepts(v, e, c, FALSE)
  <2>1. CheckVersion(v, e)
    BY <1>6, <1>9 DEF CheckVersion, ZeroValue
  <2>2. CheckShape(v, e)
    <3>1. LegalDirections("FUNDING") = {"CREDIT"}
      BY DEF LegalDirections, Balanced, ZeroValue
    <3>2. s # None
      BY RulesAssumption
    <3> QED
      BY <1>9, <1>11, <3>1, <3>2 DEF CheckShape, ZeroValue, Scopeless
  <2>3. CheckTransaction(v, e)
    BY <1>1 DEF CheckTransaction
  <2>4. CheckBalance(v, e)
    BY <1>9, <1>10, <1>11 DEF CheckBalance, Signed
  <2>5. CheckHolds(v, e, c)
    BY <1>9 DEF CheckHolds
  <2>6. CheckFlows(v, e, FALSE)
    BY <1>9 DEF CheckFlows
  <2>7. CheckGovernance(v, e)
    <3>1. ~Known(v, s)
      BY <1>1 DEF Known, Empty
    <3>2. DOMAIN v.legacy = {} /\ v.legacy = <<>>
      BY <1>6
    <3> QED
      BY <1>9, <1>11, <3>1, <3>2 DEF CheckGovernance
  <2>8. e.seq = v.len + 1
    BY <1>6, <1>9
  <2> QED
    BY <2>1, <2>2, <2>3, <2>4, <2>5, <2>6, <2>7, <2>8 DEF Accepts
<1>13. Chained(c)
  BY <1>8, <1>9 DEF Chained, e
<1>14. A[1] = [ok |-> TRUE, view |-> x]
  <2>1. Stages(A, Len(c), v, c, c, FALSE)
    BY <1>8, StagedAt
  <2> HIDE DEF A
  <2>2. A[0] = [ok |-> TRUE, view |-> v] /\ A[1] = Take(A[1 - 1], c[1], c, FALSE)
    BY <1>8, <2>1 DEF Stages
  <2>3. A[1] = Take(A[0], e, c, FALSE)
    <3>1. 1 - 1 = 0
      OBVIOUS
    <3> QED
      BY <2>2, <3>1 DEF e
  <2>4. A[0].ok /\ A[0].view = v
    BY <2>2
  <2> HIDE DEF x
  <2> QED
    BY <1>12, <2>3, <2>4 DEF Take, x
<1>15. x.net = 0
  <2>1. FoldChanges(v, e, c, x)
    BY <1>1, FoldFields
  <2> HIDE DEF x
  <2> QED
    BY <1>1, <1>9, <2>1 DEF FoldChanges, PositionChanges, Balanced
<1>16. Replay(c, <<>>, FALSE) = A[1]
  BY <1>8 DEF Replay, Apply, v
<1> HIDE DEF A, x
<1>17. Replay(c, <<>>, FALSE).ok /\ Replay(c, <<>>, FALSE).view.net = 0
  <2>1. A[1].ok /\ A[1].view = x
    BY <1>14
  <2> QED
    BY <1>15, <1>16, <2>1
<1> QED
  BY <1>8, <1>9, <1>13, <1>17 DEF Replays, e

\* What holds of the store goes on holding when the chain grows by whole transactions.
LEMMA StoredGrows ==
    ASSUME NEW c, NEW l, NEW k, NEW s, Stored(c, l, k, s), NEW t, IsSeq(t),
           Chained(c \o t), Replays(c \o t, l), Ends(c \o t, Len(c)),
           \A i \in 1..Len(t) : t[i].type = "CHECKPOINT" => t[i].memo[1] \in DOMAIN s
    PROVE  /\ Stored(c \o t, l, k, s)
           /\ \A i \in 1..Len(c) : i \in 1..Len(c \o t) /\ (c \o t)[i] = c[i]
           /\ \A i \in 1..Len(t) : Len(c) + i \in 1..Len(c \o t) /\ (c \o t)[Len(c) + i] = t[i]
           /\ Range(c) \subseteq Range(c \o t)
<1>1. /\ IsSeq(c) /\ Len(c) \in Nat /\ Len(c) > 0 /\ Len(t) \in Nat
      /\ Len(c \o t) = Len(c) + Len(t)
      /\ DOMAIN c = 1..Len(c) /\ IsSeq(c \o t)
      /\ \A i \in 1..Len(c) : (c \o t)[i] = c[i]
      /\ \A i \in 1..Len(t) : (c \o t)[Len(c) + i] = t[i]
  BY SeqFacts, ConcatFacts DEF Stored, Chained
<1>2. \A n \in DOMAIN s : k /\ SnapshotOf(c \o t, l, n, s[n].body)
  <2> SUFFICES ASSUME NEW n \in DOMAIN s PROVE k /\ SnapshotOf(c \o t, l, n, s[n].body)
    OBVIOUS
  <2>1. k /\ SnapshotOf(c, l, n, s[n].body) /\ Chained(c)
    BY DEF Stored
  <2> QED
    BY <2>1, SnapshotStays
<1>3. \A i \in 1..Len(c \o t) : (c \o t)[i].type = "CHECKPOINT" => (c \o t)[i].memo[1] \in DOMAIN s
  <2> SUFFICES ASSUME NEW i \in 1..Len(c \o t), (c \o t)[i].type = "CHECKPOINT"
               PROVE  (c \o t)[i].memo[1] \in DOMAIN s
    OBVIOUS
  <2>1. CASE i \in 1..Len(c)
    BY <1>1, <2>1 DEF Stored
  <2>2. CASE i \notin 1..Len(c)
    <3>1. i - Len(c) \in 1..Len(t) /\ Len(c) + (i - Len(c)) = i
      BY <1>1, <2>2
    <3>2. PICK m \in 1..Len(t) : Len(c) + m = i
      BY <3>1
    <3>3. (c \o t)[i] = t[m]
      BY <1>1, <3>2
    <3> QED
      BY <3>3
  <2> QED
    BY <2>1, <2>2
<1>4. /\ \A i \in 1..Len(c) : i \in 1..Len(c \o t) /\ (c \o t)[i] = c[i]
      /\ \A i \in 1..Len(t) : Len(c) + i \in 1..Len(c \o t) /\ (c \o t)[Len(c) + i] = t[i]
  <2>1. \A i \in 1..Len(c) : i \in 1..(Len(c) + Len(t))
    BY <1>1
  <2>2. \A i \in 1..Len(t) : Len(c) + i \in 1..(Len(c) + Len(t))
    BY <1>1
  <2> QED
    BY <1>1, <2>1, <2>2
<1>5. Range(c) \subseteq Range(c \o t)
  <2>1. DOMAIN (c \o t) = 1..Len(c \o t)
    BY <1>1, SeqFacts
  <2> QED
    BY <1>1, <1>4, <2>1 DEF Range
<1>6. Len(c \o t) > 0
  BY <1>1
<1> QED
  BY <1>2, <1>3, <1>4, <1>5, <1>6 DEF Stored
----------------------------------------------------------------------------
(* Step by step *)

\* A ledger is opened first with one funding.
LEMMA OpeningInit == Init => OpeningInv
<1> SUFFICES ASSUME Init PROVE OpeningInv
  OBVIOUS
<1>1. /\ legacy = <<>> /\ snaps = <<>> /\ keeps \in Stores /\ open = FALSE
      /\ unit = NoUnit /\ making = NoCheckpoint
  BY DEF Init
<1>2. PICK ver \in 1..3 : chain = FirstFunding(ver, Root)
  BY DEF Init, FirstFunding
<1>3. /\ Chained(chain) /\ Len(chain) = 1 /\ Replays(chain, <<>>)
      /\ \A i \in 1..Len(chain) : chain[i].type # "CHECKPOINT"
  <2>1. Root \in Scopes
    BY OpeningAssumption
  <2> QED
    BY <1>2, <2>1, FundingReplays
<1>4. keeps \in BOOLEAN
  BY <1>1, OpeningAssumption
<1>5. DOMAIN <<>> = {}
  OBVIOUS
<1>6. Stored(chain, legacy, keeps, snaps)
  BY <1>1, <1>3, <1>5 DEF Stored
<1>7. ChainInv
  BY <1>1, <1>4, <1>5, <1>6 DEF ChainInv
<1> QED
  BY <1>1, <1>7 DEF OpeningInv, StateInv, UnitInv, MakingInv

\* A replay's view goes on with itself, wherever its spends are looked up.
LEMMA WithItself ==
    ASSUME NEW c, Chained(c), NEW l, Replays(c, l), NEW d
    PROVE  /\ Together(Replay(c, l, FALSE).view, d, Replay(c, l, FALSE).view, c)
           /\ Replay(c, l, FALSE).view.legacy = l
<1> DEFINE z == Replay(c, l, FALSE)
           no == FALSE
<1>1. EndRight(c, l, no, Replay(c, l, no), z)
  <2>1. no \in BOOLEAN
    OBVIOUS
  <2> HIDE DEF no
  <2> QED
    BY <2>1, ReplaysEnds DEF z
<1> HIDE DEF z, no
<1>2. Knows(z.view, c, l, Len(c))
  BY <1>1 DEF EndRight
<1>3. WF(z.view) /\ z.view.keeps = FALSE /\ z.view.legacy = l
  BY <1>2 DEF Knows
<1>4. Refunds(z.view, d) = Refunds(z.view, c)
  BY <1>3 DEF Refunds
<1> QED
  BY <1>3, <1>4 DEF z, Together, Alike

\* What the chain's first entry from 0.1.2 on was stays where it is.
LEMMA StaysGoverned ==
    ASSUME NEW c, NEW t, Governed(c),
           \A i \in 1..Len(c) : i \in 1..Len(c \o t) /\ (c \o t)[i] = c[i]
    PROVE  Governed(c \o t)
  BY DEF Governed

\* Callers can only name entries the chain or the unit of work holds.
LEMMA RefsAreNumbers ==
    ASSUME OpeningInv
    PROVE  Refs \in SUBSET Nat
<1>1. Chained(chain) /\ DOMAIN chain = 1..Len(chain)
  BY SeqFacts DEF OpeningInv, ChainInv, Stored, Chained
<1>2. \A e \in Range(chain) : e.seq \in Nat
  BY <1>1 DEF Range, Chained
<1>3. ASSUME unit # NoUnit, NEW h \in unit.view.opened PROVE h.id \in Nat
  <2>1. WF(unit.view)
    BY <1>3 DEF OpeningInv, UnitInv, UnitOf, Together
  <2>2. h \in OpenHolds(unit.view) /\ HoldsOK(unit.view) /\ unit.view.len \in Nat
    BY <1>3, <2>1 DEF WF, OpenHolds
  <2> QED
    BY <2>2 DEF HoldsOK
<1> QED
  BY <1>2, <1>3 DEF Refs

\* The entries an earlier version writes, and the view that takes them.
OldEnd == Replay(chain, legacy, FALSE).view
OldBuilt(lines, ver) == Build(OldEnd, lines, ver)
OldNext(lines, ver) ==
    Apply(OldEnd, OldBuilt(lines, ver), chain \o OldBuilt(lines, ver), FALSE)

\* What an earlier version wrote, that version read as history: the rules take
\* it again.
LEMMA OldWriteContinues ==
    ASSUME OpeningInv, NEW lines \in Transactions(workload.kinds, {0} \cup Refs),
           NEW ver \in {1, 2}, NEW crashed \in BOOLEAN, OldWrite(lines, ver, crashed),
           NEW built, built = OldBuilt(lines, ver)
    PROVE  /\ Continues(chain, legacy, chain \o built, OldEnd, built,
                        EndTransaction(OldNext(lines, ver).view))
           /\ Grown(chain, lines, ver, built) /\ chain' = chain \o built
           /\ Lines(lines) /\ \A i \in 1..Len(lines) : lines[i].type # "CHECKPOINT"
<1> DEFINE end == OldEnd
           es == chain \o built
           writing == FALSE
           next == OldNext(lines, ver)
<1>1. /\ next.ok /\ next.view.net = 0 /\ chain' = chain \o built
      /\ next = Apply(end, built, es, writing)
  BY DEF OldWrite, OldNext, OldBuilt, OldEnd
<1>2. Chained(chain) /\ Len(chain) > 0 /\ Replays(chain, legacy)
  BY DEF OpeningInv, ChainInv, Stored
<1>3. Together(end, es, end, chain) /\ end.legacy = legacy
  BY <1>2, WithItself DEF OldEnd
<1>4. Lines(lines) /\ \A i \in 1..Len(lines) : lines[i].type # "CHECKPOINT"
  <2>1. {0} \cup Refs \in SUBSET Nat
    BY RefsAreNumbers
  <2> QED
    BY <2>1, TransactionLines
<1>5. end.len = Len(chain)
  <2>1. Together(end, chain, end, chain)
    BY <1>2, WithItself DEF OldEnd
  <2> QED
    BY <1>2, <2>1, StandsAtEnd DEF OldEnd
<1>6. Continues(chain, legacy, es, end, built, EndTransaction(next.view))
      /\ Grown(chain, lines, ver, built)
  <2>1. /\ ver \in 1..3 /\ ver # 3 /\ Range(es) \subseteq Range(chain \o built)
    OBVIOUS
  <2>2. Together(end, es, Replay(chain, legacy, FALSE).view, chain)
    BY <1>3 DEF OldEnd
  <2> DEFINE v == end
  <2>3. /\ v.legacy = legacy /\ v.len = Len(chain)
        /\ Together(v, es, Replay(chain, legacy, FALSE).view, chain)
        /\ Range(es) \subseteq Range(chain \o Build(v, lines, ver))
        /\ Apply(v, Build(v, lines, ver), es, writing).ok
        /\ Apply(v, Build(v, lines, ver), es, writing).view.net = 0
    BY <1>1, <1>3, <1>5, <2>2 DEF OldBuilt
  <2>4. v = end /\ built = Build(v, lines, ver) /\ next = Apply(v, Build(v, lines, ver), es, writing)
    BY <1>1 DEF OldBuilt
  <2> HIDE DEF v, es, writing, next
  <2>5. Continues(chain, legacy, es, v, Build(v, lines, ver),
                  EndTransaction(Apply(v, Build(v, lines, ver), es, writing).view))
    BY <1>2, <1>4, <2>1, <2>3, TransactionContinues
  <2>6. Grown(chain, lines, ver, Build(v, lines, ver))
    BY <1>2, <1>4, <2>1, <2>3, ChainGrows
  <2> QED
    BY <2>4, <2>5, <2>6
<1> QED
  BY <1>1, <1>4, <1>6

LEMMA OldWriteKeeps ==
    ASSUME OpeningInv, NEW lines \in Transactions(workload.kinds, {0} \cup Refs),
           NEW ver \in {1, 2}, NEW crashed \in BOOLEAN, OldWrite(lines, ver, crashed)
    PROVE  OpeningInv'
<1> DEFINE built == OldBuilt(lines, ver)
<1>1. ~open /\ UNCHANGED <<legacy, snaps, keeps, open, unit, making>>
  BY DEF OldWrite
<1>2. Stored(chain, legacy, keeps, snaps) /\ keeps \in BOOLEAN
      /\ (open \/ DOMAIN snaps # {} => Governed(chain))
  BY DEF OpeningInv, ChainInv
<1> HIDE DEF built
<1>3. /\ IsSeq(built) /\ Chained(chain \o built) /\ Replays(chain \o built, legacy)
      /\ Ends(chain \o built, Len(chain)) /\ chain' = chain \o built
      /\ Grown(chain, lines, ver, built)
      /\ \A i \in 1..Len(lines) : lines[i].type # "CHECKPOINT"
  BY OldWriteContinues DEF Continues, built
<1>4. /\ Stored(chain \o built, legacy, keeps, snaps)
      /\ \A i \in 1..Len(chain) : i \in 1..Len(chain \o built) /\ (chain \o built)[i] = chain[i]
  <2>1. \A i \in 1..Len(built) : built[i].type # "CHECKPOINT"
    BY <1>3 DEF Grown
  <2> QED
    BY <1>2, <1>3, <2>1, StoredGrows
<1>5. DOMAIN snaps # {} => Governed(chain \o built)
  BY <1>2, <1>4, StaysGoverned
<1>6. ChainInv'
  BY <1>1, <1>2, <1>3, <1>4, <1>5 DEF ChainInv
<1>7. unit = NoUnit /\ making = NoCheckpoint
  BY <1>1 DEF OpeningInv, UnitInv, MakingInv
<1> QED
  BY <1>1, <1>6, <1>7 DEF OpeningInv, StateInv, UnitInv, MakingInv

\* A trip or reset kept outside the chain is kept only while no entry of the
\* chain folds such events in, so the chain replays as it did.
LEMMA OldEventReplays ==
    ASSUME OpeningInv, NEW type, NEW s, OldEvent(type, s)
    PROVE  /\ Replays(chain, legacy') /\ DOMAIN snaps = {}
           /\ OpenHolds(Replay(chain, legacy', FALSE).view)
                = OpenHolds(Replay(chain, legacy, FALSE).view)
<1> DEFINE z == Replay(chain, legacy, FALSE)
           y == Replay(chain, legacy', FALSE)
           N == Len(chain)
           no == FALSE
<1>1. ~open /\ ~z.view.sawV2
  BY DEF OldEvent
<1>2. Stored(chain, legacy, keeps, snaps) /\ keeps \in BOOLEAN
      /\ (DOMAIN snaps # {} => Governed(chain))
  BY DEF OpeningInv, ChainInv
<1>3. Chained(chain) /\ N > 0 /\ Replays(chain, legacy) /\ IsSeq(chain) /\ N \in Nat
  BY <1>2, SeqFacts DEF Stored, Chained
<1>4. \A i \in 1..N : chain[i].ver = 1
  <2>1. Together(z.view, chain, z.view, chain)
    BY <1>3, WithItself
  <2>2. z.view.sawV2 <=> \E i \in 1..Len(chain) : chain[i].ver # 1
    BY <1>3, <2>1, StandsAtEnd
  <2> QED
    BY <1>1, <2>2
<1>5. DOMAIN snaps = {}
  BY <1>2, <1>4 DEF Governed
<1>6. z.ok /\ z.view.net = 0 /\ z = Genesis(chain, legacy, no)[N] /\ y = Genesis(chain, legacy', no)[N]
  BY <1>3, ReplayIsLast DEF Replays
<1> HIDE DEF z, y
<1>7. Follows(Overlay(Empty(legacy), no), chain, Overlay(Empty(legacy'), no), chain, z, y, N, chain)
  <2> DEFINE l == legacy
             m == legacy'
  <2>1. no \in BOOLEAN /\ Genesis(chain, l, no)[N].ok /\ N <= Len(chain) /\ N \in 0..N
        /\ (l = m \/ \A i \in 1..N : chain[i].ver = 1)
    <3>1. Genesis(chain, l, no)[N].ok
      BY <1>6
    <3>2. N <= Len(chain) /\ N \in 0..N
      BY <1>3
    <3>3. \A i \in 1..N : chain[i].ver = 1
      BY <1>4
    <3> HIDE DEF N
    <3> QED
      BY <3>1, <3>2, <3>3
  <2>2. z = Genesis(chain, l, no)[N] /\ y = Genesis(chain, m, no)[N]
    BY <1>6
  <2> HIDE DEF no, N, l, m
  <2>3. \A n \in 0..N : Follows(Overlay(Empty(l), no), chain, Overlay(Empty(m), no), chain,
                                Genesis(chain, l, no)[n], Genesis(chain, m, no)[n], n, chain)
    BY <1>3, <2>1, TwoReplays
  <2>4. Follows(Overlay(Empty(l), no), chain, Overlay(Empty(m), no), chain, z, y, N, chain)
    BY <2>1, <2>2, <2>3
  <2> QED
    BY <2>4 DEF l, m
<1>8. y.ok /\ Together(z.view, chain, y.view, chain)
  BY <1>7 DEF Follows
<1>9. y.view.net = 0
  BY <1>6, <1>8 DEF Together, Alike
<1>10. Replays(chain, legacy')
  BY <1>8, <1>9 DEF Replays, y
<1> QED
  BY <1>5, <1>8, <1>10 DEF Together, Alike, y, z

LEMMA OldEventKeeps ==
    ASSUME OpeningInv, NEW type, NEW s, OldEvent(type, s)
    PROVE  OpeningInv'
<1>1. ~open /\ UNCHANGED <<chain, snaps, keeps, open, unit, making>>
  BY DEF OldEvent
<1>2. Stored(chain, legacy, keeps, snaps) /\ keeps \in BOOLEAN
  BY DEF OpeningInv, ChainInv
<1>3. Replays(chain, legacy') /\ DOMAIN snaps = {}
  BY OldEventReplays
<1>4. Stored(chain, legacy', keeps, snaps)
  BY <1>2, <1>3 DEF Stored
<1>5. ChainInv'
  BY <1>1, <1>2, <1>3, <1>4 DEF ChainInv
<1>6. unit = NoUnit /\ making = NoCheckpoint
  BY <1>1 DEF OpeningInv, UnitInv, MakingInv
<1> QED
  BY <1>1, <1>5, <1>6 DEF OpeningInv, StateInv, UnitInv, MakingInv

\* A restart leaves the store as it is.
LEMMA CloseKeeps == ASSUME OpeningInv, Close PROVE OpeningInv'
<1>1. /\ UNCHANGED <<chain, legacy, snaps, keeps>> /\ open' = FALSE
      /\ unit' = NoUnit /\ making' = NoCheckpoint
  BY DEF Close, stored
<1>2. ChainInv'
  BY <1>1 DEF OpeningInv, ChainInv
<1> QED
  BY <1>1, <1>2 DEF OpeningInv, StateInv, UnitInv, MakingInv

\* So does a commit that fails.
LEMMA CommitFailsKeeps == ASSUME OpeningInv, CommitFails PROVE OpeningInv'
<1>1. UNCHANGED <<chain, legacy, snaps, keeps, open, st, making>> /\ unit' = NoUnit
  BY DEF CommitFails, stored
<1>2. ChainInv' /\ StateInv' /\ MakingInv'
  BY <1>1 DEF OpeningInv, ChainInv, StateInv, MakingInv
<1> QED
  BY <1>1, <1>2 DEF OpeningInv, UnitInv

\* The state an open ledger serves, and a view staged over it.
LEMMA ServedReopens ==
    ASSUME OpeningInv, open
    PROVE  Reopens(chain, legacy, keeps, chain, st, Overlay(st, keeps))
<1>1. Chained(chain) /\ Replays(chain, legacy) /\ keeps \in BOOLEAN
  BY DEF OpeningInv, ChainInv, Stored
<1>2. st = StateOf(chain, legacy, keeps)
  BY DEF OpeningInv, StateInv
<1> QED
  BY <1>1, <1>2, StateReopens

\* What is encoded is of the chain as it stands.
LEMMA EncodeKeeps == ASSUME OpeningInv, EncodeCheckpoint PROVE OpeningInv'
<1>1. /\ open /\ keeps /\ unit = NoUnit
      /\ making' = Over([stage |-> "encoded", seq |-> st.len], Statement(st))
      /\ UNCHANGED <<chain, legacy, snaps, keeps, open, st, unit>>
  BY DEF EncodeCheckpoint, stored
<1>2. Chained(chain) /\ Len(chain) > 0 /\ keeps = TRUE
  BY <1>1 DEF OpeningInv, ChainInv, Stored
<1>3. st.len = Len(chain) /\ st = StateOf(chain, legacy, TRUE)
  <2>1. Reopens(chain, legacy, keeps, chain, st, Overlay(st, keeps))
    BY <1>1, ServedReopens
  <2>2. st = StateOf(chain, legacy, keeps)
    BY <1>1 DEF OpeningInv, StateInv
  <2> QED
    BY <1>2, <2>1, <2>2 DEF Reopens
<1>4. /\ DOMAIN making' = {"stage", "seq", "body", "signed"}
      /\ making'.stage = "encoded" /\ making'.seq = st.len /\ making'.body = Encode(st)
  <2> DEFINE top == [stage |-> "encoded", seq |-> st.len]
             low == Statement(st)
  <2>1. /\ DOMAIN top = {"stage", "seq"} /\ top.stage = "encoded" /\ top.seq = st.len
        /\ DOMAIN low = {"body", "signed"} /\ low.body = Encode(st)
    BY DEF Statement
  <2> HIDE DEF top, low
  <2>2. making' = Over(top, low)
    BY <1>1 DEF top, low
  <2>3. DOMAIN Over(top, low) = {"stage", "seq", "body", "signed"}
    BY <2>1 DEF Over
  <2>4. Over(top, low).stage = "encoded" /\ Over(top, low).seq = st.len
        /\ Over(top, low).body = Encode(st)
    BY <2>1, OverAt
  <2> QED
    BY <2>2, <2>3, <2>4
<1>5. SnapshotOf(chain, legacy, making'.seq, making'.body)
  <2>1. SnapshotOf(chain, legacy, Len(chain), Encode(StateOf(chain, legacy, TRUE)))
    BY <1>2, SnapshotOfAll
  <2> QED
    BY <1>3, <1>4, <2>1
<1>6. ChainInv' /\ StateInv'
  BY <1>1 DEF OpeningInv, ChainInv, StateInv
<1>7. MakingInv'
  BY <1>1, <1>4, <1>5 DEF MakingInv
<1> QED
  BY <1>1, <1>6, <1>7 DEF OpeningInv, UnitInv

\* What is stored is what was encoded, or was stored before.
LEMMA PutSnapshotKeeps == ASSUME OpeningInv, PutSnapshot PROVE OpeningInv'
<1>1. /\ making.stage = "encoded"
      /\ UNCHANGED <<chain, legacy, keeps, open, st, unit>>
  BY DEF PutSnapshot
<1>2. making # NoCheckpoint
  BY <1>1 DEF NoCheckpoint
<1>3. /\ DOMAIN making = {"stage", "seq", "body", "signed"} /\ open /\ keeps
      /\ SnapshotOf(chain, legacy, making.seq, making.body)
  BY <1>2 DEF OpeningInv, MakingInv
<1>4. Stored(chain, legacy, keeps, snaps) /\ keeps \in BOOLEAN /\ Governed(chain)
  BY <1>3 DEF OpeningInv, ChainInv
<1>5. StateInv' /\ UnitInv'
  BY <1>1 DEF OpeningInv, StateInv, UnitInv
<1> DEFINE after == [making EXCEPT !.stage = "stored"]
<1>6. DOMAIN after = DOMAIN making /\ after.stage = "stored" /\ after.seq = making.seq
      /\ after.body = making.body
  BY <1>3
<1> HIDE DEF after
<1>7. CASE making.seq \in DOMAIN snaps
  <2>1. snaps' = snaps /\ (making' = after \/ making' = NoCheckpoint)
    BY <1>7 DEF PutSnapshot, after
  <2>2. ChainInv'
    BY <1>1, <2>1 DEF OpeningInv, ChainInv
  <2>3. MakingInv'
    <3>1. CASE making' = NoCheckpoint
      BY <3>1 DEF MakingInv
    <3>2. CASE making' = after
      BY <1>1, <1>3, <1>6, <1>7, <2>1, <3>2 DEF MakingInv
    <3> QED
      BY <2>1, <3>1, <3>2
  <2> QED
    BY <1>5, <2>2, <2>3 DEF OpeningInv
<1>8. CASE making.seq \notin DOMAIN snaps
  <2> DEFINE snap == [body |-> making.body, signed |-> making.signed]
  <2>1. snaps' = Put(snaps, making.seq, snap) /\ making' = after
    BY <1>8 DEF PutSnapshot, after
  <2>2. snap.body = making.body
    OBVIOUS
  <2> HIDE DEF snap
  <2>3. /\ DOMAIN snaps' = DOMAIN snaps \cup {making.seq} /\ snaps'[making.seq] = snap
        /\ \A n \in DOMAIN snaps : snaps'[n] = snaps[n]
    <3> DEFINE q == making.seq
               S == snaps
    <3> HIDE DEF q, S
    <3>1. /\ DOMAIN Put(S, q, snap) = DOMAIN S \cup {q} /\ Put(S, q, snap)[q] = snap
          /\ \A n \in DOMAIN S : n # q => Put(S, q, snap)[n] = S[n]
      BY DEF Put
    <3>2. snaps' = Put(S, q, snap) /\ q \notin DOMAIN S
      BY <1>8, <2>1 DEF q, S
    <3>3. /\ DOMAIN snaps' = DOMAIN S \cup {q} /\ snaps'[q] = snap
          /\ \A n \in DOMAIN S : snaps'[n] = S[n]
      BY <3>1, <3>2
    <3> QED
      BY <3>3 DEF q, S
  <2>4. Stored(chain, legacy, keeps, snaps')
    <3>1. \A n \in DOMAIN snaps' : keeps /\ SnapshotOf(chain, legacy, n, snaps'[n].body)
      BY <1>3, <1>4, <2>2, <2>3 DEF Stored
    <3> QED
      BY <1>4, <2>3, <3>1 DEF Stored
  <2>5. ChainInv'
    BY <1>1, <1>4, <2>4 DEF ChainInv
  <2>6. MakingInv'
    BY <1>1, <1>3, <1>6, <2>1, <2>3 DEF MakingInv
  <2> QED
    BY <1>5, <2>5, <2>6 DEF OpeningInv
<1> QED
  BY <1>7, <1>8

\* A unit of work is durable whole: the state it leaves is the chain's.
LEMMA CommitKeeps == ASSUME OpeningInv, Commit PROVE OpeningInv'
<1> DEFINE t == unit.built
           v == unit.view
<1>1. /\ unit # NoUnit /\ chain' = chain \o t /\ st' = Merge(v) /\ unit' = NoUnit
      /\ UNCHANGED <<legacy, snaps, keeps, open, making>>
  BY DEF Commit
<1>2. /\ open /\ IsSeq(t) /\ Chained(chain \o t) /\ Replays(chain \o t, legacy)
      /\ Ends(chain \o t, Len(chain)) /\ \A i \in 1..Len(t) : t[i].type # "CHECKPOINT"
      /\ v.base = st /\ v.keeps = keeps /\ v.legacy = legacy
      /\ Together(v, chain, Replay(chain \o t, legacy, FALSE).view, chain \o t)
  BY <1>1 DEF OpeningInv, UnitInv, UnitOf
<1> HIDE DEF t, v
<1>3. Stored(chain, legacy, keeps, snaps) /\ keeps \in BOOLEAN /\ Governed(chain)
  BY <1>2 DEF OpeningInv, ChainInv
<1>4. /\ Stored(chain \o t, legacy, keeps, snaps)
      /\ \A i \in 1..Len(chain) : i \in 1..Len(chain \o t) /\ (chain \o t)[i] = chain[i]
  BY <1>2, <1>3, StoredGrows
<1>5. Governed(chain \o t)
  BY <1>3, <1>4, StaysGoverned
<1>6. ChainInv'
  BY <1>1, <1>3, <1>4, <1>5 DEF ChainInv
<1>7. Merge(v) = StateOf(chain \o t, legacy, keeps)
  <2>1. keeps => v.base.spendRefunds = <<>>
    <3>1. Reopens(chain, legacy, keeps, chain, st, Overlay(st, keeps))
      BY <1>2, ServedReopens
    <3> QED
      BY <1>2, <3>1 DEF Reopens
  <2> QED
    BY <1>2, <1>3, <2>1, MergesIntoState
<1>8. StateInv'
  BY <1>1, <1>7 DEF StateInv
<1>9. MakingInv'
  <2>1. CASE making = NoCheckpoint
    BY <1>1, <2>1 DEF MakingInv
  <2>2. CASE making # NoCheckpoint
    <3>1. keeps /\ SnapshotOf(chain, legacy, making.seq, making.body)
      BY <2>2 DEF OpeningInv, MakingInv
    <3>2. SnapshotOf(chain \o t, legacy, making.seq, making.body)
      BY <1>2, <1>3, <3>1, SnapshotStays DEF Stored
    <3> QED
      BY <1>1, <2>2, <3>1, <3>2 DEF OpeningInv, MakingInv
  <2> QED
    BY <2>1, <2>2
<1> QED
  BY <1>1, <1>6, <1>8, <1>9 DEF OpeningInv, UnitInv

\* A transaction of one line.
LEMMA OneLine ==
    ASSUME NEW a, a.amt \in Nat, a.ref \in Nat
    PROVE  Lines(<<a>>) /\ Len(<<a>>) = 1 /\ <<a>>[1] = a
<1>1. IsSeq(<<a>>) /\ Len(<<a>>) = 1 /\ <<a>>[1] = a
  BY ShortSequences
<1>2. \A i \in 1..1 : i = 1
  OBVIOUS
<1> QED
  BY <1>1, <1>2 DEF Lines

\* What one more transaction, posted over the state served and merged, leaves.
Leaves(c, l, k, s, built, view) ==
    /\ Stored(c \o built, l, k, s) /\ Governed(c \o built)
    /\ Merge(view) = StateOf(c \o built, l, k)

\* A transaction posted over the state served begins a unit of work; merged, it
\* leaves the state of the chain with it.
LEMMA PostsOverState ==
    ASSUME NEW c, NEW l, NEW k \in BOOLEAN, NEW s, Stored(c, l, k, s),
           NEW S, S = StateOf(c, l, k), NEW lines, Lines(lines),
           NEW p, p = Posted(Overlay(S, k), lines, c), p.ok
    PROVE  /\ (\A i \in 1..Len(lines) : lines[i].type # "CHECKPOINT")
                => UnitOf(c, l, k, S, p.built, p.view)
           /\ (\A i \in 1..Len(lines) :
                 lines[i].type = "CHECKPOINT" => lines[i].memo[1] \in DOMAIN s)
                => Leaves(c, l, k, s, p.built, p.view)
<1> DEFINE o == Overlay(S, k)
           t == p.built
           x == p.view
<1>1. Chained(c) /\ Len(c) > 0 /\ Replays(c, l)
  BY DEF Stored
<1>2. Reopens(c, l, k, c, S, o)
  BY <1>1, StateReopens
<1>3. p = Posted(o, lines, c) /\ p.ok
  OBVIOUS
<1> HIDE DEF o
<1>4. /\ Together(o, c, Replay(c, l, FALSE).view, c)
      /\ o.base = S /\ o.keeps = k /\ o.legacy = l /\ (k => S.spendRefunds = <<>>)
  BY <1>2 DEF Reopens
<1>5. Continues(c, l, c, o, t, x) /\ Grown(c, lines, 3, t)
  BY <1>1, <1>3, <1>4, PostContinues
<1> HIDE DEF t, x
<1>6. /\ IsSeq(t) /\ Len(t) > 0 /\ Chained(c \o t) /\ Replays(c \o t, l) /\ Ends(c \o t, Len(c))
      /\ Together(x, c, Replay(c \o t, l, FALSE).view, c \o t)
      /\ x.base = S /\ x.keeps = k /\ x.legacy = l
  BY <1>4, <1>5 DEF Continues, SameUnder
<1>7. Len(t) = Len(lines)
      /\ \A i \in 1..Len(lines) : /\ t[i].type = lines[i].type /\ t[i].memo = lines[i].memo
                                  /\ t[i].ver = 3
  BY <1>5 DEF Grown
<1>8. ASSUME \A i \in 1..Len(lines) : lines[i].type # "CHECKPOINT"
      PROVE  UnitOf(c, l, k, S, t, x)
  BY <1>6, <1>7, <1>8 DEF UnitOf
<1>9. ASSUME \A i \in 1..Len(lines) :
               lines[i].type = "CHECKPOINT" => lines[i].memo[1] \in DOMAIN s
      PROVE  Leaves(c, l, k, s, t, x)
  <2>1. \A i \in 1..Len(t) : t[i].type = "CHECKPOINT" => t[i].memo[1] \in DOMAIN s
    BY <1>7, <1>9
  <2>2. /\ Stored(c \o t, l, k, s)
        /\ \A i \in 1..Len(t) : Len(c) + i \in 1..Len(c \o t) /\ (c \o t)[Len(c) + i] = t[i]
    BY <1>6, <2>1, StoredGrows
  <2>3. Governed(c \o t)
    <3>1. 1 \in 1..Len(t)
      BY <1>6, SeqFacts
    <3>2. t[1].ver = 3
      BY <1>7, <3>1
    <3>3. Len(c) + 1 \in 1..Len(c \o t) /\ (c \o t)[Len(c) + 1].ver = 3
      BY <2>2, <3>1, <3>2
    <3> QED
      BY <3>3 DEF Governed
  <2>4. Merge(x) = StateOf(c \o t, l, k)
    <3>1. k => x.base.spendRefunds = <<>>
      BY <1>4, <1>6
    <3> QED
      BY <1>6, <3>1, MergesIntoState
  <2> QED
    BY <2>2, <2>3, <2>4 DEF Leaves
<1> QED
  BY <1>8, <1>9 DEF t, x

\* One more transaction joins a unit of work.
LEMMA UnitGrows ==
    ASSUME NEW c, Chained(c), Len(c) > 0, NEW l, NEW k, NEW S, NEW b, NEW v,
           UnitOf(c, l, k, S, b, v), NEW lines, Lines(lines),
           \A i \in 1..Len(lines) : lines[i].type # "CHECKPOINT",
           NEW p, p = Posted(v, lines, c), p.ok
    PROVE  UnitOf(c, l, k, S, b \o p.built, p.view)
<1> DEFINE t == p.built
           x == p.view
           W == c \o b
<1>1. /\ IsSeq(b) /\ Len(b) > 0 /\ Chained(W) /\ Replays(W, l) /\ Ends(W, Len(c))
      /\ \A i \in 1..Len(b) : b[i].type # "CHECKPOINT"
      /\ v.base = S /\ v.keeps = k /\ v.legacy = l
      /\ Together(v, c, Replay(W, l, FALSE).view, W)
  BY DEF UnitOf
<1>2. /\ IsSeq(c) /\ Len(c) \in Nat /\ Len(b) \in Nat /\ Len(W) = Len(c) + Len(b)
      /\ IsSeq(W)
      /\ \A i \in 1..Len(c) : W[i] = c[i]
      /\ \A i \in 1..Len(b) : W[Len(c) + i] = b[i]
      /\ DOMAIN c = 1..Len(c) /\ DOMAIN W = 1..Len(W)
  <2>1. IsSeq(c)
    BY DEF Chained
  <2> QED
    BY <1>1, <2>1, SeqFacts, ConcatFacts
<1> HIDE DEF W
<1>3. Range(c) \subseteq Range(W) /\ Len(W) > 0
  <2>1. \A i \in DOMAIN c : i \in DOMAIN W /\ W[i] = c[i]
    BY <1>2
  <2> QED
    BY <1>1, <1>2, <2>1 DEF Range
<1>4. Continues(W, l, c, v, t, x) /\ Grown(W, lines, 3, t)
  BY <1>1, <1>3, PostContinues
<1> HIDE DEF t, x
<1>5. /\ IsSeq(t) /\ Chained(W \o t) /\ Replays(W \o t, l)
      /\ Together(x, c, Replay(W \o t, l, FALSE).view, W \o t)
      /\ x.base = S /\ x.keeps = k /\ x.legacy = l
  BY <1>1, <1>4 DEF Continues, SameUnder
<1>6. \A i \in 1..Len(t) : t[i].type # "CHECKPOINT"
  BY <1>4 DEF Grown
<1>7. /\ Len(t) \in Nat /\ IsSeq(b \o t) /\ Len(b \o t) = Len(b) + Len(t)
      /\ \A i \in 1..Len(b) : (b \o t)[i] = b[i]
      /\ \A i \in 1..Len(t) : (b \o t)[Len(b) + i] = t[i]
  BY <1>1, <1>5, SeqFacts, ConcatFacts
<1>8. /\ IsSeq(W \o t) /\ Len(W \o t) = Len(W) + Len(t)
      /\ \A i \in 1..Len(W) : (W \o t)[i] = W[i]
      /\ \A i \in 1..Len(t) : (W \o t)[Len(W) + i] = t[i]
  <2>1. IsSeq(W) /\ IsSeq(t)
    BY <1>2, <1>5
  <2> QED
    BY <2>1, ConcatFacts
<1>9. \A i \in 1..Len(b \o t) : (b \o t)[i].type # "CHECKPOINT"
  <2> SUFFICES ASSUME NEW i \in 1..(Len(b) + Len(t)) PROVE (b \o t)[i].type # "CHECKPOINT"
    BY <1>7
  <2>1. CASE i \in 1..Len(b)
    BY <1>1, <1>7, <2>1
  <2>2. CASE i \notin 1..Len(b)
    <3>1. i - Len(b) \in 1..Len(t) /\ Len(b) + (i - Len(b)) = i
      BY <1>2, <1>7, <2>2
    <3>2. PICK m \in 1..Len(t) : Len(b) + m = i
      BY <3>1
    <3>3. (b \o t)[i] = t[m]
      BY <1>7, <3>2
    <3> QED
      BY <1>6, <3>3
  <2> QED
    BY <2>1, <2>2
<1>10. c \o (b \o t) = W \o t
  <2>1. IsSeq(c) /\ IsSeq(b) /\ IsSeq(t)
    BY <1>1, <1>2, <1>5
  <2> QED
    BY <2>1, ConcatThrice DEF W
<1>11. Ends(W \o t, Len(c))
  <2>1. Len(c) \in 1..Len(W) /\ Len(c) < Len(W) /\ Len(c) + 1 \in 1..Len(W)
        /\ Len(c) \in 1..Len(W \o t)
    BY <1>1, <1>2, <1>7, <1>8
  <2>2. W[Len(c) + 1].txn = Len(c) + 1
    BY <1>1, <2>1 DEF Ends
  <2>3. (W \o t)[Len(c) + 1].txn = Len(c) + 1
    BY <1>8, <2>1, <2>2
  <2> QED
    BY <2>1, <2>3 DEF Ends
<1>12. Len(b \o t) > 0
  BY <1>1, <1>2, <1>7
<1>13. UnitOf(c, l, k, S, b \o t, x)
  BY <1>5, <1>7, <1>9, <1>10, <1>11, <1>12 DEF UnitOf
<1> QED
  BY <1>13 DEF t, x

\* A transaction joins the unit of work, or the work is abandoned.
LEMMA PostKeeps ==
    ASSUME OpeningInv, NEW lines \in Transactions(workload.kinds, Refs), Post(lines)
    PROVE  OpeningInv'
<1> DEFINE v == IF unit = NoUnit THEN Overlay(st, keeps) ELSE unit.view
           p == Posted(v, lines, chain)
           b == unit.built
<1>1. /\ open
      /\ unit' = IF p.ok
                   THEN [posts |-> unit.posts + 1, view |-> p.view,
                         built |-> IF unit = NoUnit THEN p.built ELSE b \o p.built]
                   ELSE NoUnit
      /\ UNCHANGED <<chain, legacy, snaps, keeps, open, st, making>>
  BY DEF Post, stored
<1>2. /\ Stored(chain, legacy, keeps, snaps) /\ keeps \in BOOLEAN
      /\ Chained(chain) /\ Len(chain) > 0 /\ st = StateOf(chain, legacy, keeps)
  BY <1>1 DEF OpeningInv, ChainInv, Stored, StateInv
<1>3. Lines(lines) /\ \A i \in 1..Len(lines) : lines[i].type # "CHECKPOINT"
  BY RefsAreNumbers, TransactionLines
<1>4. ChainInv' /\ StateInv' /\ MakingInv'
  BY <1>1 DEF OpeningInv, ChainInv, StateInv, MakingInv
<1>5. CASE ~p.ok
  BY <1>1, <1>4, <1>5 DEF OpeningInv, UnitInv
<1>6. CASE p.ok /\ unit = NoUnit
  <2>1. p = Posted(Overlay(st, keeps), lines, chain)
    BY <1>6
  <2> HIDE DEF p
  <2>2. UnitOf(chain, legacy, keeps, st, p.built, p.view)
    BY <1>2, <1>3, <1>6, <2>1, PostsOverState
  <2>3. unit'.built = p.built /\ unit'.view = p.view
    BY <1>1, <1>6
  <2>4. UnitInv'
    BY <1>1, <2>2, <2>3 DEF UnitInv
  <2> QED
    BY <1>4, <2>4 DEF OpeningInv
<1>7. CASE p.ok /\ unit # NoUnit
  <2>1. p = Posted(unit.view, lines, chain)
    BY <1>7
  <2> HIDE DEF p
  <2>2. UnitOf(chain, legacy, keeps, st, b, unit.view)
    BY <1>7 DEF OpeningInv, UnitInv
  <2>3. UnitOf(chain, legacy, keeps, st, b \o p.built, p.view)
    BY <1>2, <1>3, <1>7, <2>1, <2>2, UnitGrows
  <2>4. unit'.built = b \o p.built /\ unit'.view = p.view
    BY <1>1, <1>7
  <2>5. UnitInv'
    BY <1>1, <2>3, <2>4 DEF UnitInv
  <2> QED
    BY <1>4, <2>5 DEF OpeningInv
<1> QED
  BY <1>5, <1>6, <1>7

\* The entry of a checkpoint names a snapshot that is stored.
LEMMA WriteCheckpointKeeps == ASSUME OpeningInv, WriteCheckpoint PROVE OpeningInv'
<1> DEFINE line == Line("CHECKPOINT", "NONE", None, None, 0, 0, <<making.seq>>)
           p == Posted(Overlay(st, keeps), <<line>>, chain)
<1>1. /\ making.stage = "stored" /\ unit = NoUnit /\ making' = NoCheckpoint
      /\ \/ chain' = chain /\ st' = st
         \/ p.ok /\ chain' = chain \o p.built /\ st' = Merge(p.view)
      /\ UNCHANGED <<legacy, snaps, keeps, open, unit>>
  BY DEF WriteCheckpoint
<1>2. making # NoCheckpoint
  BY <1>1 DEF NoCheckpoint
<1>3. open /\ making.seq \in DOMAIN snaps
  BY <1>1, <1>2 DEF OpeningInv, MakingInv
<1>4. /\ Stored(chain, legacy, keeps, snaps) /\ keeps \in BOOLEAN
      /\ st = StateOf(chain, legacy, keeps)
  BY <1>3 DEF OpeningInv, ChainInv, StateInv
<1>5. line.amt \in Nat /\ line.ref \in Nat /\ line.memo[1] = making.seq
  BY DEF Line
<1> HIDE DEF line
<1>6. /\ Lines(<<line>>)
      /\ \A i \in 1..Len(<<line>>) :
           <<line>>[i].type = "CHECKPOINT" => <<line>>[i].memo[1] \in DOMAIN snaps
  <2>1. Lines(<<line>>) /\ Len(<<line>>) = 1 /\ <<line>>[1] = line
    BY <1>5, OneLine
  <2>2. \A i \in 1..1 : i = 1
    OBVIOUS
  <2> QED
    BY <1>3, <1>5, <2>1, <2>2
<1>7. CASE chain' = chain /\ st' = st
  <2>1. ChainInv' /\ StateInv'
    BY <1>1, <1>7 DEF OpeningInv, ChainInv, StateInv
  <2> QED
    BY <1>1, <2>1 DEF OpeningInv, UnitInv, MakingInv
<1>8. CASE p.ok /\ chain' = chain \o p.built /\ st' = Merge(p.view)
  <2> DEFINE lines == <<line>>
  <2>1. /\ p = Posted(Overlay(st, keeps), lines, chain) /\ Lines(lines)
        /\ \A i \in 1..Len(lines) :
             lines[i].type = "CHECKPOINT" => lines[i].memo[1] \in DOMAIN snaps
    BY <1>6
  <2> HIDE DEF p, lines
  <2>2. Leaves(chain, legacy, keeps, snaps, p.built, p.view)
    BY <1>4, <1>8, <2>1, PostsOverState
  <2>3. ChainInv'
    BY <1>1, <1>4, <1>8, <2>2 DEF ChainInv, Leaves
  <2>4. StateInv'
    BY <1>1, <1>8, <2>2 DEF StateInv, Leaves
  <2> QED
    BY <1>1, <2>3, <2>4 DEF OpeningInv, UnitInv, MakingInv
<1> QED
  BY <1>1, <1>7, <1>8

\* The newest checkpoint the chain names is one of its snapshots.
LEMMA NewestIsStored ==
    ASSUME OpeningInv, NewestCheckpoint # 0
    PROVE  NewestCheckpoint \in DOMAIN snaps
<1> DEFINE made == {e.memo[1] : e \in {x \in Range(chain) : x.type = "CHECKPOINT"}}
<1>1. Stored(chain, legacy, keeps, snaps) /\ Chained(chain)
  BY DEF OpeningInv, ChainInv, Stored
<1>2. DOMAIN chain = 1..Len(chain) /\ Len(chain) \in Nat
  BY <1>1, SeqFacts DEF Chained
<1>3. made \subseteq DOMAIN snaps
  BY <1>1, <1>2 DEF Stored, Range
<1>4. NewestCheckpoint = IF made = {} THEN 0 ELSE Max(made)
  BY DEF NewestCheckpoint
<1> HIDE DEF made
<1>5. made # {}
  BY <1>4
<1>6. made \subseteq 1..Len(chain)
  BY <1>1, <1>3 DEF Stored, SnapshotOf, Ends
<1>7. IsFiniteSet(made)
  <2>1. IsFiniteSet(1..Len(chain))
    BY <1>2, FS_Interval
  <2> QED
    BY <1>6, <2>1, FS_Subset
<1>8. \E m \in made : \A n \in made : n <= m
  <2>1. \A x \in made : x \in Int
    BY <1>2, <1>6
  <2> QED
    BY <1>5, <1>7, <2>1, GreatestOf
<1>9. \E m \in made : \A n \in made : m >= n
  BY <1>2, <1>6, <1>8
<1>10. Max(made) \in made
  BY <1>9 DEF Max
<1> QED
  BY <1>3, <1>4, <1>5, <1>10

\* An open serves the state a replay of the whole chain derives, whatever image
\* it starts from.
LEMMA ImageIsReplay ==
    ASSUME OpeningInv, NEW full, FromImage(full).ok
    PROVE  FromImage(full).state = StateOf(chain, legacy, keeps)
<1> DEFINE n == NewestCheckpoint
<1>1. CASE full \/ n = 0 \/ ~keeps
  BY <1>1 DEF FromImage
<1>2. CASE ~(full \/ n = 0 \/ ~keeps)
  <2> DEFINE body == snaps[n].body
             end == Apply(Overlay(Decode(body), TRUE), SubSeq(chain, n + 1, Len(chain)), chain, FALSE)
  <2>1. /\ Stored(chain, legacy, keeps, snaps) /\ keeps = TRUE
        /\ Chained(chain) /\ Replays(chain, legacy)
    BY <1>2 DEF OpeningInv, ChainInv, Stored
  <2>2. n \in DOMAIN snaps
    BY <1>2, NewestIsStored
  <2>3. FromImage(full).ok => end.ok
    BY <1>2, <2>1 DEF FromImage, AdoptSnapshot
  <2>4. FromImage(full).state = Merge(EndTransaction(end.view))
    BY <1>2, <2>1 DEF FromImage, AdoptSnapshot
  <2>5. SnapshotOf(chain, legacy, n, body)
    BY <2>1, <2>2 DEF Stored
  <2>6. end = Apply(Overlay(Decode(body), TRUE), SubSeq(chain, n + 1, Len(chain)), chain, FALSE)
    OBVIOUS
  <2> HIDE DEF n, body, end
  <2>7. Merge(EndTransaction(end.view)) = StateOf(chain, legacy, TRUE)
    BY <2>1, <2>3, <2>5, <2>6, AdoptsState
  <2> QED
    BY <2>1, <2>4, <2>7
<1> QED
  BY <1>1, <1>2

\* An open seals pre-0.1.2 history, and serves the state of what it sealed.
LEMMA OpenKeeps ==
    ASSUME OpeningInv, NEW full, NEW repair, NEW sign, Open(full, repair, sign)
    PROVE  OpeningInv'
<1> DEFINE image == FromImage(full)
           seal == Posted(Overlay(image.state, keeps), SealLine, chain)
           seals == image.state.sawV1 /\ ~image.state.sawV2
<1>1. /\ ~open /\ image.ok
      /\ seals => seal.ok
      /\ chain' = IF seals THEN chain \o seal.built ELSE chain
      /\ st' = IF seals THEN Merge(seal.view) ELSE image.state
      /\ UNCHANGED <<legacy, snaps, keeps, unit, making>>
  BY DEF Open, Unclaimed
<1>2. image.state = StateOf(chain, legacy, keeps)
  BY <1>1, ImageIsReplay
<1> HIDE DEF image
<1>3. /\ Stored(chain, legacy, keeps, snaps) /\ keeps \in BOOLEAN
      /\ Chained(chain) /\ Replays(chain, legacy) /\ Len(chain) > 0
  BY DEF OpeningInv, ChainInv, Stored
<1>4. unit = NoUnit /\ making = NoCheckpoint
  BY <1>1 DEF OpeningInv, UnitInv, MakingInv
<1>5. CASE seals
  <2>1. /\ Lines(SealLine)
        /\ \A i \in 1..Len(SealLine) : SealLine[i].type # "CHECKPOINT"
    <3> DEFINE line == Line("SEAL", "NONE", None, None, 0, 0, legacy)
    <3>1. line.amt \in Nat /\ line.ref \in Nat /\ line.type = "SEAL"
      BY DEF Line
    <3> HIDE DEF line
    <3>2. Lines(<<line>>) /\ Len(<<line>>) = 1 /\ <<line>>[1] = line
      BY <3>1, OneLine
    <3>3. \A i \in 1..1 : i = 1
      OBVIOUS
    <3>4. \A i \in 1..Len(<<line>>) : <<line>>[i].type # "CHECKPOINT"
      BY <3>1, <3>2, <3>3
    <3> QED
      BY <3>2, <3>4 DEF SealLine, line
  <2>2. seal = Posted(Overlay(image.state, keeps), SealLine, chain) /\ seal.ok
    BY <1>1, <1>5
  <2> HIDE DEF seal
  <2>3. Leaves(chain, legacy, keeps, snaps, seal.built, seal.view)
    BY <1>2, <1>3, <2>1, <2>2, PostsOverState
  <2>4. ChainInv'
    BY <1>1, <1>3, <1>5, <2>3 DEF ChainInv, Leaves
  <2>5. StateInv'
    BY <1>1, <1>5, <2>3 DEF StateInv, Leaves
  <2> QED
    BY <1>1, <1>4, <2>4, <2>5 DEF OpeningInv, UnitInv, MakingInv
<1>6. CASE ~seals
  <2>1. chain' = chain /\ st' = image.state
    BY <1>1, <1>6
  <2> HIDE DEF seal
  <2>2. Governed(chain)
    <3> DEFINE o == Overlay(image.state, keeps)
    <3>1. Reopens(chain, legacy, keeps, chain, image.state, o)
      BY <1>2, <1>3, StateReopens
    <3>2. o.sawV1 = image.state.sawV1 /\ o.sawV2 = image.state.sawV2
      BY OverlayFields DEF Whole
    <3> HIDE DEF o
    <3>3. Together(o, chain, Replay(chain, legacy, FALSE).view, chain)
      BY <3>1 DEF Reopens
    <3>4. /\ o.sawV1 <=> \E i \in 1..Len(chain) : chain[i].ver = 1
          /\ o.sawV2 <=> \E i \in 1..Len(chain) : chain[i].ver # 1
      BY <1>3, <3>3, StandsAtEnd
    <3>5. 1 \in 1..Len(chain)
      BY <1>3, SeqFacts DEF Chained
    <3> QED
      BY <1>6, <3>2, <3>4, <3>5 DEF Governed
  <2>3. ChainInv'
    BY <1>1, <1>3, <2>1, <2>2 DEF ChainInv
  <2>4. StateInv'
    BY <1>1, <1>2, <2>1 DEF StateInv
  <2> QED
    BY <1>1, <1>4, <2>3, <2>4 DEF OpeningInv, UnitInv, MakingInv
<1> QED
  BY <1>5, <1>6

\* Every step keeps the invariant.
LEMMA OpeningNext == ASSUME OpeningInv, [Next]_vars PROVE OpeningInv'
<1>1. CASE \E lines \in Transactions(workload.kinds, {0} \cup Refs), ver \in {1, 2},
              crashed \in BOOLEAN : OldWrite(lines, ver, crashed)
  BY <1>1, OldWriteKeeps
<1>2. CASE \E type \in Control, s \in Scopes : OldEvent(type, s)
  BY <1>2, OldEventKeeps
<1>3. CASE \E full \in BOOLEAN, repair \in BOOLEAN, sign \in workload.signings :
              Open(full, repair, sign)
  BY <1>3, OpenKeeps
<1>4. CASE Close
  BY <1>4, CloseKeeps
<1>5. CASE \E lines \in Transactions(workload.kinds, Refs) : Post(lines)
  BY <1>5, PostKeeps
<1>6. CASE Commit
  BY <1>6, CommitKeeps
<1>7. CASE CommitFails
  BY <1>7, CommitFailsKeeps
<1>8. CASE EncodeCheckpoint
  BY <1>8, EncodeKeeps
<1>9. CASE PutSnapshot
  BY <1>9, PutSnapshotKeeps
<1>10. CASE WriteCheckpoint
  BY <1>10, WriteCheckpointKeeps
<1>11. CASE UNCHANGED vars
  BY <1>11 DEF OpeningInv, ChainInv, StateInv, UnitInv, MakingInv, vars, stored
<1> QED
  BY <1>1, <1>2, <1>3, <1>4, <1>5, <1>6, <1>7, <1>8, <1>9, <1>10, <1>11 DEF Next

----------------------------------------------------------------------------
(* The cache rows: what holds of them and of the authorizations served *)

\* Authorization rows name holds the chain placed, each one another.
RowsRead(c, A) ==
    /\ IsFiniteSet(A)
    /\ \A r \in A : /\ r.hold \in 1..Len(c) /\ c[r.hold].type = "HOLD"
                    /\ Key(r) = Key(c[r.hold])
                    /\ r.id \in (-Len(c))..Len(c)
    /\ \A r, q \in A : r.id = q.id \/ r.hold = q.hold => r = q

\* A row of an open hold's own id names that hold.
Owned(A, H) == \A r \in A, h \in H : r.id = h.id => r.hold = h.id

\* Event rows are the chain's up to each snapshot of it.
EventsAgree(c, E, s) ==
    /\ E \subseteq 1..Len(c)
    /\ \A n \in DOMAIN s : \A q \in 1..n : q \in E <=> c[q].type \in Control

\* Holds are as the chain's entries placed them.
HoldsRead(c, H) ==
    /\ IsFiniteSet(H)
    /\ \A h \in H : h.id \in 1..Len(c) /\ c[h.id].type = "HOLD" /\ h = Placed(c[h.id])

\* Every row has an authorization served, of its scope and amount, and every
\* open hold has one.
Serving(A, s, H) ==
    /\ {r.id : r \in A} = DOMAIN s
    /\ \A r \in A : Key(r) = Key(s[r.id])
    /\ {s[a] : a \in DOMAIN s} = H
    /\ \A a, b \in DOMAIN s : s[a] = s[b] => a = b

\* What a view stages, in terms of the chain c it reads on.
Staging(v, c) ==
    /\ \A h \in OpenHolds(v) : c[h.id].type = "HOLD" /\ h = Placed(c[h.id])
    /\ v.closed \subseteq {h.id : h \in v.base.holds}
    /\ v.events = {i \in 1..v.len : i > v.base.len /\ c[i].type \in Control}
    /\ DOMAIN v.nodes = v.rowScopes

RowsInv ==
    /\ RowsRead(chain, rows.auths)
    /\ Owned(rows.auths, StateOf(chain, legacy, keeps).holds)
    /\ EventsAgree(chain, rows.events, snaps)
    /\ open => /\ rows.nodes = NodeRows(st) /\ rows.events = EventRows(chain)
               /\ Serving(rows.auths, served, st.holds)
    /\ unit # NoUnit => Staging(unit.view, chain \o unit.built)

----------------------------------------------------------------------------
(* What staging entries does to the rows they imply *)

\* The events and the scopes that folding an entry in stages rows for.
RowChanges(v, e, w) ==
    /\ w.events = IF e.type \in Control THEN v.events \cup {e.seq} ELSE v.events
    /\ w.rowScopes = IF Creates(e) THEN v.rowScopes \cup {e.scope} ELSE v.rowScopes

LEMMA RowFields ==
    ASSUME NEW v, DOMAIN v = ViewFields, NEW e, NEW es
    PROVE  RowChanges(v, e, Fold(v, e, es))
<1> DEFINE b == BeginTransaction(v, e)
           h == FoldHolds(b, e, es)
           m == FoldMoney(h, e)
           g == FoldGovernance(m, e)
           w == FoldPosition(g, e)
<1>0. Fold(v, e, es) = w
  BY DEF Fold
<1> HIDE DEF b, h, m, g, w
<1>1. DOMAIN b = ViewFields /\ \A f \in ViewFields \ {"txn", "settleable"} : b[f] = v[f]
  BY BeginFields DEF b
<1>2. HoldsWrites(b, e, es, h)
  BY <1>1, HoldsFields DEF h
<1>3. MoneyWrites(h, e, m)
  <2>1. DOMAIN h = ViewFields
    BY <1>2 DEF HoldsWrites
  <2> QED
    BY <2>1, MoneyFields DEF m
<1>4. DOMAIN m = ViewFields
  BY <1>3 DEF MoneyWrites
<1>5. DOMAIN g = ViewFields /\ RowChanges(m, e, g)
  BY <1>4 DEF FoldGovernance, ViewFields, Whole, Creates, RowChanges, g
<1>6. PositionWrites(g, e, w)
  BY <1>5, PositionFields DEF w
<1>7. /\ \A f \in ViewFields \ HoldsPart : h[f] = b[f]
      /\ \A f \in ViewFields \ MoneyPart : m[f] = h[f]
      /\ \A f \in ViewFields \ PositionPart : w[f] = g[f]
  BY <1>2, <1>3, <1>6 DEF HoldsWrites, MoneyWrites, PositionWrites
<1>8. m.events = v.events /\ m.rowScopes = v.rowScopes
      /\ w.events = g.events /\ w.rowScopes = g.rowScopes
  BY <1>1, <1>7 DEF ViewFields, Whole, HoldsPart, MoneyPart, PositionPart
<1> QED
  BY <1>0, <1>5, <1>8 DEF RowChanges

\* What holds of a view along a chain, and what it only adds to the view it
\* started from.
Along(v, c, x) ==
    /\ WF(x) /\ Staging(x, c) /\ x.base = v.base
    /\ \A h \in OpenHolds(x) : h \in OpenHolds(v) \/ h.id > v.len

\* Folding an entry of the chain in.
LEMMA FoldStaging ==
    ASSUME NEW v, NEW c, NEW x, Along(v, c, x), v.len \in Nat, v.len <= x.len,
           NEW e, IsEntry(e), c[x.len + 1] = e,
           NEW es, NEW writing, Accepts(x, e, es, writing)
    PROVE  Along(v, c, Fold(x, e, es)) /\ Fold(x, e, es).len = x.len + 1
<1> DEFINE w == Fold(x, e, es)
<1>1. WF(w)
  BY FoldStaysWF DEF Along
<1>2. DOMAIN x = ViewFields /\ HoldsOK(x) /\ x.len \in Nat /\ x.base.len \in Nat
      /\ x.base.len <= x.len
  BY DEF Along, WF
<1>3. DOMAIN w = ViewFields /\ FoldChanges(x, e, es, w)
  BY <1>2, FoldFields
<1>4. RowChanges(x, e, w)
  BY <1>2, RowFields
<1> HIDE DEF w
<1>5. e.seq = x.len + 1 /\ CheckHolds(x, e, es)
  BY DEF Accepts
<1>6. w.len = x.len + 1 /\ w.base = x.base
  BY <1>3, <1>5 DEF FoldChanges, PositionChanges
<1>7. /\ OpenHolds(w) \subseteq OpenHolds(x) \cup {Placed(e)}
      /\ e.type # "HOLD" => OpenHolds(w) \subseteq OpenHolds(x)
      /\ e.type = "HOLD_VOID" => Closing(x, e) \in OpenHolds(x)
  BY <1>3, <1>5, HoldsAfter DEF Along
<1>8. \A h \in OpenHolds(w) : c[h.id].type = "HOLD" /\ h = Placed(c[h.id])
  <2> TAKE h \in OpenHolds(w)
  <2>1. CASE h \in OpenHolds(x)
    BY <2>1 DEF Along, Staging
  <2>2. CASE h \notin OpenHolds(x)
    <3>1. h = Placed(e) /\ e.type = "HOLD"
      BY <1>7, <2>2
    <3>2. h.id = x.len + 1
      BY <1>5, <3>1 DEF Placed
    <3> QED
      BY <3>1, <3>2
  <2> QED
    BY <2>1, <2>2
<1>9. w.closed \subseteq {h.id : h \in w.base.holds}
  <2>1. w.closed = IF e.type = "HOLD_VOID" /\ Closing(x, e) \notin x.opened
                     THEN x.closed \cup {Closing(x, e).id} ELSE x.closed
    BY <1>3 DEF FoldChanges, HoldsChanges
  <2>2. e.type = "HOLD_VOID" /\ Closing(x, e) \notin x.opened => Closing(x, e) \in x.base.holds
    BY <1>7 DEF OpenHolds
  <2> QED
    BY <1>6, <2>1, <2>2 DEF Along, Staging
<1>10. w.events = {i \in 1..w.len : i > w.base.len /\ c[i].type \in Control}
  <2>1. x.events = {i \in 1..x.len : i > x.base.len /\ c[i].type \in Control}
    BY DEF Along, Staging
  <2>2. 1..w.len = 1..x.len \cup {x.len + 1} /\ x.len + 1 > x.base.len
    BY <1>2, <1>6
  <2> QED
    BY <1>2, <1>4, <1>5, <1>6, <2>1, <2>2 DEF RowChanges
<1>11. DOMAIN w.nodes = w.rowScopes
  <2>1. w.nodes = IF Creates(e) THEN Put(x.nodes, e.scope, CreatedNode(x, e)) ELSE x.nodes
    BY <1>3 DEF FoldChanges, GovernanceChanges
  <2>2. DOMAIN x.nodes = x.rowScopes
    BY DEF Along, Staging
  <2> QED
    BY <1>4, <2>1, <2>2 DEF Put, RowChanges
<1>12. \A h \in OpenHolds(w) : h \in OpenHolds(v) \/ h.id > v.len
  <2> TAKE h \in OpenHolds(w)
  <2>1. h \in OpenHolds(x) \/ h = Placed(e)
    BY <1>7
  <2>2. Placed(e).id = x.len + 1 /\ x.len + 1 > v.len
    BY <1>2, <1>5 DEF Placed
  <2> QED
    BY <2>1, <2>2 DEF Along
<1>13. Staging(w, c)
  BY <1>8, <1>9, <1>10, <1>11 DEF Staging
<1>14. Along(v, c, w)
  BY <1>1, <1>6, <1>12, <1>13 DEF Along
<1> QED
  BY <1>6, <1>14 DEF w

\* The entries after those the view has read.
NextOf(v, c, new) == \A i \in 1..Len(new) : IsEntry(new[i]) /\ c[v.len + i] = new[i]

\* Accepted, they are staged.
LEMMA StagingUpTo ==
    ASSUME NEW v, WF(v), NEW c, Staging(v, c), NEW new, IsSeq(new), NEW es, NEW writing,
           NextOf(v, c, new),
           Apply(v, new, es, writing).ok
    PROVE  Along(v, c, Apply(v, new, es, writing).view)
           /\ Apply(v, new, es, writing).view.len = v.len + Len(new)
<1> DEFINE A == Staged(v, new, es, writing)
           N == Len(new)
           S == {n \in 0..N : Along(v, c, A[n].view) /\ A[n].view.len = v.len + n}
<1>1. N \in Nat /\ v.len \in Nat
  BY SeqFacts DEF WF
<1>2. Apply(v, new, es, writing) = A[N]
  BY DEF Apply
<1>3. AcceptsUpTo(A, N, v, new, es, writing)
  <2>1. N \in 0..Len(new) /\ Staged(v, new, es, writing)[N].ok
    BY <1>1, <1>2
  <2> HIDE DEF N
  <2> QED
    BY <2>1, AcceptedBefore
<1> HIDE DEF A, N
<1>4. 0 \in S
  <2>1. A[0].view = v
    BY <1>3 DEF AcceptsUpTo
  <2>2. Along(v, c, v) /\ v.len = v.len + 0
    BY <1>1 DEF Along
  <2> QED
    BY <1>1, <2>1, <2>2
<1>5. ASSUME NEW n \in 0..(N - 1), n \in S PROVE n + 1 \in S
  <2>1. n + 1 \in 1..N /\ (n + 1) - 1 = n /\ n + 1 \in 0..N /\ n \in Nat
    BY <1>1
  <2>2. /\ Accepts(A[n].view, new[n + 1], es, writing)
        /\ A[n + 1].view = Fold(A[n].view, new[n + 1], es)
    BY <1>3, <2>1 DEF AcceptsUpTo
  <2>3. Along(v, c, A[n].view) /\ A[n].view.len = v.len + n
    BY <1>5
  <2>4. IsEntry(new[n + 1]) /\ c[A[n].view.len + 1] = new[n + 1] /\ v.len <= A[n].view.len
        /\ A[n].view.len + 1 = v.len + (n + 1)
    <3>1. v.len + n + 1 = v.len + (n + 1)
      BY <1>1, <2>1
    <3> QED
      BY <1>1, <2>1, <2>3, <3>1 DEF N, NextOf
  <2>5. Along(v, c, A[n + 1].view) /\ A[n + 1].view.len = v.len + (n + 1)
    BY <1>1, <2>2, <2>3, <2>4, FoldStaging
  <2> QED
    BY <2>1, <2>5
<1>6. 0..N \subseteq S
  <2> HIDE DEF S
  <2> QED
    BY <1>1, <1>4, <1>5, CountUp
<1>7. N \in S
  BY <1>1, <1>6
<1> QED
  BY <1>2, <1>7 DEF N

\* The end of a transaction changes none of that.
LEMMA StagingEnds ==
    ASSUME NEW v, NEW c, NEW x, Along(v, c, x), x.len \in Nat
    PROVE  /\ Staging(EndTransaction(x), c) /\ EndTransaction(x).base = v.base
           /\ OpenHolds(EndTransaction(x)) = OpenHolds(x)
           /\ EndTransaction(x).len = x.len
<1> DEFINE w == EndTransaction(x)
<1>1. DOMAIN x = ViewFields /\ Staging(x, c) /\ x.base = v.base
  BY DEF Along, WF
<1>2. \A f \in ViewFields \ {"txn", "settleable"} : w[f] = x[f]
  BY <1>1, EndFields
<1> HIDE DEF w
<1>3. /\ w.base = x.base /\ w.opened = x.opened /\ w.closed = x.closed /\ w.len = x.len
      /\ w.events = x.events /\ w.nodes = x.nodes /\ w.rowScopes = x.rowScopes
  BY <1>2 DEF ViewFields, Whole
<1>4. OpenHolds(w) = OpenHolds(x)
  BY <1>3 DEF OpenHolds
<1>5. Staging(w, c)
  BY <1>1, <1>3, <1>4 DEF Staging
<1> QED
  BY <1>1, <1>3, <1>4, <1>5 DEF w

\* A replay stages what its chain says.
LEMMA ReplayStages ==
    ASSUME NEW c, Chained(c), NEW l, Replays(c, l), NEW k \in BOOLEAN
    PROVE  /\ WF(Replay(c, l, k).view) /\ Staging(Replay(c, l, k).view, c)
           /\ Replay(c, l, k).view.len = Len(c)
           /\ StateOf(c, l, k).holds = OpenHolds(Replay(c, l, k).view)
           /\ StateOf(c, l, k).holds = OpenHolds(Replay(c, l, FALSE).view)
<1> DEFINE o == Overlay(Empty(l), k)
           r == Replay(c, l, k)
           no == FALSE
<1>1. WF(o) /\ o.base = Empty(l) /\ o.len = 0
  <2>1. Fresh(o, l, k)
    BY GenesisStart
  <2> QED
    BY <2>1 DEF Fresh
<1>2. /\ o.opened = {} /\ o.closed = {} /\ o.nodes = <<>> /\ o.rowScopes = {} /\ o.events = {}
  BY OverlayFields
<1>3. r.ok /\ r.view.len = Len(c) /\ OpenHolds(r.view) = OpenHolds(Replay(c, l, FALSE).view)
  <2>1. EndRight(c, l, k, Replay(c, l, k), Replay(c, l, FALSE))
    BY ReplaysEnds
  <2> QED
    BY <2>1 DEF EndRight, Together, Alike
<1>4. r = Apply(o, c, c, no)
  BY DEF Replay
<1>5. StateOf(c, l, k).holds = OpenHolds(EndTransaction(r.view))
  <2>1. StateOf(c, l, k) = Merge(EndTransaction(r.view))
    BY DEF StateOf
  <2> QED
    BY <2>1, MergeFields DEF Merged
<1> HIDE DEF o, r, no
<1>6. Staging(o, c)
  <2>1. OpenHolds(o) = {}
    BY <1>1, <1>2 DEF OpenHolds, Empty
  <2>2. DOMAIN <<>> = {}
    OBVIOUS
  <2> QED
    BY <1>1, <1>2, <2>1, <2>2 DEF Staging
<1>7. IsSeq(c) /\ Len(c) \in Nat /\ NextOf(o, c, c)
  BY <1>1, ChainedEntry, SeqFacts DEF Chained, NextOf
<1>8. Along(o, c, r.view)
  BY <1>1, <1>3, <1>4, <1>6, <1>7, StagingUpTo
<1>9. OpenHolds(EndTransaction(r.view)) = OpenHolds(r.view)
  <2>1. r.view.len \in Nat
    BY <1>3, <1>7
  <2> QED
    BY <1>8, <2>1, StagingEnds
<1>10. WF(r.view) /\ Staging(r.view, c)
  BY <1>8 DEF Along
<1> QED
  BY <1>3, <1>5, <1>9, <1>10 DEF r

\* The holds of a chain's state are the chain's.
LEMMA HoldsOfChain ==
    ASSUME NEW c, Chained(c), NEW l, Replays(c, l), NEW k \in BOOLEAN
    PROVE  HoldsRead(c, StateOf(c, l, k).holds)
<1> DEFINE v == Replay(c, l, k).view
<1>1. WF(v) /\ Staging(v, c) /\ v.len = Len(c) /\ StateOf(c, l, k).holds = OpenHolds(v)
  BY ReplayStages
<1> HIDE DEF v
<1> QED
  BY <1>1 DEF WF, HoldsOK, Staging, HoldsRead

----------------------------------------------------------------------------
(* Serving rows *)

\* Ranks in a finite set tell its members apart, and count from none.
LEMMA RankFacts ==
    ASSUME NEW S \in SUBSET Int, IsFiniteSet(S)
    PROVE  /\ \A n \in S : Rank(S, n) \in 0..(Cardinality(S) - 1)
           /\ \A n, m \in S : Rank(S, n) = Rank(S, m) => n = m
<1> DEFINE below(n) == {m \in S : m < n}
<1>1. \A n : IsFiniteSet(below(n)) /\ Rank(S, n) = Cardinality(below(n))
             /\ Cardinality(below(n)) \in Nat
  <2> TAKE n
  <2>1. IsFiniteSet(below(n))
    BY FS_Subset
  <2> QED
    BY <2>1, FS_CardinalityType DEF Rank
<1>2. ASSUME NEW n \in S PROVE Rank(S, n) \in 0..(Cardinality(S) - 1)
  <2>1. IsFiniteSet(S \ {n}) /\ Cardinality(S \ {n}) = Cardinality(S) - 1
    BY FS_RemoveElement
  <2>2. below(n) \in SUBSET (S \ {n})
    OBVIOUS
  <2>3. Cardinality(below(n)) <= Cardinality(S) - 1
    BY <2>1, <2>2, FS_Subset
  <2>4. Cardinality(S) \in Nat
    BY FS_CardinalityType
  <2> QED
    BY <1>1, <2>3, <2>4
<1>3. ASSUME NEW n \in S, NEW m \in S, n < m PROVE Rank(S, n) < Rank(S, m)
  <2>1. below(n) \cup {n} \in SUBSET below(m) /\ n \notin below(n)
    <3>1. n \in Int /\ m \in Int /\ \A x \in S : x \in Int
      OBVIOUS
    <3>2. \A x \in S : x < n \/ x = n => x < m
      BY <1>3, <3>1
    <3>3. ~(n < n)
      BY <3>1
    <3> QED
      BY <3>2, <3>3
  <2> HIDE DEF below
  <2>2. Cardinality(below(n) \cup {n}) = Cardinality(below(n)) + 1
    BY <1>1, <2>1, FS_AddElement
  <2>3. Cardinality(below(n) \cup {n}) <= Cardinality(below(m))
    BY <1>1, <2>1, FS_Subset
  <2> QED
    BY <1>1, <2>2, <2>3
<1>4. ASSUME NEW n \in S, NEW m \in S, Rank(S, n) = Rank(S, m) PROVE n = m
  <2>1. n < m \/ m < n \/ n = m
    OBVIOUS
  <2>2. Rank(S, n) \in Int
    BY <1>2
  <2> QED
    BY <1>3, <1>4, <2>1, <2>2
<1> QED
  BY <1>2, <1>4

\* Sets of as many members have the same ranks.
LEMMA RanksMeet ==
    ASSUME NEW S \in SUBSET Int, IsFiniteSet(S), NEW T \in SUBSET Int, IsFiniteSet(T),
           Cardinality(S) = Cardinality(T)
    PROVE  \A n \in S : \E m \in T : Rank(S, n) = Rank(T, m)
<1> DEFINE f == [m \in T |-> Rank(T, m)]
           R == 0..(Cardinality(T) - 1)
<1>1. f \in [T -> R]
  BY RankFacts
<1>2. f \in Injection(T, R)
  BY <1>1, RankFacts DEF Injection, IsInjective
<1>3. Cardinality(T) \in Nat
  BY FS_CardinalityType
<1>4. IsFiniteSet(R) /\ Cardinality(R) = Cardinality(T)
  <2> DEFINE b == Cardinality(T) - 1
  <2>1. b \in Int /\ 0 \in Int
    BY <1>3
  <2>2. IsFiniteSet(0..b) /\ Cardinality(0..b) = IF 0 > b THEN 0 ELSE b - 0 + 1
    BY <2>1, FS_Interval
  <2> QED
    BY <1>3, <2>2
<1> HIDE DEF f, R
<1>5. f \in Surjection(T, R)
  BY <1>2, <1>4, FS_Injection
<1>6. \A n \in S : Rank(S, n) \in R
  BY RankFacts DEF R
<1>7. \A x \in R : \E m \in T : f[m] = x
  BY <1>5 DEF Surjection
<1> QED
  BY <1>6, <1>7 DEF f

\* The image of a finite set is finite.
LEMMA ImageFinite ==
    ASSUME NEW S, IsFiniteSet(S), NEW f
    PROVE  IsFiniteSet({f[x] : x \in S})
<1> DEFINE T == {f[x] : x \in S}
           g == [x \in S |-> f[x]]
<1>1. g \in Surjection(S, T)
  BY DEF Surjection
<1> HIDE DEF g, T
<1>2. IsFiniteSet(T)
  BY <1>1, FS_Surjection
<1> QED
  BY <1>2 DEF T

\* Rows and open holds that are of the chain.
Readable(S) ==
    /\ IsSeq(chain)
    /\ RowsRead(chain, rows.auths) /\ HoldsRead(chain, S.holds) /\ Owned(rows.auths, S.holds)

\* The rows a hold may be served under.
By(S, h) == {r \in rows.auths : r.hold = h.id \/ StandsIn(S, r, h)}

\* Holds in question are entries of the chain.
LEMMA KeySets ==
    ASSUME NEW S, Readable(S), NEW key
    PROVE  /\ InKey(S, key) \in SUBSET Int /\ IsFiniteSet(InKey(S, key))
           /\ Candidates(S, key) \in SUBSET Int /\ IsFiniteSet(Candidates(S, key))
<1>1. Len(chain) \in Nat /\ IsFiniteSet(1..Len(chain))
  BY SeqFacts, FS_Interval DEF Readable
<1>2. InKey(S, key) \in SUBSET (1..Len(chain))
  BY DEF InKey, Readable, HoldsRead
<1>3. Candidates(S, key) \in SUBSET (1..Len(chain))
  BY DEF Candidates, Readable, RowsRead
<1>4. 1..Len(chain) \in SUBSET Int
  BY <1>1
<1> QED
  BY <1>1, <1>2, <1>3, <1>4, FS_Subset

\* A row that names an open hold is of its key, and never refused.
LEMMA NamesOpen ==
    ASSUME NEW S, Readable(S), NEW h \in S.holds, NEW r \in rows.auths, r.hold = h.id
    PROVE  /\ Key(r) = Key(h) /\ h.id \in InKey(S, Key(h))
           /\ h.id \in Candidates(S, Key(h)) /\ r \notin Released(S)
<1>1. h = Placed(chain[h.id]) /\ Key(r) = Key(chain[r.hold])
  BY DEF Readable, HoldsRead, RowsRead
<1>2. Key(h) = Key(chain[h.id])
  <2>1. h.scope = chain[h.id].scope /\ h.amt = chain[h.id].amt
    BY <1>1 DEF Placed
  <2> QED
    BY <2>1 DEF Key
<1>3. Key(r) = Key(h) /\ r \notin Released(S)
  BY <1>1, <1>2 DEF Released, IsOpen
<1>4. h.id \in InKey(S, Key(h))
  BY DEF InKey
<1>5. h.id \in Candidates(S, Key(h))
  BY <1>3 DEF Candidates
<1> QED
  BY <1>3, <1>4, <1>5

\* The holds of a key that are gone though a row names them, and those open
\* that no row names.
GoneIn(S, key) == Candidates(S, key) \ InKey(S, key)
FreeIn(S, key) == InKey(S, key) \ Candidates(S, key)

\* What standing in for a row takes.
LEMMA StandsInAt ==
    ASSUME NEW S, NEW r, NEW h, StandsIn(S, r, h)
    PROVE  /\ Key(r) = Key(h) /\ r.hold \in GoneIn(S, Key(h)) /\ h.id \in FreeIn(S, Key(h))
           /\ Rank(GoneIn(S, Key(h)), r.hold) = Rank(FreeIn(S, Key(h)), h.id)
  BY DEF StandsIn, GoneIn, FreeIn

\* A row a hold may be served under is of its key, and there is at most one.
LEMMA OneRow ==
    ASSUME NEW S, Readable(S), NEW h \in S.holds, NEW r \in By(S, h)
    PROVE  /\ r \in rows.auths /\ Key(r) = Key(h)
           /\ \A q \in By(S, h) : q = r
           /\ Under(S, h) = r.id
<1>1. r \in rows.auths /\ (r.hold = h.id \/ StandsIn(S, r, h))
  BY DEF By
<1>2. Key(r) = Key(h)
  BY <1>1, NamesOpen, StandsInAt
<1>3. ASSUME NEW q \in By(S, h) PROVE q = r
  <2>1. q \in rows.auths /\ (q.hold = h.id \/ StandsIn(S, q, h))
    BY DEF By
  <2>2. CASE r.hold = h.id \/ q.hold = h.id
    <3>1. h.id \in Candidates(S, Key(h))
      BY <1>1, <2>1, <2>2, NamesOpen
    <3>2. ~StandsIn(S, r, h) /\ ~StandsIn(S, q, h)
      BY <3>1, StandsInAt DEF FreeIn
    <3>3. r.hold = q.hold
      BY <1>1, <2>1, <3>2
    <3> QED
      BY <1>1, <2>1, <3>3 DEF Readable, RowsRead
  <2>3. CASE StandsIn(S, r, h) /\ StandsIn(S, q, h)
    <3> DEFINE gone == GoneIn(S, Key(h))
    <3>1. r.hold \in gone /\ q.hold \in gone /\ Rank(gone, r.hold) = Rank(gone, q.hold)
      BY <2>3, StandsInAt
    <3>2. gone \in SUBSET Int /\ IsFiniteSet(gone)
      BY KeySets, FS_Difference DEF GoneIn
    <3> HIDE DEF gone
    <3>3. r.hold = q.hold
      BY <3>1, <3>2, RankFacts
    <3> QED
      BY <1>1, <2>1, <3>3 DEF Readable, RowsRead
  <2> QED
    BY <1>1, <2>1, <2>2, <2>3
<1>4. Under(S, h) = r.id
  <2>1. Under(S, h) = IF By(S, h) = {} THEN h.id ELSE (CHOOSE q \in By(S, h) : TRUE).id
    BY DEF Under, By
  <2>2. (CHOOSE q \in By(S, h) : TRUE) = r
    BY <1>3
  <2> QED
    BY <2>1, <2>2
<1> QED
  BY <1>1, <1>2, <1>3, <1>4

\* A hold no row is for is served under its own id.
LEMMA OwnId ==
    ASSUME NEW S, NEW h, By(S, h) = {}
    PROVE  Under(S, h) = h.id
<1>1. Under(S, h) = IF By(S, h) = {} THEN h.id ELSE (CHOOSE q \in By(S, h) : TRUE).id
  BY DEF Under, By
<1> QED
  BY <1>1

\* No two open holds are served under one id.
LEMMA UnderApart ==
    ASSUME NEW S, Readable(S), NEW h \in S.holds, NEW g \in S.holds, Under(S, h) = Under(S, g)
    PROVE  h = g
<1>1. h.id = g.id => h = g
  BY DEF Readable, HoldsRead
<1>2. ASSUME NEW x \in S.holds, NEW y \in S.holds, NEW r \in By(S, x), By(S, y) = {}
      PROVE  Under(S, x) # Under(S, y)
  <2>1. Under(S, x) = r.id /\ r \in rows.auths
    BY OneRow
  <2>2. Under(S, y) = y.id
    BY <1>2, OwnId
  <2>3. r.id # y.id
    <3>1. SUFFICES ASSUME r.id = y.id PROVE FALSE
      OBVIOUS
    <3>2. r.hold = y.id
      BY <2>1, <3>1 DEF Readable, Owned
    <3>3. r \in By(S, y)
      BY <2>1, <3>2 DEF By
    <3> QED
      BY <1>2, <3>3
  <2> QED
    BY <2>1, <2>2, <2>3
<1>3. CASE By(S, h) = {} /\ By(S, g) = {}
  BY <1>1, <1>3, OwnId
<1>4. CASE By(S, h) # {} /\ By(S, g) # {}
  <2>1. PICK r \in By(S, h) : TRUE
    BY <1>4
  <2>2. PICK q \in By(S, g) : TRUE
    BY <1>4
  <2>3. r \in rows.auths /\ q \in rows.auths /\ r.id = q.id /\ Key(r) = Key(h) /\ Key(q) = Key(g)
    BY OneRow
  <2>4. r = q
    BY <2>3 DEF Readable, RowsRead
  <2>5. Key(h) = Key(g)
    BY <2>3, <2>4
  <2>6. (r.hold = h.id \/ StandsIn(S, r, h)) /\ (r.hold = g.id \/ StandsIn(S, r, g))
    BY <2>4 DEF By
  <2>7. CASE r.hold = h.id \/ r.hold = g.id
    <3>1. r.hold \in InKey(S, Key(h))
      BY <2>3, <2>5, <2>7, NamesOpen
    <3>2. ~StandsIn(S, r, h) /\ ~StandsIn(S, r, g)
      BY <2>5, <3>1, StandsInAt DEF GoneIn
    <3> QED
      BY <1>1, <2>6, <3>2
  <2>8. CASE StandsIn(S, r, h) /\ StandsIn(S, r, g)
    <3> DEFINE free == FreeIn(S, Key(h))
    <3>1. h.id \in free /\ g.id \in free /\ Rank(free, h.id) = Rank(free, g.id)
      BY <2>5, <2>8, StandsInAt
    <3>2. free \in SUBSET Int /\ IsFiniteSet(free)
      BY KeySets, FS_Difference DEF FreeIn
    <3> HIDE DEF free
    <3> QED
      BY <1>1, <3>1, <3>2, RankFacts
  <2> QED
    BY <2>6, <2>7, <2>8
<1> QED
  BY <1>2, <1>3, <1>4

\* Every open hold is served, under one id.
LEMMA ServedAt ==
    ASSUME NEW S, Readable(S)
    PROVE  /\ DOMAIN Served(S) = {Under(S, h) : h \in S.holds}
           /\ \A h \in S.holds : Served(S)[Under(S, h)] = h
<1>1. DOMAIN Served(S) = {Under(S, h) : h \in S.holds}
      /\ \A a \in DOMAIN Served(S) : Served(S)[a] = CHOOSE h \in S.holds : Under(S, h) = a
  BY DEF Served
<1>2. ASSUME NEW h \in S.holds PROVE Served(S)[Under(S, h)] = h
  <2>1. \A g \in S.holds : Under(S, g) = Under(S, h) => g = h
    BY UnderApart
  <2>2. (CHOOSE g \in S.holds : Under(S, g) = Under(S, h)) = h
    BY <2>1
  <2> QED
    BY <1>1, <2>2
<1> QED
  BY <1>1, <1>2

\* A row says the place and the allocation of a scope.
LEMMA RowsOfNodes ==
    ASSUME NEW v, NodesOK(v), DOMAIN v.nodes = v.rowScopes
    PROVE  NodeRows(Merge(v)) =
             Over([s \in v.rowScopes |-> NodeRow(Merge(v), s)], NodeRows(v.base))
<1> DEFINE M == Merge(v)
           top == [s \in v.rowScopes |-> NodeRow(M, s)]
           low == NodeRows(v.base)
           N == MergedNodes(v)
<1>1. M.nodes = N
  BY MergeFields DEF Merged
<1>2. /\ DOMAIN N = DOMAIN v.nodes \cup DOMAIN v.base.nodes
      /\ \A s \in DOMAIN N : /\ N[s].parent = Node(v, s).parent /\ N[s].depth = Node(v, s).depth
                             /\ N[s].amt = Node(v, s).amt
  <2>1. \A s : s \in DOMAIN N <=> Known(v, s)
    BY MergedAt
  <2>2. \A s \in DOMAIN N : /\ N[s].parent = Node(v, s).parent /\ N[s].depth = Node(v, s).depth
                            /\ N[s].amt = Node(v, s).amt
    BY MergedAt
  <2> QED
    BY <2>1, <2>2 DEF Known
<1> HIDE DEF N, M
<1>3. NodeRows(M) = [s \in DOMAIN N |-> NodeRow(M, s)]
  BY <1>1 DEF NodeRows
<1>4. /\ DOMAIN top = v.rowScopes /\ DOMAIN low = DOMAIN v.base.nodes
      /\ \A s \in DOMAIN top : top[s] = NodeRow(M, s)
      /\ \A s \in DOMAIN low : low[s] = NodeRow(v.base, s)
  BY DEF NodeRows
<1> HIDE DEF top, low
<1>5. ASSUME NEW s \in DOMAIN low, s \notin DOMAIN top PROVE low[s] = NodeRow(M, s)
  <2>1. s \in DOMAIN N /\ Node(v, s) = v.base.nodes[s]
    BY <1>2, <1>4, <1>5 DEF Node, Look
  <2>2. /\ M.nodes[s].parent = v.base.nodes[s].parent /\ M.nodes[s].depth = v.base.nodes[s].depth
        /\ M.nodes[s].amt = v.base.nodes[s].amt
    BY <1>1, <1>2, <2>1
  <2> QED
    BY <1>4, <2>2 DEF NodeRow
<1>6. \A s \in DOMAIN top \cup DOMAIN low :
        (IF s \in DOMAIN top THEN top[s] ELSE low[s]) = NodeRow(M, s)
  BY <1>4, <1>5
<1>7. DOMAIN N = DOMAIN top \cup DOMAIN low
  BY <1>2, <1>4
<1>8. Over(top, low) = [s \in DOMAIN N |-> NodeRow(M, s)]
  BY <1>6, <1>7 DEF Over
<1> QED
  BY <1>3, <1>8 DEF M, top, low

\* Nothing staged over rows is the rows.
LEMMA NoRowsOver ==
    ASSUME NEW f, DOMAIN f = {}, NEW S
    PROVE  Over(f, NodeRows(S)) = NodeRows(S)
<1> DEFINE g == NodeRows(S)
<1>1. g = [k \in DOMAIN g |-> g[k]]
  BY DEF NodeRows
<1> HIDE DEF g
<1>2. Over(f, g) = [k \in DOMAIN g |-> g[k]]
  BY DEF Over
<1> QED
  BY <1>1, <1>2 DEF g

\* The event rows of a chain are the numbers of its trips and resets.
LEMMA EventRowsAt ==
    ASSUME NEW c, Chained(c)
    PROVE  EventRows(c) = {i \in 1..Len(c) : c[i].type \in Control}
<1>1. DOMAIN c = 1..Len(c) /\ \A i \in 1..Len(c) : c[i].seq = i
  BY SeqFacts DEF Chained
<1>2. EventRows(c) \subseteq {i \in 1..Len(c) : c[i].type \in Control}
  BY <1>1 DEF EventRows, Range
<1>3. ASSUME NEW i \in 1..Len(c), c[i].type \in Control PROVE i \in EventRows(c)
  <2>1. c[i] \in Range(c) /\ c[i].seq = i
    BY <1>1 DEF Range
  <2> QED
    BY <1>3, <2>1 DEF EventRows
<1> QED
  BY <1>2, <1>3

\* The chain that c grew into.
Extends(c, d) ==
    /\ Len(c) \in Nat /\ Len(d) \in Nat /\ Len(c) <= Len(d)
    /\ \A i \in 1..Len(c) : d[i] = c[i]

\* It holds the entries of c first.
LEMMA ExtendsBy ==
    ASSUME NEW c, IsSeq(c), NEW t, IsSeq(t)
    PROVE  /\ Extends(c, c \o t)
           /\ \A i \in 1..Len(t) : (c \o t)[Len(c) + i] = t[i]
           /\ Len(c \o t) = Len(c) + Len(t) /\ Len(t) \in Nat
  BY SeqFacts, ConcatFacts DEF Extends

\* Rows that were of the chain stay so as it grows.
LEMMA RowsStay ==
    ASSUME NEW c, NEW d, Extends(c, d)
    PROVE  /\ \A A : RowsRead(c, A) => RowsRead(d, A)
           /\ \A E, s : EventsAgree(c, E, s) /\ (\A n \in DOMAIN s : n \in 1..Len(c))
                          => EventsAgree(d, E, s)
<1>1. 1..Len(c) \subseteq 1..Len(d) /\ (-Len(c))..Len(c) \subseteq (-Len(d))..Len(d)
  BY DEF Extends
<1>2. ASSUME NEW A, RowsRead(c, A) PROVE RowsRead(d, A)
  <2> SUFFICES ASSUME NEW r \in A
               PROVE  /\ r.hold \in 1..Len(d) /\ d[r.hold].type = "HOLD"
                      /\ Key(r) = Key(d[r.hold]) /\ r.id \in (-Len(d))..Len(d)
    BY <1>2 DEF RowsRead
  <2>1. /\ r.hold \in 1..Len(c) /\ c[r.hold].type = "HOLD"
        /\ Key(r) = Key(c[r.hold]) /\ r.id \in (-Len(c))..Len(c)
    BY <1>2 DEF RowsRead
  <2> QED
    BY <1>1, <2>1 DEF Extends
<1>3. ASSUME NEW E, NEW s, EventsAgree(c, E, s), \A n \in DOMAIN s : n \in 1..Len(c)
      PROVE  EventsAgree(d, E, s)
  <2>1. E \subseteq 1..Len(d)
    BY <1>1, <1>3 DEF EventsAgree
  <2>2. ASSUME NEW n \in DOMAIN s, NEW q \in 1..n PROVE q \in E <=> d[q].type \in Control
    <3>1. q \in 1..Len(c)
      <4>1. n \in 1..Len(c) /\ Len(c) \in Nat
        BY <1>3 DEF Extends
      <4> QED
        BY <4>1
    <3> QED
      BY <1>3, <3>1 DEF EventsAgree, Extends
  <2> QED
    BY <2>1, <2>2 DEF EventsAgree
<1> QED
  BY <1>2, <1>3

\* The chain's own event rows agree with every snapshot of it.
LEMMA EventsOwn ==
    ASSUME NEW c, Chained(c), NEW s, \A n \in DOMAIN s : n \in 1..Len(c)
    PROVE  EventsAgree(c, EventRows(c), s)
<1>1. Len(c) \in Nat
  BY SeqFacts DEF Chained
<1>2. EventRows(c) = {i \in 1..Len(c) : c[i].type \in Control}
  BY EventRowsAt
<1>3. \A n \in DOMAIN s : \A q \in 1..n : q \in 1..Len(c)
  BY <1>1
<1> QED
  BY <1>2, <1>3 DEF EventsAgree

\* What a view stages of a chain it stages of what the chain grows into.
LEMMA StagingGrows ==
    ASSUME NEW v, WF(v), NEW c, NEW d, Extends(c, d), v.len = Len(c), Staging(v, c)
    PROVE  Staging(v, d)
<1>1. \A h \in OpenHolds(v) : h.id \in 1..Len(c)
  BY DEF WF, HoldsOK
<1>2. \A i \in 1..v.len : d[i] = c[i]
  BY DEF Extends
<1>3. v.events = {i \in 1..v.len : i > v.base.len /\ d[i].type \in Control}
  BY <1>2 DEF Staging
<1>4. \A h \in OpenHolds(v) : d[h.id].type = "HOLD" /\ h = Placed(d[h.id])
  BY <1>1, <1>2 DEF Staging
<1> QED
  BY <1>3, <1>4 DEF Staging

\* Within a key whose counts agree, a row whose hold is gone stands in for a
\* free hold, and a free hold has such a row.
LEMMA StandInsMeet ==
    ASSUME NEW S, Readable(S), NEW key,
           Cardinality(InKey(S, key)) = Cardinality(Candidates(S, key))
    PROVE  /\ \A n \in GoneIn(S, key) : \E m \in FreeIn(S, key) :
                Rank(GoneIn(S, key), n) = Rank(FreeIn(S, key), m)
           /\ \A m \in FreeIn(S, key) : \E n \in GoneIn(S, key) :
                Rank(GoneIn(S, key), n) = Rank(FreeIn(S, key), m)
<1> DEFINE I == InKey(S, key)
           C == Candidates(S, key)
           G == C \ I
           F == I \ C
<1>1. I \in SUBSET Int /\ IsFiniteSet(I) /\ C \in SUBSET Int /\ IsFiniteSet(C)
      /\ Cardinality(I) = Cardinality(C)
  BY KeySets
<1> HIDE DEF I, C
<1>2. /\ IsFiniteSet(G) /\ Cardinality(G) = Cardinality(C) - Cardinality(C \cap I)
      /\ IsFiniteSet(F) /\ Cardinality(F) = Cardinality(I) - Cardinality(I \cap C)
  BY <1>1, FS_Difference
<1>3. C \cap I = I \cap C /\ G \in SUBSET Int /\ F \in SUBSET Int
  BY <1>1
<1>4. Cardinality(G) = Cardinality(F)
  BY <1>1, <1>2, <1>3
<1>5. G = GoneIn(S, key) /\ F = FreeIn(S, key)
  BY DEF GoneIn, FreeIn, I, C
<1> HIDE DEF G, F
<1>6. (\A n \in G : \E m \in F : Rank(G, n) = Rank(F, m))
      /\ (\A m \in F : \E n \in G : Rank(F, m) = Rank(G, n))
  BY <1>2, <1>3, <1>4, RanksMeet
<1> QED
  BY <1>5, <1>6

\* Rows the chain does not contradict all serve, each an open hold, and every
\* open hold is served by one.
LEMMA NoProblems ==
    ASSUME NEW S, Readable(S), NEW base, ~Problems(S, base)
    PROVE  Serving(rows.auths, Served(S), S.holds)
<1> DEFINE s == Served(S)
<1>1. /\ Released(S) = {}
      /\ \A h \in S.holds : Key(h) \notin S.ambiguous => \E r \in rows.auths : r.hold = h.id
      /\ \A key \in S.ambiguous : Cardinality(InKey(S, key)) = Cardinality(Candidates(S, key))
  BY DEF Problems
<1>2. /\ DOMAIN s = {Under(S, h) : h \in S.holds}
      /\ \A h \in S.holds : s[Under(S, h)] = h
  BY ServedAt
<1> HIDE DEF s
<1>3. ASSUME NEW r \in rows.auths PROVE \E h \in S.holds : r \in By(S, h)
  <2>1. CASE IsOpen(S, r.hold)
    BY <2>1 DEF IsOpen, By
  <2>2. CASE ~IsOpen(S, r.hold)
    <3> DEFINE key == Key(r)
    <3>1. key \in S.ambiguous
      BY <1>1, <2>2 DEF Released
    <3>2. r.hold \in Candidates(S, key)
      BY <1>1 DEF Candidates
    <3>3. r.hold \notin InKey(S, key)
      BY <2>2 DEF InKey, IsOpen
    <3>4. key = Key(r)
      OBVIOUS
    <3> HIDE DEF key
    <3>5. r.hold \in GoneIn(S, key)
      BY <3>2, <3>3 DEF GoneIn
    <3>6. PICK m \in FreeIn(S, key) : Rank(GoneIn(S, key), r.hold) = Rank(FreeIn(S, key), m)
      BY <1>1, <3>1, <3>5, StandInsMeet
    <3>7. PICK h \in S.holds : h.id = m /\ Key(h) = key
      BY DEF FreeIn, InKey
    <3>8. StandsIn(S, r, h)
      BY <3>4, <3>5, <3>6, <3>7 DEF StandsIn, GoneIn, FreeIn
    <3> QED
      BY <3>8 DEF By
  <2> QED
    BY <2>1, <2>2
<1>4. ASSUME NEW h \in S.holds PROVE \E r \in rows.auths : r \in By(S, h)
  <2> DEFINE key == Key(h)
  <2>1. CASE \E r \in rows.auths : r.hold = h.id
    BY <2>1 DEF By
  <2>2. CASE \A r \in rows.auths : r.hold # h.id
    <3>1. key \in S.ambiguous
      BY <1>1, <2>2
    <3>2. h.id \in InKey(S, key)
      BY DEF InKey
    <3>3. h.id \notin Candidates(S, key)
      BY <2>2 DEF Candidates
    <3>4. key = Key(h)
      OBVIOUS
    <3> HIDE DEF key
    <3>5. h.id \in FreeIn(S, key)
      BY <3>2, <3>3 DEF FreeIn
    <3>6. PICK n \in GoneIn(S, key) : Rank(GoneIn(S, key), n) = Rank(FreeIn(S, key), h.id)
      BY <1>1, <3>1, <3>5, StandInsMeet
    <3>7. PICK r \in rows.auths : r.hold = n /\ Key(r) = key
      BY DEF GoneIn, Candidates
    <3>8. StandsIn(S, r, h)
      BY <3>4, <3>5, <3>6, <3>7 DEF StandsIn, GoneIn, FreeIn
    <3> QED
      BY <3>8 DEF By
  <2> QED
    BY <2>1, <2>2
<1>5. ASSUME NEW r \in rows.auths PROVE r.id \in DOMAIN s /\ Key(r) = Key(s[r.id])
  <2>1. PICK h \in S.holds : r \in By(S, h)
    BY <1>3
  <2>2. Under(S, h) = r.id /\ Key(r) = Key(h)
    BY <2>1, OneRow
  <2> QED
    BY <1>2, <2>2
<1>6. ASSUME NEW a \in DOMAIN s PROVE a \in {r.id : r \in rows.auths}
  <2>1. PICK h \in S.holds : a = Under(S, h)
    BY <1>2
  <2>2. PICK r \in rows.auths : r \in By(S, h)
    BY <1>4
  <2>3. Under(S, h) = r.id
    BY <2>2, OneRow
  <2> QED
    BY <2>1, <2>3
<1>7. {r.id : r \in rows.auths} = DOMAIN s
  BY <1>5, <1>6
<1>8. {s[a] : a \in DOMAIN s} = S.holds
  BY <1>2
<1>9. \A a, b \in DOMAIN s : s[a] = s[b] => a = b
  BY <1>2
<1> QED
  BY <1>5, <1>7, <1>8, <1>9 DEF Serving, s

\* Rows rebuilt from the chain are of the chain and serve its open holds.
LEMMA RebuiltServes ==
    ASSUME NEW S, Readable(S)
    PROVE  /\ RowsRead(chain, Rebuilt(S).auths) /\ Owned(Rebuilt(S).auths, S.holds)
           /\ Serving(Rebuilt(S).auths, Served(S), S.holds)
<1> DEFINE s == Served(S)
           A == {AuthRow(a, s[a]) : a \in DOMAIN s}
           N == Len(chain)
<1>1. Rebuilt(S).auths = A
  BY DEF Rebuilt
<1>2. /\ DOMAIN s = {Under(S, h) : h \in S.holds}
      /\ \A h \in S.holds : s[Under(S, h)] = h
  BY ServedAt
<1> HIDE DEF s
<1>3. \A a \in DOMAIN s : s[a] \in S.holds /\ Under(S, s[a]) = a
  BY <1>2
<1>4. \A a \in DOMAIN s : LET r == AuthRow(a, s[a]) IN
        r.id = a /\ r.hold = s[a].id /\ Key(r) = Key(s[a])
  BY DEF AuthRow, Key
<1>5. \A r \in A : r.id \in DOMAIN s /\ r = AuthRow(r.id, s[r.id])
                   /\ r.hold = s[r.id].id /\ Key(r) = Key(s[r.id])
  BY <1>4
<1>6. {r.id : r \in A} = DOMAIN s
  <2>1. \A a \in DOMAIN s : AuthRow(a, s[a]) \in A
    OBVIOUS
  <2> HIDE DEF A
  <2> QED
    BY <1>4, <1>5, <2>1
<1>7. IsFiniteSet(A)
  <2> DEFINE f == [h \in S.holds |-> AuthRow(Under(S, h), h)]
  <2>1. IsFiniteSet({f[h] : h \in S.holds})
    BY ImageFinite DEF Readable, HoldsRead
  <2>2. A = {f[h] : h \in S.holds}
    BY <1>2
  <2> QED
    BY <2>1, <2>2
<1>8. N \in Nat
  BY SeqFacts DEF Readable
<1>9. \A h \in S.holds : /\ h.id \in 1..N /\ chain[h.id].type = "HOLD" /\ h = Placed(chain[h.id])
                         /\ Key(h) = Key(chain[h.id])
  BY DEF Readable, HoldsRead, Placed, Key
<1>10. \A h \in S.holds : Under(S, h) \in (-N)..N
  <2> TAKE h \in S.holds
  <2>1. CASE By(S, h) = {}
    <3>1. h.id \in 1..N
      BY <1>9
    <3> QED
      BY <1>8, <2>1, <3>1, OwnId
  <2>2. CASE By(S, h) # {}
    <3>1. PICK r \in By(S, h) : TRUE
      BY <2>2
    <3>2. Under(S, h) = r.id /\ r \in rows.auths
      BY OneRow
    <3> QED
      BY <3>2 DEF Readable, RowsRead
  <2> QED
    BY <2>1, <2>2
<1> HIDE DEF A, N
<1>11. RowsRead(chain, A)
  <2>1. \A r \in A : /\ r.hold \in 1..N /\ chain[r.hold].type = "HOLD"
                     /\ Key(r) = Key(chain[r.hold]) /\ r.id \in (-N)..N
    <3> TAKE r \in A
    <3>1. /\ s[r.id] \in S.holds /\ Under(S, s[r.id]) = r.id
          /\ r.hold = s[r.id].id /\ Key(r) = Key(s[r.id])
      BY <1>3, <1>5
    <3> QED
      BY <1>9, <1>10, <3>1
  <2>2. \A r, q \in A : r.id = q.id \/ r.hold = q.hold => r = q
    <3> TAKE r, q \in A
    <3>1. /\ s[r.id] \in S.holds /\ Under(S, s[r.id]) = r.id /\ r.hold = s[r.id].id
          /\ s[q.id] \in S.holds /\ Under(S, s[q.id]) = q.id /\ q.hold = s[q.id].id
      BY <1>3, <1>5
    <3>2. r.hold = q.hold => r.id = q.id
      BY <1>9, <3>1
    <3> QED
      BY <1>5, <3>2
  <2> QED
    BY <1>7, <2>1, <2>2 DEF RowsRead, N
<1>12. Owned(A, S.holds)
  <2> SUFFICES ASSUME NEW r \in A, NEW h \in S.holds, r.id = h.id PROVE r.hold = h.id
    BY DEF Owned
  <2> DEFINE g == s[r.id]
  <2>1. g \in S.holds /\ Under(S, g) = h.id /\ r.hold = g.id
    BY <1>3, <1>5
  <2> HIDE DEF g
  <2>2. CASE By(S, g) = {}
    BY <2>1, <2>2, OwnId
  <2>3. CASE By(S, g) # {}
    <3>1. PICK q \in By(S, g) : TRUE
      BY <2>3
    <3>2. Under(S, g) = q.id /\ q \in rows.auths
      BY <2>1, OneRow
    <3>3. q.hold = h.id
      BY <2>1, <3>2 DEF Readable, Owned
    <3>4. q \in By(S, h)
      BY <3>2, <3>3 DEF By
    <3>5. Under(S, h) = q.id
      BY <3>4, OneRow
    <3>6. g = h
      BY <2>1, <3>2, <3>5, UnderApart
    <3> QED
      BY <2>1, <3>6
  <2> QED
    BY <2>2, <2>3
<1>13. Serving(A, s, S.holds)
  <2>1. {s[a] : a \in DOMAIN s} = S.holds /\ \A a, b \in DOMAIN s : s[a] = s[b] => a = b
    BY <1>2
  <2> QED
    BY <1>5, <1>6, <2>1 DEF Serving
<1> QED
  BY <1>1, <1>11, <1>12, <1>13 DEF s

----------------------------------------------------------------------------
(* What transactions stage *)

\* A view staged over the state of a chain starts with nothing to write.
LEMMA OverlayStages ==
    ASSUME NEW c, Chained(c), NEW l, Replays(c, l), NEW k \in BOOLEAN,
           NEW S, S = StateOf(c, l, k)
    PROVE  /\ WF(Overlay(S, k)) /\ Overlay(S, k).len = Len(c) /\ Overlay(S, k).base = S
           /\ S.len = Len(c) /\ Staging(Overlay(S, k), c) /\ OpenHolds(Overlay(S, k)) = S.holds
<1> DEFINE o == Overlay(S, k)
<1>1. Reopens(c, l, k, c, S, o)
  BY StateReopens
<1>2. /\ \A f \in Whole : o[f] = S[f]
      /\ o.opened = {} /\ o.closed = {} /\ o.nodes = <<>> /\ o.rowScopes = {} /\ o.events = {}
  BY OverlayFields
<1> HIDE DEF o
<1>3. WF(o) /\ o.base = S /\ S.len = Len(c) /\ o.len = Len(c)
  BY <1>1, <1>2 DEF Reopens, Together, Whole
<1>4. OpenHolds(o) = S.holds
  BY <1>2, <1>3 DEF OpenHolds
<1>5. HoldsRead(c, S.holds)
  BY HoldsOfChain
<1>6. DOMAIN <<>> = {} /\ ~(\E i \in 1..o.len : i > o.base.len)
  <2>1. Len(c) \in Nat
    BY SeqFacts DEF Chained
  <2> QED
    BY <1>3, <2>1
<1>7. Staging(o, c)
  BY <1>2, <1>4, <1>5, <1>6 DEF Staging, HoldsRead
<1> QED
  BY <1>3, <1>4, <1>7 DEF o

\* A transaction posted over a view that has read the chain c.
LEMMA PostStages ==
    ASSUME NEW c, IsSeq(c), NEW v, WF(v), v.len = Len(c), Staging(v, c),
           NEW lines, Lines(lines), NEW es, NEW p, p = Posted(v, lines, es), p.ok
    PROVE  Staging(p.view, c \o p.built)
<1> DEFINE t == Build(v, lines, 3)
           d == c \o t
           yes == TRUE
           x == Apply(v, t, es, yes)
<1>1. p.view = EndTransaction(x.view) /\ p.built = t /\ x.ok
  BY DEF Posted
<1>2. v.len \in Nat
  BY DEF WF
<1>3. BuiltOf(v.len, lines, 3, t)
  BY <1>2, BuiltEntries
<1> HIDE DEF t, yes
<1>4. IsSeq(t) /\ Len(t) = Len(lines)
  BY <1>3 DEF BuiltOf
<1>5. Extends(c, d) /\ (\A i \in 1..Len(t) : d[Len(c) + i] = t[i]) /\ Len(t) \in Nat
  BY <1>4, ExtendsBy
<1> HIDE DEF d
<1>6. Staging(v, d)
  BY <1>5, StagingGrows
<1>7. \A i \in 1..Len(t) : IsEntry(t[i]) /\ d[v.len + i] = t[i]
  <2> TAKE i \in 1..Len(t)
  <2>1. t[i].seq = v.len + i /\ t[i].txn = v.len + 1 /\ t[i].amt = lines[i].amt
        /\ t[i].ref = lines[i].ref /\ lines[i].amt \in Nat /\ lines[i].ref \in Nat
    BY <1>3, <1>4 DEF BuiltOf, Lines
  <2>2. i \in Nat /\ i >= 1
    BY <1>5
  <2>3. v.len + i \in Nat /\ v.len + 1 \in 1..(v.len + i)
    BY <1>2, <2>2
  <2> QED
    BY <1>5, <2>1, <2>3 DEF IsEntry
<1>8. Along(v, d, x.view) /\ x.view.len = v.len + Len(t)
  <2>1. NextOf(v, d, t)
    BY <1>7 DEF NextOf
  <2> QED
    BY <1>1, <1>4, <1>6, <2>1, StagingUpTo
<1>9. x.view.len \in Nat
  BY <1>2, <1>5, <1>8
<1> HIDE DEF x
<1>10. Staging(EndTransaction(x.view), d)
  BY <1>8, <1>9, StagingEnds
<1> QED
  BY <1>1, <1>10 DEF d

\* A transaction of one line of no scope.
Quiet(line) ==
    line.type \in Scopeless /\ line.amt \in Nat /\ line.ref \in Nat

\* It changes no hold, no node and no breaker.
LEMMA QuietPost ==
    ASSUME NEW c, Chained(c), NEW l, Replays(c, l), NEW k \in BOOLEAN,
           NEW S, S = StateOf(c, l, k), NEW line, Quiet(line),
           NEW p, p = Posted(Overlay(S, k), <<line>>, c), p.ok, Chained(c \o p.built)
    PROVE  /\ Merge(p.view).holds = S.holds /\ NodeRows(Merge(p.view)) = NodeRows(S)
           /\ EventRows(c \o p.built) = EventRows(c) /\ IsSeq(p.built)
<1> DEFINE o == Overlay(S, k)
           lines == <<line>>
           t == Build(o, lines, 3)
           yes == TRUE
           A == Staged(o, t, c, yes)
           e == t[1]
           x == Fold(o, e, c)
<1>1. Lines(lines) /\ Len(lines) = 1 /\ lines[1] = line
  <2>1. line.amt \in Nat /\ line.ref \in Nat
    BY DEF Quiet
  <2> QED
    BY <2>1, OneLine
<1>2. p.view = EndTransaction(Apply(o, t, c, yes).view) /\ p.built = t /\ Apply(o, t, c, yes).ok
  BY DEF Posted
<1>3. WF(o) /\ o.len = Len(c) /\ o.base = S /\ OpenHolds(o) = S.holds /\ o.len \in Nat
  <2>1. WF(o) /\ o.len = Len(c) /\ o.base = S /\ OpenHolds(o) = S.holds
    BY OverlayStages
  <2> QED
    BY <2>1 DEF WF
<1>4. o.nodes = <<>> /\ o.rowScopes = {} /\ DOMAIN o = ViewFields
  BY OverlayFields
<1> HIDE DEF o, lines, yes
<1>5. BuiltOf(o.len, lines, 3, t)
  BY <1>1, <1>3, BuiltEntries
<1> HIDE DEF t
<1>6. IsSeq(t) /\ Len(t) = 1 /\ e.type \in Scopeless /\ 1 \in 1..1
  <2>1. 1 \in 1..1
    OBVIOUS
  <2> QED
    BY <1>1, <1>5, <2>1 DEF BuiltOf, Quiet
<1>7. Apply(o, t, c, yes).view = x /\ Accepts(o, e, c, yes)
  <2>1. Apply(o, t, c, yes) = A[1]
    BY <1>6 DEF Apply
  <2>2. 1 \in 0..Len(t) /\ A[1].ok
    BY <1>2, <1>6, <2>1
  <2> DEFINE n == 1
  <2>3. n \in 0..Len(t) /\ Staged(o, t, c, yes)[n].ok
    BY <2>2
  <2> HIDE DEF n
  <2>4. AcceptsUpTo(Staged(o, t, c, yes), n, o, t, c, yes)
    BY <1>6, <2>3, AcceptedBefore
  <2>5. AcceptsUpTo(A, 1, o, t, c, yes)
    BY <2>4 DEF n
  <2> HIDE DEF A
  <2>6. A[0].view = o /\ Accepts(A[1 - 1].view, t[1], c, yes) /\ A[1].view = Fold(A[1 - 1].view, t[1], c)
    BY <1>6, <2>5 DEF AcceptsUpTo
  <2>7. 1 - 1 = 0
    OBVIOUS
  <2> QED
    BY <2>1, <2>6, <2>7
<1>8. FoldChanges(o, e, c, x) /\ RowChanges(o, e, x) /\ DOMAIN x = ViewFields
  BY <1>4, FoldFields, RowFields
<1> HIDE DEF e, x
<1>9. /\ e.type \notin {"HOLD", "HOLD_VOID"} /\ ~Creates(e) /\ e.type \notin Control
  BY <1>6 DEF Scopeless, Creates, Control
<1>10. OpenHolds(x) = S.holds
  <2>1. x.opened = o.opened /\ x.closed = o.closed /\ x.base = o.base
    BY <1>8, <1>9 DEF FoldChanges, HoldsChanges
  <2> QED
    BY <1>3, <2>1 DEF OpenHolds
<1>11. x.nodes = <<>> /\ x.rowScopes = {} /\ x.base = S
  BY <1>3, <1>4, <1>8, <1>9 DEF FoldChanges, GovernanceChanges, RowChanges
<1>12. NodesOK(x)
  BY <1>3, <1>7, <1>8, NodesStayOK DEF FoldChanges, WF, Accepts
<1> DEFINE y == EndTransaction(x)
<1>13. /\ y.nodes = x.nodes /\ y.rowScopes = x.rowScopes /\ y.base = x.base
       /\ y.children = x.children /\ y.opened = x.opened /\ y.closed = x.closed
  <2>1. \A f \in ViewFields \ {"txn", "settleable"} : y[f] = x[f]
    BY <1>8, EndFields
  <2> HIDE DEF y
  <2> QED
    BY <2>1 DEF ViewFields
<1>14. p.view = y
  BY <1>2, <1>7
<1> HIDE DEF y
<1>15. Merge(y).holds = S.holds
  <2>1. OpenHolds(y) = OpenHolds(x)
    BY <1>13 DEF OpenHolds
  <2> QED
    BY <1>10, <2>1, MergeFields DEF Merged
<1>16. NodeRows(Merge(y)) = NodeRows(S)
  <2>1. NodesOK(y)
    BY <1>12, <1>13 DEF NodesOK
  <2>2. DOMAIN y.nodes = y.rowScopes /\ y.rowScopes = {} /\ y.base = S
    <3>1. DOMAIN <<>> = {}
      OBVIOUS
    <3> QED
      BY <1>11, <1>13, <3>1
  <2> DEFINE f == [s \in y.rowScopes |-> NodeRow(Merge(y), s)]
  <2>3. NodeRows(Merge(y)) = Over(f, NodeRows(S))
    BY <2>1, <2>2, RowsOfNodes
  <2>4. DOMAIN f = {}
    BY <2>2
  <2> HIDE DEF f
  <2> QED
    BY <2>3, <2>4, NoRowsOver
<1>17. EventRows(c \o t) = EventRows(c)
  <2> DEFINE d == c \o t
  <2>1. /\ EventRows(c) = {i \in 1..Len(c) : c[i].type \in Control}
        /\ EventRows(d) = {i \in 1..Len(d) : d[i].type \in Control}
    BY <1>2, EventRowsAt
  <2>2. /\ Len(c) \in Nat /\ Len(d) = Len(c) + 1 /\ d[Len(c) + 1] = e
        /\ \A i \in 1..Len(c) : d[i] = c[i]
    <3>1. Extends(c, d) /\ (\A i \in 1..Len(t) : d[Len(c) + i] = t[i]) /\ Len(d) = Len(c) + Len(t)
      BY <1>6, ExtendsBy DEF Chained
    <3> HIDE DEF d
    <3> QED
      BY <1>6, <3>1 DEF Extends, e
  <2> HIDE DEF d
  <2>3. 1..Len(d) = 1..Len(c) \cup {Len(c) + 1}
    BY <2>2
  <2>4. d[Len(c) + 1].type \notin Control
    BY <1>9, <2>2
  <2>5. EventRows(d) = EventRows(c)
    BY <2>1, <2>2, <2>3, <2>4
  <2> QED
    BY <2>5 DEF d
<1> QED
  BY <1>2, <1>6, <1>14, <1>15, <1>16, <1>17

----------------------------------------------------------------------------
(* The rows, step by step *)

\* Every snapshot is of entries the chain has.
LEMMA SnapsWithin ==
    ASSUME NEW c, NEW l, NEW k, NEW s, Stored(c, l, k, s)
    PROVE  \A n \in DOMAIN s : n \in 1..Len(c)
  BY DEF Stored, SnapshotOf, Ends

\* The rows and the open holds are of the chain.
LEMMA RowsReadable ==
    ASSUME OpeningInv, RowsInv
    PROVE  Readable(StateOf(chain, legacy, keeps))
<1>1. Chained(chain) /\ Replays(chain, legacy) /\ keeps \in BOOLEAN
  BY DEF OpeningInv, ChainInv, Stored
<1>2. HoldsRead(chain, StateOf(chain, legacy, keeps).holds)
  BY <1>1, HoldsOfChain
<1> QED
  BY <1>1, <1>2 DEF RowsInv, Readable, Chained

\* The first funding has no row but its scope's.
LEMMA RowsInit == Init => RowsInv
<1> SUFFICES ASSUME Init PROVE RowsInv
  OBVIOUS
<1>1. /\ rows.events = {} /\ rows.auths = {} /\ snaps = <<>> /\ open = FALSE /\ unit = NoUnit
  BY DEF Init
<1>2. IsFiniteSet({}) /\ DOMAIN <<>> = {}
  BY FS_EmptySet
<1>3. RowsRead(chain, rows.auths) /\ Owned(rows.auths, StateOf(chain, legacy, keeps).holds)
  BY <1>1, <1>2 DEF RowsRead, Owned
<1>4. EventsAgree(chain, rows.events, snaps)
  BY <1>1, <1>2 DEF EventsAgree
<1> QED
  BY <1>1, <1>3, <1>4 DEF RowsInv

\* The holds an earlier version's write leaves open were open before it, or are
\* placed in it.
LEMMA OldWriteHolds ==
    ASSUME OpeningInv, OpeningInv', NEW lines \in Transactions(workload.kinds, {0} \cup Refs),
           NEW ver \in {1, 2}, NEW crashed \in BOOLEAN, OldWrite(lines, ver, crashed),
           NEW built, built = OldBuilt(lines, ver)
    PROVE  /\ \A h \in StateOf(chain', legacy', keeps').holds :
                h \in StateOf(chain, legacy, keeps).holds \/ h.id > Len(chain)
           /\ BuiltOf(Len(chain), lines, ver, built)
<1> DEFINE end == OldEnd
           d == chain \o built
           no == FALSE
           x == OldNext(lines, ver)
<1>1. /\ x = Apply(end, built, d, no) /\ x.ok /\ legacy' = legacy /\ keeps' = keeps
  BY DEF OldWrite, OldNext, OldBuilt, OldEnd
<1>2. Chained(chain) /\ Replays(chain, legacy) /\ keeps \in BOOLEAN
  BY DEF OpeningInv, ChainInv, Stored
<1>3. Chained(d) /\ Replays(d, legacy) /\ chain' = d
  BY OldWriteContinues DEF Continues
<1>4. Together(EndTransaction(x.view), d, Replay(d, legacy, FALSE).view, d) /\ Lines(lines)
  BY OldWriteContinues DEF Continues
<1>5. /\ WF(end) /\ Staging(end, chain) /\ end.len = Len(chain)
      /\ StateOf(chain, legacy, keeps).holds = OpenHolds(end)
  <2>1. FALSE \in BOOLEAN
    OBVIOUS
  <2>2. StateOf(chain, legacy, keeps).holds = OpenHolds(end)
    BY <1>2, ReplayStages DEF OldEnd
  <2>3. WF(end) /\ Staging(end, chain) /\ end.len = Len(chain)
    BY <1>2, <2>1, ReplayStages DEF OldEnd
  <2> QED
    BY <2>2, <2>3
<1>6. StateOf(d, legacy, keeps).holds = OpenHolds(Replay(d, legacy, FALSE).view)
  BY <1>2, <1>3, ReplayStages
<1>7. BuiltOf(Len(chain), lines, ver, built) /\ end.len \in Nat
  <2>1. end.len \in Nat
    BY <1>5 DEF WF
  <2>2. BuiltOf(end.len, lines, ver, Build(end, lines, ver))
    BY <1>4, <2>1, BuiltEntries
  <2> QED
    BY <1>5, <2>1, <2>2 DEF OldBuilt
<1> HIDE DEF end, d, no, x
<1>8. IsSeq(built) /\ Len(built) = Len(lines) /\ IsSeq(chain)
  BY <1>2, <1>7 DEF BuiltOf, Chained
<1>9. Extends(chain, d) /\ (\A i \in 1..Len(built) : d[Len(chain) + i] = built[i])
      /\ Len(built) \in Nat
  BY <1>8, ExtendsBy DEF d
<1>10. Staging(end, d)
  BY <1>5, <1>9, StagingGrows
<1>11. NextOf(end, d, built)
  <2> SUFFICES ASSUME NEW i \in 1..Len(built)
               PROVE  IsEntry(built[i]) /\ d[end.len + i] = built[i]
    BY DEF NextOf
  <2>1. /\ built[i].seq = Len(chain) + i /\ built[i].txn = Len(chain) + 1
        /\ built[i].amt = lines[i].amt /\ built[i].ref = lines[i].ref
        /\ lines[i].amt \in Nat /\ lines[i].ref \in Nat
    BY <1>4, <1>7, <1>8 DEF BuiltOf, Lines
  <2>2. Len(chain) \in Nat /\ i \in Nat /\ i >= 1
    BY <1>9 DEF Extends
  <2>3. Len(chain) + i \in Nat /\ Len(chain) + 1 \in 1..(Len(chain) + i)
    BY <2>2
  <2> QED
    BY <1>5, <1>9, <2>1, <2>3 DEF IsEntry
<1>12. Along(end, d, x.view) /\ x.view.len = end.len + Len(built)
  BY <1>1, <1>5, <1>8, <1>10, <1>11, StagingUpTo
<1>13. OpenHolds(EndTransaction(x.view)) = OpenHolds(x.view)
  <2>1. x.view.len \in Nat
    BY <1>7, <1>9, <1>12
  <2> QED
    BY <1>12, <2>1, StagingEnds
<1>14. OpenHolds(Replay(d, legacy, FALSE).view) = OpenHolds(x.view)
  BY <1>4, <1>13 DEF Together, Alike
<1>15. \A h \in OpenHolds(x.view) : h \in OpenHolds(end) \/ h.id > Len(chain)
  BY <1>5, <1>12 DEF Along
<1>16. StateOf(chain', legacy', keeps').holds = OpenHolds(x.view)
  BY <1>1, <1>3, <1>6, <1>14
<1> QED
  BY <1>5, <1>7, <1>15, <1>16

\* The rows an earlier version's holds get.
OldRow(ver, e) ==
    AuthRow(IF ver = 1 THEN -e.seq ELSE e.seq, [id |-> e.seq, scope |-> e.scope, amt |-> e.amt])

\* A row of an earlier version names the hold the entry placed.
LEMMA OldRowFields ==
    ASSUME NEW ver \in {1, 2}, NEW e, e.seq \in Nat
    PROVE  /\ OldRow(ver, e).hold = e.seq /\ Key(OldRow(ver, e)) = Key(e)
           /\ OldRow(ver, e).id = IF ver = 1 THEN -e.seq ELSE e.seq
  BY DEF OldRow, AuthRow, Key

\* Rows are written beside the ones kept, for holds placed after them.
LEMMA RowsBeside ==
    ASSUME NEW c, NEW d, Extends(c, d), NEW A, RowsRead(c, A), NEW B, IsFiniteSet(B),
           \A r \in B : /\ r.hold \in 1..Len(d) /\ r.hold > Len(c)
                        /\ d[r.hold].type = "HOLD" /\ Key(r) = Key(d[r.hold])
                        /\ r.id = r.hold \/ r.id = -r.hold,
           \A r, q \in B : r.hold = q.hold => r = q,
           \A r, q \in B : r.id = q.id => r.hold = q.hold
    PROVE  RowsRead(d, A \cup B)
<1>1. RowsRead(d, A) /\ Len(c) \in Nat /\ Len(d) \in Nat /\ Len(c) <= Len(d)
  BY RowsStay DEF Extends
<1>2. IsFiniteSet(A \cup B)
  BY FS_Union DEF RowsRead
<1>3. \A r \in A : /\ r.hold \in 1..Len(c) /\ r.id \in (-Len(c))..Len(c)
                   /\ r.hold \in 1..Len(d) /\ d[r.hold].type = "HOLD"
                   /\ Key(r) = Key(d[r.hold]) /\ r.id \in (-Len(d))..Len(d)
  BY <1>1 DEF RowsRead
<1>4. \A r \in B : r.id \in (-Len(d))..Len(d) /\ r.id \notin (-Len(c))..Len(c)
                   /\ r.hold \notin 1..Len(c)
  <2> TAKE r \in B
  <2>1. r.hold \in 1..Len(d) /\ r.hold > Len(c) /\ (r.id = r.hold \/ r.id = -r.hold)
    OBVIOUS
  <2> QED
    BY <1>1, <2>1
<1>5. \A r, q \in A : r.id = q.id \/ r.hold = q.hold => r = q
  BY DEF RowsRead
<1>6. \A r, q \in A \cup B : r.id = q.id \/ r.hold = q.hold => r = q
  BY <1>3, <1>4, <1>5
<1>7. \A r \in A \cup B : /\ r.hold \in 1..Len(d) /\ d[r.hold].type = "HOLD"
                          /\ Key(r) = Key(d[r.hold]) /\ r.id \in (-Len(d))..Len(d)
  BY <1>3, <1>4
<1> QED
  BY <1>2, <1>6, <1>7 DEF RowsRead

\* Fewer rows are still of the chain.
LEMMA RowsFewer ==
    ASSUME NEW c, NEW A, RowsRead(c, A), NEW B \in SUBSET A
    PROVE  RowsRead(c, B)
<1>1. IsFiniteSet(B)
  BY FS_Subset DEF RowsRead
<1> QED
  BY <1>1 DEF RowsRead

\* An earlier version's rows are of its entries, written beside or lost.
LEMMA OldWriteRows ==
    ASSUME OpeningInv, OpeningInv', RowsInv,
           NEW lines \in Transactions(workload.kinds, {0} \cup Refs),
           NEW ver \in {1, 2}, NEW crashed \in BOOLEAN, OldWrite(lines, ver, crashed)
    PROVE  RowsInv'
<1> DEFINE built == OldBuilt(lines, ver)
           d == chain \o built
           A == rows.auths
           placed == {OldRow(ver, e) : e \in {x \in Range(built) : x.type = "HOLD"}}
           after == StateOf(chain', legacy', keeps').holds
           before == StateOf(chain, legacy, keeps).holds
<1>1. /\ ~open /\ open' = open /\ snaps' = snaps /\ unit' = unit
      /\ \/ rows' = rows
         \/ \E kept \in SUBSET A :
              rows'.auths = kept \cup placed /\ rows'.events = EventRows(chain')
  <2>1. placed = {AuthRow(IF ver = 1 THEN -e.seq ELSE e.seq,
                           [id |-> e.seq, scope |-> e.scope, amt |-> e.amt]) :
                     e \in {x \in Range(built) : x.type = "HOLD"}}
    BY DEF OldRow
  <2>2. ASSUME ~crashed
        PROVE  \E released \in SUBSET A :
                 /\ rows'.auths = (A \ released) \cup placed
                 /\ rows'.events = EventRows(chain')
    <3> DEFINE P == {AuthRow(IF ver = 1 THEN -e.seq ELSE e.seq,
                             [id |-> e.seq, scope |-> e.scope, amt |-> e.amt]) :
                       e \in {x \in Range(built) : x.type = "HOLD"}}
               next == Apply(OldEnd, built, chain \o built, FALSE)
               nodes == NodeRows(Merge(EndTransaction(next.view)))
    <3>1. \E released \in SUBSET A :
            rows' = [nodes |-> nodes, events |-> EventRows(chain'), auths |-> (A \ released) \cup P]
      BY <2>2 DEF OldWrite, OldBuilt, OldEnd
    <3> HIDE DEF nodes, next, P
    <3>2. P = placed
      BY <2>1 DEF P
    <3> QED
      BY <3>1, <3>2
  <2>3. ASSUME ~crashed
        PROVE  \E kept \in SUBSET A :
                 rows'.auths = kept \cup placed /\ rows'.events = EventRows(chain')
    <3>1. PICK released \in SUBSET A : rows'.auths = (A \ released) \cup placed
                                       /\ rows'.events = EventRows(chain')
      BY <2>2, <2>3
    <3> QED
      BY <3>1
  <2>4. crashed => rows' = rows
    BY DEF OldWrite
  <2> QED
    BY <2>3, <2>4 DEF OldWrite
<1>2. /\ chain' = d /\ IsSeq(built) /\ Chained(d)
  BY OldWriteContinues DEF Continues
<1>3. /\ \A h \in after : h \in before \/ h.id > Len(chain)
      /\ BuiltOf(Len(chain), lines, ver, built)
  BY OldWriteHolds
<1>4. Stored(chain, legacy, keeps, snaps) /\ IsSeq(chain)
  BY DEF OpeningInv, ChainInv, Stored, Chained
<1>5. RowsRead(chain, A) /\ Owned(A, before) /\ EventsAgree(chain, rows.events, snaps)
  BY DEF RowsInv
<1> HIDE DEF built, d, A, placed, after, before
<1>6. /\ Extends(chain, d) /\ (\A i \in 1..Len(built) : d[Len(chain) + i] = built[i])
      /\ Len(built) \in Nat /\ Len(d) = Len(chain) + Len(built)
  BY <1>2, <1>4, ExtendsBy DEF d
<1>7. \A n \in DOMAIN snaps : n \in 1..Len(chain)
  BY <1>4, SnapsWithin
<1>8. \A r \in A, h \in after : h.id > Len(chain) => r.id # h.id
  <2> TAKE r \in A, h \in after
  <2>1. r.id \in (-Len(chain))..Len(chain) /\ Len(chain) \in Nat
    BY <1>5, <1>6 DEF RowsRead, Extends
  <2> QED
    BY <2>1
<1>9. Owned(A, after)
  BY <1>3, <1>5, <1>8 DEF Owned
<1>10. CASE rows' = rows
  <2>1. RowsRead(d, A) /\ EventsAgree(d, rows.events, snaps)
    BY <1>5, <1>6, <1>7, RowsStay
  <2>2. unit' = NoUnit
    BY <1>1 DEF OpeningInv, UnitInv
  <2> QED
    BY <1>1, <1>2, <1>9, <1>10, <2>1, <2>2 DEF RowsInv, A, after
<1>11. CASE \E kept \in SUBSET A :
              rows'.auths = kept \cup placed /\ rows'.events = EventRows(chain')
  <2>1. PICK kept \in SUBSET A : rows'.auths = kept \cup placed /\ rows'.events = EventRows(chain')
    BY <1>11
  <2>2. DOMAIN built = 1..Len(built) /\ Len(built) = Len(lines)
    BY <1>2, <1>3, SeqFacts DEF BuiltOf
  <2>3. \A r \in placed : \E i \in 1..Len(built) :
          built[i].type = "HOLD" /\ r = OldRow(ver, built[i])
    BY <2>2 DEF placed, Range
  <2>4. \A i \in 1..Len(built) : built[i].seq = Len(chain) + i /\ Len(chain) + i \in 1..Len(d)
                                 /\ Len(chain) + i > Len(chain) /\ d[Len(chain) + i] = built[i]
    <3> TAKE i \in 1..Len(built)
    <3>1. built[i].seq = Len(chain) + i
      BY <1>3, <2>2 DEF BuiltOf
    <3>2. Len(chain) \in Nat /\ i \in 1..Len(built)
      BY <1>6 DEF Extends
    <3> QED
      BY <1>6, <3>1, <3>2
  <2>5. \A r \in placed : /\ r.hold \in 1..Len(d) /\ r.hold > Len(chain)
                          /\ d[r.hold].type = "HOLD" /\ Key(r) = Key(d[r.hold])
                          /\ r = OldRow(ver, d[r.hold])
                          /\ r.id = IF ver = 1 THEN -r.hold ELSE r.hold
    <3> TAKE r \in placed
    <3>1. PICK i \in 1..Len(built) : built[i].type = "HOLD" /\ r = OldRow(ver, built[i])
      BY <2>3
    <3> DEFINE n == Len(chain) + i
    <3>2. n \in 1..Len(d) /\ n > Len(chain) /\ d[n] = built[i] /\ built[i].seq = n /\ n \in Nat
      <4>1. n \in 1..Len(d) /\ Len(d) \in Nat
        BY <1>6, <2>4 DEF Extends
      <4> QED
        BY <2>4, <4>1
    <3> HIDE DEF n
    <3>3. r.hold = n /\ Key(r) = Key(d[n]) /\ r.id = IF ver = 1 THEN -n ELSE n
      BY <3>1, <3>2, OldRowFields
    <3> QED
      BY <3>1, <3>2, <3>3
  <2>6. IsFiniteSet(placed)
    <3> DEFINE f == [n \in 1..Len(d) |-> OldRow(ver, d[n])]
               S == {f[n] : n \in 1..Len(d)}
    <3>1. IsFiniteSet(1..Len(d))
      <4> DEFINE m == Len(d)
      <4>1. 1 \in Int /\ m \in Int
        BY <1>6 DEF Extends
      <4> HIDE DEF m
      <4>2. IsFiniteSet(1..m)
        BY <4>1, FS_Interval
      <4> QED
        BY <4>2 DEF m
    <3> HIDE DEF f
    <3>2. IsFiniteSet(S)
      BY <3>1, ImageFinite
    <3>3. \A r \in placed : r \in S
      <4> TAKE r \in placed
      <4>1. r.hold \in 1..Len(d) /\ r = OldRow(ver, d[r.hold])
        BY <2>5
      <4>2. r = f[r.hold]
        BY <4>1 DEF f
      <4> QED
        BY <4>1, <4>2
    <3>4. placed \in SUBSET S
      BY <3>3
    <3> HIDE DEF S
    <3> QED
      BY <3>2, <3>4, FS_Subset
  <2>7. /\ \A r, q \in placed : r.hold = q.hold => r = q
        /\ \A r, q \in placed : r.id = q.id => r.hold = q.hold
    <3>1. \A r, q \in placed : r.hold = q.hold => r = q
      BY <2>5
    <3>2. ASSUME NEW r \in placed, NEW q \in placed, r.id = q.id PROVE r.hold = q.hold
      <4> DEFINE a == r.hold
                 b == q.hold
      <4>1. a \in Int /\ b \in Int
        BY <1>6, <2>5 DEF Extends
      <4>2. (IF ver = 1 THEN -a ELSE a) = (IF ver = 1 THEN -b ELSE b)
        BY <2>5, <3>2
      <4>3. a = b
        <5> HIDE DEF a, b
        <5> QED
          BY <4>1, <4>2
      <4> QED
        BY <4>3
    <3> QED
      BY <3>1, <3>2
  <2>8. RowsRead(d, kept \cup placed)
    <3>1. RowsRead(chain, kept)
      BY <1>5, RowsFewer
    <3>2. \A r \in placed : /\ r.hold \in 1..Len(d) /\ r.hold > Len(chain)
                            /\ d[r.hold].type = "HOLD" /\ Key(r) = Key(d[r.hold])
                            /\ r.id = r.hold \/ r.id = -r.hold
      BY <2>5
    <3> QED
      BY <1>6, <2>6, <2>7, <3>1, <3>2, RowsBeside
  <2>9. Owned(kept \cup placed, after)
    <3> SUFFICES ASSUME NEW r \in kept \cup placed, NEW h \in after, r.id = h.id
                 PROVE  r.hold = h.id
      BY DEF Owned
    <3>1. CASE r \in kept
      BY <1>9, <3>1 DEF Owned
    <3>2. CASE r \in placed
      <4>1. r.hold \in 1..Len(d) /\ Len(d) \in Nat /\ r.id = IF ver = 1 THEN -r.hold ELSE r.hold
        BY <1>6, <2>5, <3>2 DEF Extends
      <4>2. h.id \in Nat
        <5>1. Replays(chain', legacy') /\ keeps' \in BOOLEAN /\ Chained(chain')
          BY DEF OpeningInv, ChainInv, Stored
        <5>2. HoldsRead(chain', after)
          BY <5>1, HoldsOfChain DEF after
        <5>3. h.id \in 1..Len(d)
          BY <1>2, <5>2 DEF HoldsRead
        <5> QED
          BY <4>1, <5>3
      <4>3. ver # 1
        BY <4>1, <4>2
      <4> QED
        BY <4>1, <4>3
    <3> QED
      BY <3>1, <3>2
  <2>10. EventsAgree(d, EventRows(d), snaps)
    <3>1. \A n \in DOMAIN snaps : n \in 1..Len(d)
      BY <1>6, <1>7 DEF Extends
    <3> QED
      BY <1>2, <3>1, EventsOwn
  <2>11. unit' = NoUnit
    BY <1>1 DEF OpeningInv, UnitInv
  <2> QED
    BY <1>1, <1>2, <2>1, <2>8, <2>9, <2>10, <2>11 DEF RowsInv, after
<1> QED
  BY <1>1, <1>10, <1>11

\* Events kept outside the chain change no hold.
LEMMA OldEventRows ==
    ASSUME OpeningInv, OpeningInv', RowsInv, NEW type, NEW s, OldEvent(type, s)
    PROVE  RowsInv'
<1>1. UNCHANGED <<chain, rows, snaps, keeps, open, st, served, unit>> /\ ~open
  BY DEF OldEvent
<1>2. Chained(chain) /\ Replays(chain, legacy) /\ keeps \in BOOLEAN /\ Replays(chain, legacy')
  BY OldEventReplays DEF OpeningInv, ChainInv, Stored
<1>3. StateOf(chain, legacy', keeps).holds = StateOf(chain, legacy, keeps).holds
  <2> DEFINE l == legacy
             m == legacy'
  <2>1. OpenHolds(Replay(chain, m, FALSE).view) = OpenHolds(Replay(chain, l, FALSE).view)
        /\ Replays(chain, l) /\ Replays(chain, m)
    BY <1>2, OldEventReplays
  <2> HIDE DEF l, m
  <2>2. /\ StateOf(chain, l, keeps).holds = OpenHolds(Replay(chain, l, FALSE).view)
        /\ StateOf(chain, m, keeps).holds = OpenHolds(Replay(chain, m, FALSE).view)
    BY <1>2, <2>1, ReplayStages
  <2> QED
    BY <2>1, <2>2 DEF l, m
<1>4. unit' = NoUnit
  BY <1>1 DEF OpeningInv, UnitInv
<1> QED
  BY <1>1, <1>3, <1>4 DEF RowsInv

\* A restart leaves the rows as they are.
LEMMA CloseRows == ASSUME OpeningInv, RowsInv, Close PROVE RowsInv'
  BY DEF RowsInv, Close, stored

\* So does a commit that fails.
LEMMA CommitFailsRows == ASSUME OpeningInv, RowsInv, CommitFails PROVE RowsInv'
  BY DEF RowsInv, CommitFails, stored

\* So does encoding a snapshot.
LEMMA EncodeRows == ASSUME OpeningInv, RowsInv, EncodeCheckpoint PROVE RowsInv'
  BY DEF RowsInv, EncodeCheckpoint, stored

\* A snapshot is stored while the rows are the chain's.
LEMMA PutSnapshotRows ==
    ASSUME OpeningInv, OpeningInv', RowsInv, PutSnapshot
    PROVE  RowsInv'
<1>1. /\ making.stage = "encoded"
      /\ UNCHANGED <<chain, legacy, rows, keeps, open, st, served, unit>>
  BY DEF PutSnapshot
<1>2. open
  <2>1. making # NoCheckpoint
    BY <1>1 DEF NoCheckpoint
  <2> QED
    BY <2>1 DEF OpeningInv, MakingInv
<1>3. rows.events = EventRows(chain)
  BY <1>2 DEF RowsInv
<1>4. Stored(chain', legacy', keeps', snaps') /\ Chained(chain)
  BY DEF OpeningInv, ChainInv, Stored
<1>5. \A n \in DOMAIN snaps' : n \in 1..Len(chain)
  <2> DEFINE s == snaps'
             c == chain'
  <2>1. Stored(c, legacy', keeps', s) /\ c = chain
    BY <1>1, <1>4
  <2> HIDE DEF s, c
  <2> QED
    BY <2>1, SnapsWithin DEF s
<1>6. EventsAgree(chain, rows.events, snaps')
  BY <1>3, <1>4, <1>5, EventsOwn
<1> QED
  BY <1>1, <1>6 DEF RowsInv

\* A transaction that joins the unit of work stages its rows; one that is
\* refused abandons them.
LEMMA PostRows ==
    ASSUME OpeningInv, OpeningInv', RowsInv,
           NEW lines \in Transactions(workload.kinds, Refs), Post(lines)
    PROVE  RowsInv'
<1> DEFINE v == IF unit = NoUnit THEN Overlay(st, keeps) ELSE unit.view
           p == Posted(v, lines, chain)
           b == unit.built
<1>1. /\ open
      /\ unit' = IF p.ok
                   THEN [posts |-> unit.posts + 1, view |-> p.view,
                         built |-> IF unit = NoUnit THEN p.built ELSE b \o p.built]
                   ELSE NoUnit
      /\ UNCHANGED <<chain, legacy, rows, snaps, keeps, open, st, served>>
  BY DEF Post, stored
<1>2. /\ Chained(chain) /\ Replays(chain, legacy) /\ keeps \in BOOLEAN /\ IsSeq(chain)
      /\ st = StateOf(chain, legacy, keeps)
  BY <1>1 DEF OpeningInv, ChainInv, Stored, StateInv, Chained
<1>3. Lines(lines)
  BY RefsAreNumbers, TransactionLines
<1>4. unit' # NoUnit => Staging(unit'.view, chain \o unit'.built)
  <2>1. CASE ~p.ok
    BY <1>1, <2>1
  <2>2. CASE p.ok /\ unit = NoUnit
    <3> DEFINE o == Overlay(st, keeps)
    <3>1. p = Posted(o, lines, chain) /\ unit'.built = p.built /\ unit'.view = p.view
      BY <1>1, <2>2
    <3>2. WF(o) /\ o.len = Len(chain) /\ Staging(o, chain)
      BY <1>2, OverlayStages
    <3> HIDE DEF p, o
    <3>3. Staging(p.view, chain \o p.built)
      BY <1>2, <1>3, <2>2, <3>1, <3>2, PostStages
    <3> QED
      BY <3>1, <3>3
  <2>3. CASE p.ok /\ unit # NoUnit
    <3> DEFINE u == unit.view
               W == chain \o b
               t == Build(u, lines, 3)
    <3>1. p = Posted(u, lines, chain) /\ unit'.built = b \o p.built /\ unit'.view = p.view
      BY <1>1, <2>3
    <3>2. p.built = t
      BY <3>1 DEF Posted
    <3>3. /\ IsSeq(b) /\ Chained(W) /\ Replays(W, legacy) /\ IsSeq(W)
          /\ Together(u, chain, Replay(W, legacy, FALSE).view, W)
      BY <2>3 DEF OpeningInv, UnitInv, UnitOf, Chained
    <3>4. Staging(u, W)
      BY <2>3 DEF RowsInv
    <3> HIDE DEF p, b, u, W, t
    <3>5. WF(u) /\ u.len = Len(W) /\ u.len \in Nat
      <4>1. WF(u) /\ u.len = Len(W)
        BY <3>3, StandsAtEnd
      <4> QED
        BY <4>1 DEF WF
    <3>6. IsSeq(t)
      BY <1>3, <3>5, BuiltEntries DEF BuiltOf, t
    <3>7. Staging(p.view, W \o p.built)
      BY <1>3, <2>3, <3>1, <3>3, <3>4, <3>5, PostStages
    <3>8. chain \o (b \o t) = W \o t
      BY <1>2, <3>3, <3>6, ConcatThrice DEF W
    <3> QED
      BY <3>1, <3>2, <3>7, <3>8
  <2> QED
    BY <2>1, <2>2, <2>3
<1> QED
  BY <1>1, <1>4 DEF RowsInv

\* Rows R, and authorizations served, that are what the chain c with the state
\* S and the snapshots s implies.
Settled(c, S, R, s, sv) ==
    /\ RowsRead(c, R.auths) /\ Owned(R.auths, S.holds) /\ EventsAgree(c, R.events, s)
    /\ R.nodes = NodeRows(S) /\ R.events = EventRows(c) /\ Serving(R.auths, sv, S.holds)

\* While a ledger is open that is what its rows are.
LEMMA OpenSettled ==
    ASSUME OpeningInv, open
    PROVE  RowsInv <=> /\ Settled(chain, st, rows, snaps, served)
                       /\ unit # NoUnit => Staging(unit.view, chain \o unit.built)
<1>1. st = StateOf(chain, legacy, keeps)
  BY DEF OpeningInv, StateInv
<1> QED
  BY <1>1 DEF RowsInv, Settled

\* A transaction of no scope leaves them so.
LEMMA QuietlySettled ==
    ASSUME NEW c, NEW l, NEW k \in BOOLEAN, NEW s, Stored(c, l, k, s),
           NEW S, S = StateOf(c, l, k), NEW line, Quiet(line),
           NEW p, p = Posted(Overlay(S, k), <<line>>, c), p.ok, Chained(c \o p.built),
           NEW R, NEW sv, Settled(c, S, R, s, sv)
    PROVE  Settled(c \o p.built, Merge(p.view), R, s, sv)
<1> DEFINE d == c \o p.built
<1>1. Chained(c) /\ IsSeq(c) /\ Replays(c, l)
  BY DEF Stored, Chained
<1>2. /\ Merge(p.view).holds = S.holds /\ NodeRows(Merge(p.view)) = NodeRows(S)
      /\ EventRows(d) = EventRows(c) /\ IsSeq(p.built)
  BY <1>1, QuietPost
<1>3. Extends(c, d)
  BY <1>1, <1>2, ExtendsBy
<1> HIDE DEF d
<1>4. \A n \in DOMAIN s : n \in 1..Len(c)
  BY SnapsWithin
<1>5. RowsRead(d, R.auths) /\ EventsAgree(d, R.events, s)
  BY <1>3, <1>4, RowsStay DEF Settled
<1> QED
  BY <1>2, <1>5 DEF Settled, d

\* The entry of a checkpoint writes no row.
LEMMA WriteCheckpointRows ==
    ASSUME OpeningInv, OpeningInv', RowsInv, WriteCheckpoint
    PROVE  RowsInv'
<1> DEFINE line == Line("CHECKPOINT", "NONE", None, None, 0, 0, <<making.seq>>)
           p == Posted(Overlay(st, keeps), <<line>>, chain)
<1>1. /\ making.stage = "stored" /\ unit = NoUnit
      /\ \/ chain' = chain /\ st' = st
         \/ p.ok /\ chain' = chain \o p.built /\ st' = Merge(p.view)
      /\ UNCHANGED <<legacy, rows, snaps, keeps, open, served, unit>>
  BY DEF WriteCheckpoint
<1>2. open
  <2>1. making # NoCheckpoint
    BY <1>1 DEF NoCheckpoint
  <2> QED
    BY <2>1 DEF OpeningInv, MakingInv
<1>3. CASE chain' = chain /\ st' = st
  BY <1>1, <1>3 DEF RowsInv
<1>4. CASE p.ok /\ chain' = chain \o p.built /\ st' = Merge(p.view)
  <2>1. /\ keeps \in BOOLEAN /\ st = StateOf(chain, legacy, keeps)
        /\ Stored(chain, legacy, keeps, snaps) /\ Settled(chain, st, rows, snaps, served)
    BY <1>2, OpenSettled DEF OpeningInv, ChainInv, StateInv
  <2>2. Chained(chain') /\ st' = StateOf(chain', legacy', keeps')
    BY <1>1, <1>2 DEF OpeningInv, ChainInv, Stored, StateInv
  <2>3. Quiet(line)
    BY DEF Quiet, Line, Scopeless
  <2>4. Chained(chain \o p.built)
    BY <1>4, <2>2
  <2> HIDE DEF line
  <2>5. Settled(chain \o p.built, Merge(p.view), rows, snaps, served)
    BY <1>4, <2>1, <2>3, <2>4, QuietlySettled
  <2> HIDE DEF p
  <2> QED
    BY <1>1, <1>4, <2>2, <2>5 DEF RowsInv, Settled
<1> QED
  BY <1>1, <1>3, <1>4

\* What an open serves, and the rows it finds or rebuilds, the chain implies.
LEMMA OpenedRows ==
    ASSUME OpeningInv, RowsInv, NEW S, S = StateOf(chain, legacy, keeps),
           NEW base, base = 0 \/ base \in DOMAIN snaps,
           NEW R, R = IF Problems(S, base) THEN Rebuilt(S) ELSE rows
    PROVE  Settled(chain, S, R, snaps, Served(S))
<1>1. /\ Readable(S) /\ Chained(chain) /\ Stored(chain, legacy, keeps, snaps)
  BY RowsReadable DEF OpeningInv, ChainInv, Stored
<1>2. \A n \in DOMAIN snaps : n \in 1..Len(chain)
  BY <1>1, SnapsWithin
<1>3. EventsAgree(chain, EventRows(chain), snaps)
  BY <1>1, <1>2, EventsOwn
<1>4. CASE Problems(S, base)
  <2>1. R = Rebuilt(S)
    BY <1>4
  <2>2. /\ RowsRead(chain, R.auths) /\ Owned(R.auths, S.holds)
        /\ Serving(R.auths, Served(S), S.holds)
    BY <1>1, <2>1, RebuiltServes
  <2>3. R.nodes = NodeRows(S) /\ R.events = EventRows(chain)
    BY <2>1 DEF Rebuilt
  <2> QED
    BY <1>3, <2>2, <2>3 DEF Settled
<1>5. CASE ~Problems(S, base)
  <2>1. R = rows
    BY <1>5
  <2>2. Serving(rows.auths, Served(S), S.holds)
    BY <1>1, <1>5, NoProblems
  <2>3. /\ rows.nodes = NodeRows(S)
        /\ {q \in rows.events : q > base} = {q \in EventRows(chain) : q > base}
    BY <1>5 DEF Problems
  <2>4. /\ RowsRead(chain, rows.auths) /\ Owned(rows.auths, S.holds)
        /\ EventsAgree(chain, rows.events, snaps)
    BY DEF RowsInv
  <2>5. rows.events = EventRows(chain)
    <3>1. /\ rows.events \subseteq 1..Len(chain) /\ EventRows(chain) \subseteq 1..Len(chain)
          /\ \A n \in DOMAIN snaps : \A q \in 1..n : q \in rows.events <=> q \in EventRows(chain)
      BY <1>3, <2>4 DEF EventsAgree
    <3>2. Len(chain) \in Nat
      BY <1>1, SeqFacts DEF Chained
    <3>3. ASSUME NEW q \in 1..Len(chain) PROVE q \in rows.events <=> q \in EventRows(chain)
      <4>1. CASE q > base
        BY <2>3, <4>1
      <4>2. CASE ~(q > base)
        <5>1. base \in DOMAIN snaps /\ base \in 1..Len(chain)
          <6>1. q >= 1
            BY <3>2
          <6> QED
            BY <1>2, <3>2, <4>2, <6>1
        <5>2. q \in 1..base
          BY <3>2, <4>2, <5>1
        <5> QED
          BY <3>1, <5>1, <5>2
      <4> QED
        BY <4>1, <4>2
    <3> QED
      BY <3>1, <3>3
  <2> QED
    BY <2>1, <2>2, <2>3, <2>4, <2>5 DEF Settled
<1> QED
  BY <1>4, <1>5

\* An open leaves rows the chain implies, sealed or not.
LEMMA OpenRows ==
    ASSUME OpeningInv, OpeningInv', RowsInv,
           NEW full, NEW repair, NEW sign, Open(full, repair, sign)
    PROVE  RowsInv'
<1> DEFINE image == FromImage(full)
           base == IF full \/ ~keeps THEN 0 ELSE NewestCheckpoint
           line == Line("SEAL", "NONE", None, None, 0, 0, legacy)
           seal == Posted(Overlay(image.state, keeps), SealLine, chain)
           seals == image.state.sawV1 /\ ~image.state.sawV2
           R == IF Problems(image.state, base) THEN Rebuilt(image.state) ELSE rows
<1>1. /\ ~open /\ image.ok /\ open' /\ rows' = R /\ served' = Served(image.state)
      /\ seals => seal.ok
      /\ chain' = IF seals THEN chain \o seal.built ELSE chain
      /\ st' = IF seals THEN Merge(seal.view) ELSE image.state
      /\ UNCHANGED <<legacy, snaps, keeps, unit>>
  BY DEF Open, Unclaimed
<1>2. image.state = StateOf(chain, legacy, keeps)
  BY <1>1, ImageIsReplay
<1> HIDE DEF image
<1>3. base = 0 \/ base \in DOMAIN snaps
  BY NewestIsStored
<1>4. Settled(chain, image.state, R, snaps, Served(image.state))
  <2> DEFINE S == image.state
  <2>1. R = IF Problems(S, base) THEN Rebuilt(S) ELSE rows
    OBVIOUS
  <2> HIDE DEF S, base, R
  <2> QED
    BY <1>2, <1>3, <2>1, OpenedRows DEF S
<1> HIDE DEF base, R
<1>5. Settled(chain', st', rows', snaps', served')
  <2>1. CASE seals
    <3>1. SealLine = <<line>>
      BY DEF SealLine
    <3>2. Quiet(line)
      BY DEF Quiet, Line, Scopeless
    <3> HIDE DEF line
    <3>3. seal = Posted(Overlay(image.state, keeps), <<line>>, chain) /\ seal.ok
      BY <1>1, <2>1, <3>1
    <3>4. Chained(chain \o seal.built)
      <4>1. Chained(chain')
        BY DEF OpeningInv, ChainInv, Stored
      <4> QED
        BY <1>1, <2>1, <4>1
    <3>5. chain' = chain \o seal.built /\ st' = Merge(seal.view)
      BY <1>1, <2>1
    <3> HIDE DEF seal
    <3>6. Stored(chain, legacy, keeps, snaps) /\ keeps \in BOOLEAN
      BY DEF OpeningInv, ChainInv
    <3>7. Settled(chain \o seal.built, Merge(seal.view), R, snaps, Served(image.state))
      BY <1>2, <1>4, <3>2, <3>3, <3>4, <3>6, QuietlySettled
    <3> QED
      BY <1>1, <3>5, <3>7
  <2>2. CASE ~seals
    BY <1>1, <1>4, <2>2
  <2> QED
    BY <2>1, <2>2
<1>6. st' = StateOf(chain', legacy', keeps')
  BY <1>1 DEF OpeningInv, StateInv
<1>7. unit' = NoUnit
  BY <1>1 DEF OpeningInv, UnitInv
<1> QED
  BY <1>5, <1>6, <1>7 DEF RowsInv, Settled

\* Closing holds and opening others, under their own ids: the holds, the rows
\* and the authorizations kept are the ones whose hold is still open.
OpenAfter(H, closed, opened) == {h \in H : h.id \notin closed} \cup opened
RowsAfter(A, s, closed, opened) ==
    {r \in A : s[r.id].id \notin closed} \cup {AuthRow(h.id, h) : h \in opened}
ServedAfter(s, closed, opened) ==
    [a \in {y \in DOMAIN s : s[y].id \notin closed} \cup {h.id : h \in opened} |->
       IF a \in DOMAIN s THEN s[a] ELSE CHOOSE h \in opened : h.id = a]

LEMMA ServingFollows ==
    ASSUME NEW A, NEW s, NEW H, Serving(A, s, H), \A h, g \in H : h.id = g.id => h = g,
           NEW n \in Nat, \A r \in A : r.id <= n /\ r.id \in Int,
           \A h \in H : h.id <= n /\ h.id \in Int,
           NEW closed, NEW opened, \A h \in opened : h.id \in Int /\ h.id > n,
           \A h, g \in opened : h.id = g.id => h = g
    PROVE  Serving(RowsAfter(A, s, closed, opened), ServedAfter(s, closed, opened),
                   OpenAfter(H, closed, opened))
<1> DEFINE B == RowsAfter(A, s, closed, opened)
           x == ServedAfter(s, closed, opened)
           K == {y \in DOMAIN s : s[y].id \notin closed}
           N == {h.id : h \in opened}
           G == {h \in H : h.id \notin closed}
           old == {r \in A : s[r.id].id \notin closed}
           new == {AuthRow(h.id, h) : h \in opened}
<1>1. /\ \A r \in A : r.id \in DOMAIN s /\ Key(r) = Key(s[r.id])
      /\ \A a \in DOMAIN s : s[a] \in H /\ (\E r \in A : r.id = a)
      /\ \A h \in H : \E a \in DOMAIN s : s[a] = h
      /\ \A a, b \in DOMAIN s : s[a] = s[b] => a = b
  <2>1. {r.id : r \in A} = DOMAIN s /\ {s[a] : a \in DOMAIN s} = H
    BY DEF Serving
  <2> QED
    BY <2>1 DEF Serving
<1>2. \A a \in DOMAIN s, h \in opened : a # h.id
  BY <1>1
<1>2a. x = [a \in K \cup N |-> IF a \in DOMAIN s THEN s[a] ELSE CHOOSE h \in opened : h.id = a]
  BY DEF ServedAfter
<1>2b. B = old \cup new
  BY DEF RowsAfter
<1> HIDE DEF x, B
<1>3. DOMAIN x = K \cup N /\ \A a \in K : x[a] = s[a]
  BY <1>2a
<1>4. \A h \in opened : x[h.id] = h
  <2> TAKE h \in opened
  <2>1. h.id \in K \cup N /\ h.id \notin DOMAIN s
    BY <1>2
  <2>2. x[h.id] = CHOOSE g \in opened : g.id = h.id
    BY <1>2a, <2>1
  <2>3. (CHOOSE g \in opened : g.id = h.id) = h
    OBVIOUS
  <2> QED
    BY <2>2, <2>3
<1>5. \A h \in opened : AuthRow(h.id, h).id = h.id /\ Key(AuthRow(h.id, h)) = Key(h)
  BY DEF AuthRow, Key
<1>6. {r.id : r \in B} = DOMAIN x
  <2>1. {r.id : r \in old} = K
    BY <1>1
  <2>2. {r.id : r \in new} = N
    BY <1>5
  <2> HIDE DEF old, new, K, N
  <2> QED
    BY <1>2b, <1>3, <2>1, <2>2
<1>7. ASSUME NEW r \in B PROVE Key(r) = Key(x[r.id])
  <2>1. CASE r \in old
    BY <1>1, <1>3, <2>1
  <2>2. CASE r \in new
    <3>1. PICK h \in opened : r = AuthRow(h.id, h)
      BY <2>2
    <3> QED
      BY <1>4, <1>5, <3>1
  <2> HIDE DEF old, new
  <2> QED
    BY <1>2b, <2>1, <2>2
<1>8. {x[a] : a \in DOMAIN x} = G \cup opened
  <2>1. \A a \in K : x[a] \in G
    BY <1>1, <1>3
  <2>2. \A a \in N : x[a] \in opened
    BY <1>4
  <2>3. \A h \in G : \E a \in K : x[a] = h
    BY <1>1, <1>3
  <2>4. \A h \in opened : h.id \in N /\ x[h.id] = h
    BY <1>4
  <2>5. \A a \in DOMAIN x : x[a] \in G \cup opened
    <3> HIDE DEF K, N, G
    <3> QED
      BY <1>3, <2>1, <2>2
  <2>6. \A h \in G \cup opened : \E a \in DOMAIN x : x[a] = h
    <3> HIDE DEF K, N, G
    <3> QED
      BY <1>3, <2>3, <2>4
  <2> HIDE DEF K, N, G
  <2> QED
    BY <2>5, <2>6
<1>9. \A h \in H, g \in opened : h # g
  <2> SUFFICES ASSUME NEW h \in H, h \in opened PROVE FALSE
    OBVIOUS
  <2>1. h.id <= n /\ h.id > n /\ h.id \in Int
    OBVIOUS
  <2> QED
    BY <2>1
<1>10. \A a, b \in DOMAIN x : x[a] = x[b] => a = b
  <2> SUFFICES ASSUME NEW a \in K \cup N, NEW b \in K \cup N, x[a] = x[b] PROVE a = b
    BY <1>3
  <2>1. CASE a \in K /\ b \in K
    BY <1>1, <1>3, <2>1
  <2>2. CASE a \in N /\ b \in N
    BY <1>4, <2>2
  <2>3. CASE a \in K /\ b \in N
    BY <1>1, <1>3, <1>4, <1>9, <2>3
  <2>4. CASE a \in N /\ b \in K
    BY <1>1, <1>3, <1>4, <1>9, <2>4
  <2> QED
    BY <2>1, <2>2, <2>3, <2>4
<1>11. OpenAfter(H, closed, opened) = G \cup opened
  BY DEF OpenAfter
<1> HIDE DEF K, N, G, old, new
<1> QED
  BY <1>6, <1>7, <1>8, <1>10, <1>11 DEF Serving, B, x

\* A unit of work is durable with the rows its entries imply.
LEMMA CommitRows ==
    ASSUME OpeningInv, OpeningInv', RowsInv, Commit
    PROVE  RowsInv'
<1> DEFINE t == unit.built
           v == unit.view
           d == chain \o t
           A == rows.auths
<1>1. /\ unit # NoUnit /\ chain' = d /\ st' = Merge(v) /\ unit' = NoUnit
      /\ rows' = CacheRows(v, t) /\ served' = FollowHolds(v)
      /\ UNCHANGED <<legacy, snaps, keeps, open>>
  BY DEF Commit
<1>2. /\ open /\ IsSeq(t) /\ Chained(d) /\ Replays(d, legacy) /\ v.base = st
      /\ Together(v, chain, Replay(d, legacy, FALSE).view, d)
  BY <1>1 DEF OpeningInv, UnitInv, UnitOf
<1>3. Settled(chain, st, rows, snaps, served) /\ Staging(v, d)
  BY <1>1, <1>2, OpenSettled
<1>4. /\ Stored(chain, legacy, keeps, snaps) /\ keeps \in BOOLEAN /\ Chained(chain)
      /\ IsSeq(chain) /\ Replays(chain, legacy) /\ st = StateOf(chain, legacy, keeps)
  BY <1>2 DEF OpeningInv, ChainInv, Stored, StateInv, Chained
<1>5. st' = StateOf(chain', legacy', keeps')
  BY <1>1, <1>2 DEF OpeningInv, StateInv
<1> DEFINE opened == v.opened
           closed == v.closed
           H == st.holds
           n == Len(chain)
<1>6. rows' = [nodes  |-> Over([s \in v.rowScopes |-> NodeRow(Merge(v), s)], rows.nodes),
               events |-> rows.events \cup v.events,
               auths  |-> {r \in A : r.id \notin {AuthorizationOf(h) : h \in closed}}
                            \cup {AuthRow(h.id, h) : h \in opened}]
  BY <1>1 DEF CacheRows
<1>7. served' = [a \in {y \in DOMAIN served : served[y].id \notin closed} \cup {h.id : h \in opened} |->
                   IF a \in DOMAIN served THEN served[a] ELSE CHOOSE h \in opened : h.id = a]
  BY <1>1 DEF FollowHolds
<1> HIDE DEF t, v, d
<1>8. WF(v) /\ v.len = Len(d)
  BY <1>2, StandsAtEnd
<1>9. st.len = n /\ HoldsRead(chain, H)
  BY <1>4, OverlayStages, HoldsOfChain
<1>10. Extends(chain, d) /\ n \in Nat /\ Len(d) \in Nat /\ n <= Len(d)
  BY <1>2, <1>4, ExtendsBy DEF d, Extends
<1>11. v.base.len = n /\ HoldsOK(v) /\ NodesOK(v)
  <2>1. HoldsOK(v) /\ NodesOK(v)
    BY <1>8 DEF WF
  <2>2. v.base.len = n
    BY <1>2, <1>9
  <2> QED
    BY <2>1, <2>2
<1>12. \A h \in opened : /\ h.id \in 1..Len(d) /\ h.id > n /\ d[h.id].type = "HOLD"
                         /\ h = Placed(d[h.id]) /\ Key(h) = Key(d[h.id])
  <2> TAKE h \in opened
  <2>1. h \in OpenHolds(v)
    BY DEF OpenHolds
  <2>2. h.id \in 1..v.len /\ h.id > v.base.len
    BY <1>11, <2>1 DEF HoldsOK
  <2>3. d[h.id].type = "HOLD" /\ h = Placed(d[h.id])
    BY <1>3, <2>1 DEF Staging
  <2>4. Key(h) = Key(d[h.id])
    <3>1. h.scope = d[h.id].scope /\ h.amt = d[h.id].amt
      BY <2>3 DEF Placed
    <3> QED
      BY <3>1 DEF Key
  <2> QED
    BY <1>8, <1>11, <2>2, <2>3, <2>4
<1>13. \A h, g \in opened : h.id = g.id => h = g
  BY <1>12
<1>14. \A r \in A : r.id \in (-n)..n /\ r.hold \in 1..n
  BY <1>3 DEF Settled, RowsRead
<1>15. \A h, g \in H : h.id = g.id => h = g
  BY <1>9 DEF HoldsRead
<1>16. Serving(A, served, H)
  BY <1>3 DEF Settled
<1>17. closed \subseteq {h.id : h \in H}
  BY <1>2, <1>3 DEF Staging
<1>18. \A r \in A : r.id \in {AuthorizationOf(h) : h \in closed} <=> served[r.id].id \in closed
  <2>1. /\ \A r \in A : r.id \in DOMAIN served
        /\ \A a \in DOMAIN served : served[a] \in H
        /\ \A h \in H : \E a \in DOMAIN served : served[a] = h
        /\ \A a, b \in DOMAIN served : served[a] = served[b] => a = b
    <3>1. {r.id : r \in A} = DOMAIN served /\ {served[a] : a \in DOMAIN served} = H
      BY <1>16 DEF Serving
    <3> QED
      BY <1>16, <3>1 DEF Serving
  <2>2. ASSUME NEW a \in DOMAIN served PROVE AuthorizationOf(served[a].id) = a
    <3> DEFINE h == served[a].id
    <3>1. \A b \in DOMAIN served : served[b].id = h => b = a
      BY <1>15, <2>1
    <3>2. (CHOOSE b \in DOMAIN served : served[b].id = h) = a
      BY <3>1
    <3> HIDE DEF h
    <3>3. \E b \in DOMAIN served : served[b].id = h
      BY DEF h
    <3>4. AuthorizationOf(h) = a
      BY <3>2, <3>3 DEF AuthorizationOf
    <3> QED
      BY <3>4 DEF h
  <2>3. ASSUME NEW r \in A, NEW h \in closed, r.id = AuthorizationOf(h)
        PROVE  served[r.id].id \in closed
    <3>1. PICK a \in DOMAIN served : served[a].id = h
      BY <1>17, <2>1
    <3>2. r.id = a
      BY <2>2, <2>3, <3>1
    <3> QED
      BY <3>1, <3>2
  <2>4. ASSUME NEW r \in A, served[r.id].id \in closed
        PROVE  r.id \in {AuthorizationOf(h) : h \in closed}
    <3>1. r.id = AuthorizationOf(served[r.id].id)
      BY <2>1, <2>2
    <3> QED
      BY <2>4, <3>1
  <2> QED
    BY <2>3, <2>4
<1> DEFINE old == {r \in A : served[r.id].id \notin closed}
           new == {AuthRow(h.id, h) : h \in opened}
           B == old \cup new
           after == {h \in H : h.id \notin closed} \cup opened
<1>19. rows'.auths = B
  <2>1. {r \in A : r.id \notin {AuthorizationOf(h) : h \in closed}} = old
    BY <1>18
  <2> HIDE DEF old, new
  <2> QED
    BY <1>6, <2>1 DEF new
<1>20. st'.holds = after
  <2>1. OpenHolds(v) = after
    BY <1>2 DEF OpenHolds
  <2> HIDE DEF after
  <2> QED
    BY <1>1, <2>1, MergeFields DEF Merged
<1>21. Serving(B, served', after)
  <2> DEFINE x == served'
  <2>1. /\ \A r \in A : r.id <= n /\ r.id \in Int
        /\ \A h \in opened : h.id \in Int /\ h.id > n
        /\ \A h \in H : h.id <= n /\ h.id \in Int
    <3>1. \A h \in H : h.id \in 1..n
      BY <1>9 DEF HoldsRead
    <3> QED
      BY <1>10, <1>12, <1>14, <3>1
  <2>2. B = RowsAfter(A, served, closed, opened) /\ after = OpenAfter(H, closed, opened)
    BY DEF RowsAfter, OpenAfter
  <2>3. x = ServedAfter(served, closed, opened)
    BY <1>7 DEF ServedAfter
  <2> HIDE DEF A, H, n, opened, closed, B, after, x, old, new
  <2>4. Serving(RowsAfter(A, served, closed, opened), ServedAfter(served, closed, opened),
                OpenAfter(H, closed, opened))
    BY <1>10, <1>13, <1>15, <1>16, <2>1, ServingFollows
  <2> QED
    BY <2>2, <2>3, <2>4 DEF x
<1>22. \A h \in opened : LET r == AuthRow(h.id, h) IN
         r.id = h.id /\ r.hold = h.id /\ Key(r) = Key(h)
  BY DEF AuthRow, Key
<1>23. RowsRead(d, B)
  <2>1. RowsRead(chain, old)
    <3>1. RowsRead(chain, A)
      BY <1>3 DEF Settled
    <3>2. old \in SUBSET A
      OBVIOUS
    <3> HIDE DEF old, A
    <3> QED
      BY <3>1, <3>2, RowsFewer
  <2>2. IsFiniteSet(new)
    <3>1. IsFiniteSet(opened)
      <4>1. IsFiniteSet(OpenHolds(v)) /\ opened \in SUBSET OpenHolds(v)
        BY <1>11 DEF HoldsOK, OpenHolds
      <4> QED
        BY <4>1, FS_Subset
    <3> DEFINE f == [h \in opened |-> AuthRow(h.id, h)]
    <3>2. IsFiniteSet({f[h] : h \in opened})
      <4> HIDE DEF f, opened
      <4> QED
        BY <3>1, ImageFinite
    <3>3. new = {f[h] : h \in opened}
      OBVIOUS
    <3> QED
      BY <3>2, <3>3
  <2>3. \A r \in new : /\ r.hold \in 1..Len(d) /\ r.hold > n
                       /\ d[r.hold].type = "HOLD" /\ Key(r) = Key(d[r.hold])
                       /\ r.id = r.hold
    BY <1>12, <1>22
  <2>4. \A r, q \in new : r.hold = q.hold => r = q
    BY <1>13, <1>22
  <2>5. \A r \in new : r.id = r.hold \/ r.id = -r.hold
    BY <2>3
  <2>6. \A r, q \in new : r.id = q.id => r.hold = q.hold
    BY <2>3
  <2> HIDE DEF old, new
  <2> QED
    BY <1>10, <2>1, <2>2, <2>3, <2>4, <2>5, <2>6, RowsBeside
<1>24. Owned(B, after)
  <2> SUFFICES ASSUME NEW r \in B, NEW h \in after, r.id = h.id PROVE r.hold = h.id
    BY DEF Owned
  <2>1. CASE r \in new
    BY <1>22, <2>1
  <2>2. CASE r \in old /\ h \in H
    BY <1>3, <2>2 DEF Settled, Owned
  <2>3. CASE r \in old /\ h \in opened
    <3>1. r.id \in (-n)..n /\ h.id > n /\ h.id \in 1..Len(d)
      BY <1>12, <1>14, <2>3
    <3> QED
      BY <1>10, <3>1
  <2> QED
    BY <2>1, <2>2, <2>3
<1>25. rows'.nodes = NodeRows(st')
  <2>1. rows.nodes = NodeRows(v.base)
    BY <1>2, <1>3 DEF Settled
  <2>2. DOMAIN v.nodes = v.rowScopes
    BY <1>3 DEF Staging
  <2>3. NodeRows(Merge(v)) = Over([s \in v.rowScopes |-> NodeRow(Merge(v), s)], NodeRows(v.base))
    BY <1>11, <2>2, RowsOfNodes
  <2> QED
    BY <1>1, <1>6, <2>1, <2>3
<1>26. rows'.events = EventRows(d)
  <2>1. rows.events = {i \in 1..n : chain[i].type \in Control}
    BY <1>3, <1>4, EventRowsAt DEF Settled
  <2>2. v.events = {i \in 1..Len(d) : i > n /\ d[i].type \in Control}
    BY <1>3, <1>8, <1>11 DEF Staging
  <2>3. EventRows(d) = {i \in 1..Len(d) : d[i].type \in Control}
    BY <1>2, EventRowsAt
  <2>4. \A i \in 1..Len(d) : i \in 1..n \/ i > n
    BY <1>10
  <2>5. \A i \in 1..n : i \in 1..Len(d) /\ d[i] = chain[i]
    BY <1>10 DEF Extends
  <2> QED
    BY <1>6, <2>1, <2>2, <2>3, <2>4, <2>5
<1>27. EventsAgree(d, EventRows(d), snaps)
  <2>1. \A m \in DOMAIN snaps : m \in 1..Len(d)
    <3>1. \A m \in DOMAIN snaps : m \in 1..Len(chain)
      BY <1>4, SnapsWithin
    <3> QED
      BY <1>10, <3>1
  <2> QED
    BY <1>2, <2>1, EventsOwn
<1> HIDE DEF B, after
<1> QED
  BY <1>1, <1>5, <1>19, <1>20, <1>21, <1>23, <1>24, <1>25, <1>26, <1>27 DEF RowsInv

\* Every step keeps the rows.
LEMMA RowsNext == ASSUME OpeningInv, OpeningInv', RowsInv, [Next]_vars PROVE RowsInv'
<1>1. CASE \E lines \in Transactions(workload.kinds, {0} \cup Refs), ver \in {1, 2},
              crashed \in BOOLEAN : OldWrite(lines, ver, crashed)
  BY <1>1, OldWriteRows
<1>2. CASE \E type \in Control, s \in Scopes : OldEvent(type, s)
  BY <1>2, OldEventRows
<1>3. CASE \E full \in BOOLEAN, repair \in BOOLEAN, sign \in workload.signings :
              Open(full, repair, sign)
  BY <1>3, OpenRows
<1>4. CASE Close
  BY <1>4, CloseRows
<1>5. CASE \E lines \in Transactions(workload.kinds, Refs) : Post(lines)
  BY <1>5, PostRows
<1>6. CASE Commit
  BY <1>6, CommitRows
<1>7. CASE CommitFails
  BY <1>7, CommitFailsRows
<1>8. CASE EncodeCheckpoint
  BY <1>8, EncodeRows
<1>9. CASE PutSnapshot
  BY <1>9, PutSnapshotRows
<1>10. CASE WriteCheckpoint
  BY <1>10, WriteCheckpointRows
<1>11. CASE UNCHANGED vars
  BY <1>11 DEF RowsInv, vars, stored
<1> QED
  BY <1>1, <1>2, <1>3, <1>4, <1>5, <1>6, <1>7, <1>8, <1>9, <1>10, <1>11 DEF Next

\* As many authorizations are served as holds are open.
LEMMA ServedOnce ==
    ASSUME NEW A, NEW s, NEW H, Serving(A, s, H), IsFiniteSet(H)
    PROVE  Cardinality(DOMAIN s) = Cardinality(H)
<1> DEFINE D == DOMAIN s
           g == [h \in H |-> CHOOSE a \in D : s[a] = h]
<1>1. {s[a] : a \in D} = H /\ \A a, b \in D : s[a] = s[b] => a = b
  BY DEF Serving
<1>2. (\A a \in D : s[a] \in H) /\ (\A h \in H : \E a \in D : s[a] = h)
  BY <1>1
<1> HIDE DEF D
<1>3. \A h \in H : g[h] \in D /\ s[g[h]] = h
  BY <1>2
<1>4. \A a \in D : g[s[a]] = a
  BY <1>1, <1>2, <1>3
<1>5. g \in [H -> D]
  BY <1>3
<1> HIDE DEF g
<1>6. g \in Injection(H, D)
  BY <1>3, <1>5 DEF Injection, IsInjective
<1>7. g \in Surjection(H, D)
  BY <1>2, <1>4, <1>5 DEF Surjection
<1>8. ExistsBijection(H, D)
  BY <1>6, <1>7 DEF Bijection, ExistsBijection
<1> QED
  BY <1>8, FS_Bijection DEF D

----------------------------------------------------------------------------
(* Theorems *)

\* The chain replays, the state served is its replay, a unit being built
\* continues it, and what is stored or about to be is a snapshot of it.
THEOREM OpeningInvariant == Spec => []OpeningInv
<1> QED
  BY OpeningInit, OpeningNext, PTL DEF Spec

\* The rules, Merge and Posted: whatever a unit of work, a seal or a checkpoint
\* commits, over whatever state was merged or adopted, opens again from genesis.
THEOREM WritesAreReplayable == Spec => []WritesReplay
<1>1. OpeningInv => WritesReplay
  BY DEF OpeningInv, ChainInv, Stored, WritesReplay
<1> QED
  BY <1>1, OpeningInvariant, PTL

\* Merge, AdoptSnapshot and Decode: a state merged unit by unit, or adopted
\* from a snapshot, is the one a single replay of the chain derives.
THEOREM ServedIsReplayed == Spec => []StateIsReplay
<1>1. OpeningInv => StateIsReplay
  BY DEF OpeningInv, StateInv, StateIsReplay
<1> QED
  BY <1>1, OpeningInvariant, PTL

\* PutSnapshot and WriteCheckpoint: a snapshot stored is of the chain it is
\* stored with, and the newest checkpoint of the chain names a stored one.
THEOREM SnapshotsAreOfTheChain == Spec => []SnapshotsOfTheChain
<1>1. OpeningInv => SnapshotsOfTheChain
  <2> SUFFICES ASSUME OpeningInv PROVE SnapshotsOfTheChain
    OBVIOUS
  <2>1. Stored(chain, legacy, keeps, snaps) /\ keeps \in BOOLEAN /\ Chained(chain)
    BY DEF OpeningInv, ChainInv, Stored
  <2>2. Len(chain) \in Nat
    BY <2>1, SeqFacts DEF Chained
  <2>3. ASSUME NEW n \in DOMAIN snaps
        PROVE  /\ n <= Len(chain)
               /\ snaps[n].body = Encode(StateOf(SubSeq(chain, 1, n), legacy, keeps))
    <3>1. keeps = TRUE /\ SnapshotOf(chain, legacy, n, snaps[n].body)
      BY <2>1 DEF Stored
    <3>2. n <= Len(chain)
      BY <2>2, <3>1 DEF SnapshotOf, Ends
    <3>3. snaps[n].body = Encode(StateOf(SubSeq(chain, 1, n), legacy, TRUE))
      BY <3>1 DEF SnapshotOf
    <3> QED
      BY <3>1, <3>2, <3>3
  <2> QED
    BY <2>3, NewestIsStored DEF SnapshotsOfTheChain
<1> QED
  BY <1>1, OpeningInvariant, PTL

\* Beside it, and by it, the rows are of the chain: every row names a hold the
\* chain placed, each one another, and while a ledger is open they are the ones
\* its authorizations are served under.
THEOREM RowsInvariant == Spec => [](OpeningInv /\ RowsInv)
<1>1. Init => OpeningInv /\ RowsInv
  BY OpeningInit, RowsInit
<1>2. OpeningInv /\ RowsInv /\ [Next]_vars => (OpeningInv /\ RowsInv)'
  BY OpeningNext, RowsNext
<1> QED
  BY <1>1, <1>2, PTL DEF Spec

\* CacheRows, FollowHolds, Problems and Rebuilt: while a ledger is open its rows
\* are what the chain implies, and every open hold is served once, for its
\* amount, whatever version wrote its row and whatever a crash left of it.
THEOREM CachesAreOfTheChain == Spec => []CachesAreImplied
<1>1. OpeningInv /\ RowsInv => CachesAreImplied
  <2> SUFFICES ASSUME OpeningInv, RowsInv, open PROVE CachesAreImplied
    BY DEF CachesAreImplied
  <2>1. /\ rows.nodes = NodeRows(st) /\ rows.events = EventRows(chain)
        /\ Serving(rows.auths, served, st.holds)
    BY DEF RowsInv
  <2>2. IsFiniteSet(st.holds)
    <3>1. Chained(chain) /\ Replays(chain, legacy) /\ keeps \in BOOLEAN
          /\ st = StateOf(chain, legacy, keeps)
      BY DEF OpeningInv, ChainInv, StateInv, Stored
    <3> QED
      BY <3>1, HoldsOfChain DEF HoldsRead
  <2>3. Cardinality(DOMAIN served) = Cardinality(st.holds)
    BY <2>1, <2>2, ServedOnce
  <2> QED
    BY <2>1, <2>3 DEF CachesAreImplied, Serving
<1> QED
  BY <1>1, RowsInvariant, PTL
=============================================================================
